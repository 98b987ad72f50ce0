--------------------------- MODULE PositionsProofs ---------------------------
(***************************************************************************)
(* Theorems about the position, its profit and the portfolio that is built *)
(* from the log, for any requests, quantities, prices and settlement, any  *)
(* number of fills and connections, whichever calls fail; and about the    *)
(* other place where decimals are rounded, the order router: what it       *)
(* decides and how it splits an order, for any venues, quotes, orders,     *)
(* lots and depths.                                                        *)
(***************************************************************************)
EXTENDS Positions, Routing, FiniteSetTheorems, SequenceTheorems, TLAPS

-----------------------------------------------------------------------------
\* The inductive invariant

Rows == [qty : Int, avg : Int, realized : Int, mark : Int, unrealized : Int, n : Nat, cash : Int]
OrderRequest == [at : {"none", "open", "booking", "done"}, side : Sides, left : Nat]
Collector == [at : {"idle", "read", "written"}, side : Sides, qty : Nat, price : Nat, copy : Rows]
FillEvent == [n : Nat, side : Sides, qty : Nat, price : Nat]
Portfolio == [next : Nat \ {0}, connects : Nat, qty : Int, cash : Int, available : Int,
              unsettled : Int]

TypeOK ==
  /\ req \in [Requests -> OrderRequest]
  /\ row \in Rows /\ pricer \in Rows /\ collector \in Collector
  /\ fills \in Nat
  /\ log \in Seq(FillEvent)
  /\ engine \in Portfolio
  /\ raced \in BOOLEAN

\* The collector reads the row for one order at a time.
BookingInv ==
  /\ \A r \in Requests : req[r].at = "booking" => collector.at = "read"
                                                  /\ collector.side = req[r].side
  /\ \A r, s \in Requests : req[r].at = "booking" /\ req[s].at = "booking" => r = s
  /\ collector.at = "read" => collector.copy.n > 0
  /\ collector.at = "written" => fills > 0

Change == Signed(collector.side, collector.qty)

\* A row that is about to be written has either too few fills, and will take
\* others out of the table, or has those of the table and its own.
RowsInv ==
  /\ row.n = 0 => row.qty = 0 /\ row.cash = 0
  /\ "overwritten" \notin lost =>
       /\ row.n = fills
       /\ pricer.n <= row.n
       /\ pricer.n = row.n => pricer.qty = row.qty /\ pricer.cash = row.cash
       /\ collector.at = "read" => collector.copy.n <= row.n + 1
       /\ collector.at = "read" /\ collector.copy.n = row.n + 1 =>
            /\ collector.copy.qty = row.qty + Change
            /\ collector.copy.cash = row.cash - Change * collector.price

\* What the collector has taken from the order, and is not in the row.
Taken(r) == IF req[r].at = "booking" THEN collector.qty ELSE 0

\* Until two sell orders are under way at once, or a fill is lost, the only one
\* there is fits in the position.
GateInv ==
  ~raced /\ lost = {} =>
    /\ row.qty >= 0
    /\ \A r, s \in Selling : r = s
    /\ \A r \in Selling : req[r].left + Taken(r) <= row.qty

\* Realised profit with what the held quantity cost at the average, against the
\* fills: the error of the average.
Drift(p) == p.realized - p.avg * p.qty - p.cash

\* At each fill the error grows by half a unit for each share.
Exact(p, most) ==
  /\ p.unrealized = (p.mark - p.avg) * p.qty
  /\ Abs(p.qty) <= p.n * most
  /\ 2 * Abs(Drift(p)) <= p.n * p.n * most

CostInv(most) == Exact(row, most) /\ Exact(pricer, most) /\ Exact(collector.copy, most)

\* held[k] and paid[k] are what a portfolio has after the first k events.
Tallies(held, paid) ==
  /\ held \in [0 .. Len(log) -> Int] /\ paid \in [0 .. Len(log) -> Int]
  /\ held[0] = 0 /\ paid[0] = 0
  /\ \A k \in 1 .. Len(log) :
       /\ held[k] = held[k - 1] + Signed(log[k].side, log[k].qty)
       /\ paid[k] = paid[k - 1] - Signed(log[k].side, log[k].qty) * log[k].price

\* What was announced of the row: all of it, but for a fill that is just written.
Announced ==
  IF collector.at = "written"
  THEN [n |-> fills - 1, qty |-> row.qty - Change, cash |-> row.cash + Change * collector.price]
  ELSE [n |-> fills, qty |-> row.qty, cash |-> row.cash]

LogInv == \A k \in 1 .. Len(log) : log[k].n <= Announced.n

\* The log takes the portfolio where it is, and in the end to what was announced.
Accounted(held, paid) ==
  /\ Tallies(held, paid)
  /\ "overwritten" \notin lost =>
       held[Len(log)] = Announced.qty /\ paid[Len(log)] = Announced.cash
  /\ engine.connects > 0 /\ disturbed = {} =>
       /\ engine.next - 1 \in 0 .. Len(log)
       /\ engine.qty = held[engine.next - 1]
       /\ engine.available = paid[engine.next - 1]

EngineInv == Whole(Announced.n) => \E held, paid : Accounted(held, paid)

PositionsInv == TypeOK /\ BookingInv /\ RowsInv /\ GateInv /\ LogInv /\ EngineInv

-----------------------------------------------------------------------------
\* Lemmas about the arithmetic of a fill

\* A quotient and its remainder.
LEMMA Quotient ==
  ASSUME NEW x \in Int, NEW d \in Int, d > 0
  PROVE  /\ x \div d \in Int
         /\ d * (x \div d) <= x /\ x < d * (x \div d) + d
  OBVIOUS

\* An average is off by at most half a unit.
LEMMA RoundedClose ==
  ASSUME NEW x \in Int, NEW d \in Int, d > 0
  PROVE  /\ Rounded(x, d) \in Int
         /\ 2 * (d * Rounded(x, d) - x) <= d
         /\ 2 * (x - d * Rounded(x, d)) <= d
  <1> DEFINE r == (2 * x + d) \div (2 * d)
  <1>1. /\ r \in Int /\ (2 * d) * r <= 2 * x + d /\ 2 * x + d < (2 * d) * r + 2 * d
    <2>1. 2 * x + d \in Int /\ 2 * d \in Int /\ 2 * d > 0
      OBVIOUS
    <2> QED BY <2>1, Quotient
  <1>2. Rounded(x, d) = r
    BY DEF Rounded
  <1> HIDE DEF r
  <1>3. d * r \in Int /\ (2 * d) * r = 2 * (d * r)
    BY <1>1
  <1> QED BY <1>1, <1>2, <1>3

\* The sign of a fill and the size of a position.
LEMMA Signs ==
  /\ \A side \in Sides, q \in Int : Signed(side, q) \in Int /\ Signed(side, q) \in {q, -q}
  /\ \A i \in Int : Abs(i) \in Nat /\ Abs(i) \in {i, -i}
  BY DEF Signed, Abs

\* A new price changes only the price and the unrealised profit.
LEMMA PriceEffects ==
  ASSUME NEW p \in Rows, NEW price \in Int, NEW f, f = UpdateMarketPrice(p, price)
  PROVE  /\ f \in Rows /\ f.qty = p.qty /\ f.n = p.n /\ f.cash = p.cash /\ f.avg = p.avg
         /\ f.realized = p.realized /\ f.mark = price /\ f.unrealized = (price - f.avg) * f.qty
         /\ \A most : Exact(p, most) => Exact(f, most)
  <1> DEFINE u == (price - p.avg) * p.qty
  <1>1. u \in Int
    BY DEF Rows
  <1>2. f = [p EXCEPT !.mark = price, !.unrealized = u]
    BY DEF UpdateMarketPrice
  <1> HIDE DEF u
  <1>3. /\ f \in Rows /\ f.qty = p.qty /\ f.n = p.n /\ f.cash = p.cash /\ f.avg = p.avg
        /\ f.realized = p.realized /\ f.mark = price /\ f.unrealized = u
    BY <1>1, <1>2 DEF Rows
  <1>4. f.unrealized = (price - f.avg) * f.qty
    BY <1>3 DEF u
  <1>5. \A most : Exact(p, most) => Exact(f, most)
    BY <1>3, <1>4 DEF Exact, Drift
  <1> QED BY <1>3, <1>4, <1>5

\* What one fill does to a row.
LEMMA FillEffects ==
  ASSUME NEW p \in Rows, NEW side \in Sides, NEW q \in Nat \ {0}, NEW price \in Int,
         NEW mark \in Int, NEW f, f = UpdateMarketPrice(ApplyFill(p, side, q, price), mark)
  PROVE  /\ f \in Rows
         /\ f.qty = p.qty + Signed(side, q) /\ f.mark = mark
         /\ f.n = p.n + 1 /\ f.cash = p.cash - Signed(side, q) * price
         /\ f.unrealized = (mark - f.avg) * f.qty
         /\ Increasing(p, side) =>
              /\ f.realized = p.realized
              /\ f.avg = Rounded(p.avg * Abs(p.qty) + price * q, Abs(p.qty) + q)
         /\ ~Increasing(p, side) =>
              /\ f.avg = p.avg
              /\ f.realized = p.realized + Signed(side, q) * (p.avg - price)
  <1> DEFINE z == Signed(side, q)
             h == p.qty + z
             c == p.cash - z * price
             a == Rounded(p.avg * Abs(p.qty) + price * q, Abs(p.qty) + q)
             g == p.realized + q * (IF p.qty > 0 THEN price - p.avg ELSE p.avg - price)
             more == [p EXCEPT !.qty = h, !.n = p.n + 1, !.cash = c]
  <1>0. /\ p.qty \in Int /\ p.avg \in Int /\ p.realized \in Int /\ p.cash \in Int /\ p.n + 1 \in Nat
        /\ p.mark \in Int /\ p.unrealized \in Int
    BY DEF Rows
  <1>1. z \in Int /\ Abs(p.qty) \in Nat
    BY <1>0, Signs
  <1>2. h \in Int /\ c \in Int /\ z * price \in Int /\ z * (p.avg - price) \in Int
    BY <1>0, <1>1
  <1> DEFINE k == p.n + 1
  <1> HIDE DEF h, c, k
  <1>3. more = [p EXCEPT !.qty = h, !.n = k, !.cash = c] /\ k \in Nat
    BY <1>0 DEF k
  <1> HIDE DEF more
  <1>4. /\ more \in Rows /\ more.qty = h /\ more.n = k /\ more.cash = c /\ more.avg = p.avg
        /\ more.realized = p.realized
    BY <1>2, <1>3 DEF Rows
  <1>5. ApplyFill(p, side, q, price) =
          IF Increasing(p, side) THEN [more EXCEPT !.avg = a] ELSE [more EXCEPT !.realized = g]
    BY <1>4 DEF ApplyFill, more, h, c, k
  <1>6. CASE Increasing(p, side)
    <2>1. a \in Int
      <3>1. p.avg * Abs(p.qty) + price * q \in Int /\ Abs(p.qty) + q \in Int /\ Abs(p.qty) + q > 0
        BY <1>0, <1>1
      <3> QED BY <3>1, RoundedClose
    <2> HIDE DEF a
    <2>2. PICK x : x = ApplyFill(p, side, q, price) /\ x = [more EXCEPT !.avg = a]
      BY <1>5, <1>6
    <2>3. /\ x \in Rows /\ x.qty = h /\ x.n = k /\ x.cash = c /\ x.avg = a
          /\ x.realized = p.realized
      BY <1>4, <2>1, <2>2 DEF Rows
    <2>4. f = UpdateMarketPrice(x, mark)
      BY <2>2
    <2>5. /\ f \in Rows /\ f.qty = h /\ f.n = k /\ f.cash = c /\ f.avg = a
          /\ f.realized = p.realized /\ f.mark = mark /\ f.unrealized = (mark - f.avg) * f.qty
      BY <2>3, <2>4, PriceEffects
    <2> QED BY <1>6, <2>5 DEF a, h, c, k
  <1>7. CASE ~Increasing(p, side)
    <2>1. g = p.realized + z * (p.avg - price)
      BY <1>0, <1>7 DEF Increasing, Signed, Sides
    <2>2. g \in Int
      BY <1>0, <1>2, <2>1
    <2> HIDE DEF g
    <2>3. PICK x : x = ApplyFill(p, side, q, price) /\ x = [more EXCEPT !.realized = g]
      BY <1>5, <1>7
    <2>4. /\ x \in Rows /\ x.qty = h /\ x.n = k /\ x.cash = c /\ x.avg = p.avg
          /\ x.realized = g
      BY <1>4, <2>2, <2>3 DEF Rows
    <2>5. f = UpdateMarketPrice(x, mark)
      BY <2>3
    <2>6. /\ f \in Rows /\ f.qty = h /\ f.n = k /\ f.cash = c /\ f.avg = p.avg
          /\ f.realized = g /\ f.mark = mark /\ f.unrealized = (mark - f.avg) * f.qty
      BY <2>4, <2>5, PriceEffects
    <2> QED BY <1>7, <2>1, <2>6 DEF h, c, k
  <1> QED BY <1>6, <1>7

\* What a fill adds to the error of the average: nothing when it reduces the
\* position, and half a unit for each share held after it otherwise.
LEMMA FillError ==
  ASSUME NEW p \in Rows, NEW side \in Sides, NEW q \in Nat \ {0}, NEW price \in Int,
         NEW mark \in Int, NEW f, f = UpdateMarketPrice(ApplyFill(p, side, q, price), mark)
  PROVE  /\ Drift(f) \in Int
         /\ Increasing(p, side) =>
              /\ Abs(f.qty) = Abs(p.qty) + q
              /\ 2 * Abs(Drift(f)) <= 2 * Abs(Drift(p)) + Abs(f.qty)
         /\ ~Increasing(p, side) =>
              /\ Abs(f.qty) <= Abs(p.qty) + q
              /\ Drift(f) = Drift(p)
  <1> DEFINE e == Drift(f)
             z == Signed(side, q)
             m == Abs(p.qty)
             x == p.avg * m + price * q
             d == m + q
             r == Rounded(x, d)
  <1>1. /\ p.qty \in Int /\ p.avg \in Int /\ p.realized \in Int /\ p.cash \in Int
        /\ z \in {q, -q} /\ z \in Int /\ m \in Nat /\ m \in {p.qty, -p.qty}
        /\ x \in Int /\ d \in Int /\ d > 0
    BY DEF Rows, Signed, Sides, Abs
  <1>2. /\ f \in Rows /\ f.qty = p.qty + z /\ f.cash = p.cash - z * price
        /\ Increasing(p, side) => f.realized = p.realized /\ f.avg = r
        /\ ~Increasing(p, side) => f.avg = p.avg /\ f.realized = p.realized + z * (p.avg - price)
    BY FillEffects
  <1>3. r \in Int /\ 2 * (d * r - x) <= d /\ 2 * (x - d * r) <= d
    BY <1>1, RoundedClose
  <1>4. f.qty \in Int /\ f.avg \in Int /\ f.realized \in Int /\ f.cash \in Int
    BY <1>1, <1>2 DEF Rows
  <1>5. e \in Int /\ Drift(p) \in Int
    BY <1>1, <1>4 DEF Drift
  <1>6. CASE Increasing(p, side)
    <2>1. PICK s \in {1, -1} : p.qty = s * m /\ z = s * q
      BY <1>1, <1>6 DEF Increasing, Signed, Sides, Abs, Rows
    <2>2. f.qty = s * d /\ Abs(f.qty) = d
      <3>1. f.qty = s * m + s * q /\ m \in Nat /\ q \in Nat /\ d = m + q
        BY <1>1, <1>2, <2>1
      <3> HIDE DEF m, d
      <3> QED BY <3>1 DEF Abs
    <2>3. e = Drift(p) + s * (x - d * r)
      <3>1. e = p.realized - r * (s * d) - (p.cash - (s * q) * price)
        BY <1>2, <1>6, <2>1, <2>2 DEF Drift
      <3>2. Drift(p) = p.realized - p.avg * (s * m) - p.cash
        BY <2>1 DEF Drift
      <3>3. d * r \in Int /\ p.avg * m \in Int /\ price * q \in Int /\ q \in Int
        BY <1>1, <1>3
      <3> HIDE DEF e, z, d, r
      <3>4. CASE s = 1
        <4>1. r * (s * d) = d * r /\ p.avg * (s * m) = p.avg * m /\ (s * q) * price = price * q
          BY <1>1, <1>3, <3>4
        <4> QED BY <1>1, <1>3, <3>1, <3>2, <3>3, <3>4, <4>1
      <3>5. CASE s = -1
        <4>1. /\ r * (s * d) = -(d * r) /\ p.avg * (s * m) = -(p.avg * m)
              /\ (s * q) * price = -(price * q)
          BY <1>1, <1>3, <3>5
        <4> QED BY <1>1, <1>3, <3>1, <3>2, <3>3, <3>5, <4>1
      <3> QED BY <3>4, <3>5
    <2>4. 2 * Abs(e) <= 2 * Abs(Drift(p)) + d
      <3>1. d * r \in Int
        BY <1>1, <1>3
      <3>2. x - d * r \in Int /\ s * (x - d * r) \in {x - d * r, d * r - x}
        BY <1>1, <2>1, <3>1
      <3> HIDE DEF e, x, d, r
      <3> QED BY <1>1, <1>3, <1>5, <2>3, <3>1, <3>2 DEF Abs
    <2> QED BY <1>5, <1>6, <2>2, <2>4
  <1>7. CASE ~Increasing(p, side)
    <2>1. Abs(f.qty) <= Abs(p.qty) + q
      BY <1>1, <1>2 DEF Abs
    <2>2. e = Drift(p)
      BY <1>1, <1>2, <1>7 DEF Drift
    <2> QED BY <1>5, <1>7, <2>1, <2>2
  <1> QED BY <1>6, <1>7

\* The bound on the error after one more fill.
LEMMA ErrorBound ==
  ASSUME NEW n \in Nat, NEW most \in Nat, NEW e \in Nat, NEW f \in Nat, NEW h \in Nat,
         2 * e <= n * n * most, h <= (n + 1) * most, 2 * f <= 2 * e + h
  PROVE  2 * f <= (n + 1) * (n + 1) * most
  <1>1. (n + 1) * (n + 1) * most = n * n * most + n * most + (n + 1) * most
    OBVIOUS
  <1>2. n * most \in Nat /\ n * n * most \in Nat /\ (n + 1) * most \in Nat
    OBVIOUS
  <1> QED BY <1>1, <1>2

\* A row stays as exact as its fills allow when a fill is added.
LEMMA FillExact ==
  ASSUME NEW p \in Rows, NEW side \in Sides, NEW q \in Nat \ {0}, NEW price \in Int,
         NEW mark \in Int, NEW f, f = UpdateMarketPrice(ApplyFill(p, side, q, price), mark),
         NEW most \in Nat, q <= most, Exact(p, most)
  PROVE  Exact(f, most)
  <1>1. /\ f \in Rows /\ f.n = p.n + 1 /\ f.mark = mark
        /\ f.unrealized = (mark - f.avg) * f.qty
    BY FillEffects
  <1>2. /\ Drift(f) \in Int
        /\ Increasing(p, side) =>
             /\ Abs(f.qty) = Abs(p.qty) + q
             /\ 2 * Abs(Drift(f)) <= 2 * Abs(Drift(p)) + Abs(f.qty)
        /\ ~Increasing(p, side) => Abs(f.qty) <= Abs(p.qty) + q /\ Drift(f) = Drift(p)
    BY FillError
  <1> DEFINE h == Abs(f.qty)
             e == Abs(Drift(p))
             d == Abs(Drift(f))
  <1>3. h \in Nat /\ e \in Nat /\ d \in Nat /\ Abs(p.qty) \in Nat /\ p.n \in Nat
    <2>1. f.qty \in Int /\ p.qty \in Int /\ Drift(p) \in Int /\ p.n \in Nat
      BY <1>1 DEF Rows, Drift
    <2> QED BY <1>2, <2>1, Signs
  <1>4. h <= Abs(p.qty) + q /\ 2 * d <= 2 * e + h
    BY <1>2, <1>3
  <1>5. Abs(p.qty) <= p.n * most /\ 2 * e <= p.n * p.n * most
    BY DEF Exact
  <1> HIDE DEF h, e, d
  <1>6. h <= (p.n + 1) * most
    <2>1. (p.n + 1) * most = p.n * most + most /\ p.n * most \in Nat
      BY <1>3
    <2> QED BY <1>3, <1>4, <1>5, <2>1
  <1>7. 2 * d <= (p.n + 1) * (p.n + 1) * most
    BY <1>3, <1>4, <1>5, <1>6, ErrorBound
  <1> QED BY <1>1, <1>6, <1>7 DEF Exact, h, d

\* Nothing to write is a row without fills.
LEMMA IdleCollector ==
  /\ NoRow \in Rows /\ NoRow.n = 0 /\ NoRow.qty = 0 /\ NoRow.cash = 0
  /\ Idle \in Collector /\ Idle.at = "idle" /\ Idle.copy = NoRow
  /\ \A most \in Nat : Exact(NoRow, most)
  <1>1. /\ NoRow \in Rows /\ NoRow.n = 0 /\ NoRow.qty = 0 /\ NoRow.cash = 0 /\ NoRow.avg = 0
        /\ NoRow.mark = 0 /\ NoRow.realized = 0 /\ NoRow.unrealized = 0
    BY DEF NoRow, Rows
  <1>2. Idle \in Collector /\ Idle.at = "idle" /\ Idle.copy = NoRow
    BY <1>1 DEF Idle, Collector, Sides
  <1>3. \A most \in Nat : Exact(NoRow, most)
    BY <1>1 DEF Exact, Drift, Abs
  <1> QED BY <1>1, <1>2, <1>3

-----------------------------------------------------------------------------
\* Lemmas about the log and the portfolio

\* The constants are numbers.
LEMMA Numbers ==
  /\ \A q \in Quantities : q \in Nat \ {0}
  /\ \A price \in Prices : price \in Nat \ {0}
  BY PositionsAssumption

\* What is published comes to the end of the log.
LEMMA PublishEffects ==
  ASSUME log \in Seq(FillEvent), NEW event \in FillEvent, Publish(event)
  PROVE  /\ log' \in Seq(FillEvent)
         /\ \E copies \in 0 .. 2 :
              /\ ~Whole(event.n - 1) => copies = 1
              /\ Len(log') = Len(log) + copies
              /\ \A k \in 1 .. Len(log) : log'[k] = log[k]
              /\ \A k \in Len(log) + 1 .. Len(log') : log'[k] = event
  <1>1. PICK copies \in 0 .. 2 : /\ ~Whole(event.n - 1) => copies = 1
                                 /\ log' = log \o [k \in 1 .. copies |-> event]
    <2>1. CASE "Publish" \in Faults /\ Whole(event.n - 1)
      BY <2>1 DEF Publish
    <2>2. CASE ~("Publish" \in Faults /\ Whole(event.n - 1))
      <3>1. log' = log \o [k \in 1 .. 1 |-> event]
        BY <2>2 DEF Publish
      <3> QED BY <3>1
    <2> QED BY <2>1, <2>2
  <1> DEFINE s == [k \in 1 .. copies |-> event]
  <1>2. s \in Seq(FillEvent) /\ Len(s) = copies
    OBVIOUS
  <1>4. log' = log \o s
    BY <1>1
  <1> HIDE DEF s
  <1>5. log' \in Seq(FillEvent) /\ Len(log') = Len(log) + copies
    BY <1>2, <1>4
  <1>6. \A k \in 1 .. Len(log) : log'[k] = log[k]
    BY <1>2, <1>4
  <1>7. \A k \in Len(log) + 1 .. Len(log') : log'[k] = event
    <2> TAKE c \in Len(log) + 1 .. Len(log')
    <2>1. Len(log) \in Nat /\ Len(s) = copies /\ s \in Seq(FillEvent)
      BY <1>2
    <2>2. c \in 1 .. Len(log) + Len(s) /\ ~(c <= Len(log)) /\ c - Len(log) \in 1 .. copies
      BY <1>5, <2>1
    <2>3. (log \o s)[c] = s[c - Len(log)]
      BY <2>1, <2>2, ConcatProperties
    <2>4. \A k \in 1 .. copies : s[k] = event
      BY DEF s
    <2> QED BY <1>4, <2>2, <2>3, <2>4
  <1> QED BY <1>1, <1>5, <1>6, <1>7

\* What is booked changes money only.
LEMMA BookedEffects ==
  ASSUME NEW e \in Portfolio, NEW side \in Sides, NEW cost \in Int
  PROVE  LET b == Booked(e, side, cost) IN
         /\ b \in Portfolio
         /\ b.next = e.next /\ b.connects = e.connects /\ b.qty = e.qty
         /\ b.available = IF side = "buy" THEN e.available - cost ELSE e.available + cost
  <1>1. Cycle \in {"T0", "T2"} /\ side \in {"buy", "sell"} /\ cost \in Int
    BY PositionsAssumption DEF Sides
  <1>2. /\ e.next \in Nat \ {0} /\ e.connects \in Nat /\ e.qty \in Int /\ e.cash \in Int
        /\ e.available \in Int /\ e.unsettled \in Int
    BY DEF Portfolio
  <1>3. PICK cash \in Int, available \in Int, unsettled \in Int :
          /\ available = IF side = "buy" THEN e.available - cost ELSE e.available + cost
          /\ Booked(e, side, cost) = [next |-> e.next, connects |-> e.connects, qty |-> e.qty,
                cash |-> cash, available |-> available, unsettled |-> unsettled]
    <2>1. CASE side = "buy" /\ Cycle = "T0"
      <3>1. Booked(e, side, cost) = [next |-> e.next, connects |-> e.connects, qty |-> e.qty,
              cash |-> e.cash - cost, available |-> e.available - cost,
              unsettled |-> e.unsettled]
        BY <2>1 DEF Booked, Portfolio
      <3> QED BY <1>1, <1>2, <2>1, <3>1
    <2>2. CASE side = "sell" /\ Cycle = "T0"
      <3>1. Booked(e, side, cost) = [next |-> e.next, connects |-> e.connects, qty |-> e.qty,
              cash |-> e.cash + cost, available |-> e.available + cost,
              unsettled |-> e.unsettled]
        BY <2>2 DEF Booked, Portfolio
      <3> QED BY <1>1, <1>2, <2>2, <3>1
    <2>3. CASE side = "buy" /\ Cycle = "T2"
      <3>1. Booked(e, side, cost) = [next |-> e.next, connects |-> e.connects, qty |-> e.qty,
              cash |-> e.cash, available |-> e.available - cost,
              unsettled |-> e.unsettled + cost]
        BY <2>3 DEF Booked, Portfolio
      <3> QED BY <1>1, <1>2, <2>3, <3>1
    <2>4. CASE side = "sell" /\ Cycle = "T2"
      <3>1. Booked(e, side, cost) = [next |-> e.next, connects |-> e.connects, qty |-> e.qty,
              cash |-> e.cash + cost, available |-> e.available + cost,
              unsettled |-> e.unsettled - cost]
        BY <2>4 DEF Booked, Portfolio
      <3> QED BY <1>1, <1>2, <2>4, <3>1
    <2> QED BY <1>1, <2>1, <2>2, <2>3, <2>4
  <1> QED BY <1>2, <1>3 DEF Portfolio

\* The engine starts with nothing, or with the row; then the log is read again
\* over it.
LEMMA StartEffects ==
  ASSUME TypeOK, StartEngine
  PROVE  /\ UNCHANGED <<req, row, collector, pricer, fills, lost, log, raced>>
         /\ engine' \in Portfolio /\ engine'.next = 1
         /\ disturbed' = {} => engine'.qty = 0 /\ engine'.available = 0
  <1> DEFINE fresh == [next |-> 1, connects |-> engine.connects + 1,
                       qty |-> 0, cash |-> 0, available |-> 0, unsettled |-> 0]
             full  == [fresh EXCEPT !.qty = row.qty]
  <1>1. engine.connects + 1 \in Nat /\ row.qty \in Int /\ row.avg \in Int
    <2>1. engine \in Portfolio /\ row \in Rows
      BY DEF TypeOK
    <2>2. engine.connects \in Nat
      BY <2>1 DEF Portfolio
    <2>3. row.qty \in Int /\ row.avg \in Int
      BY <2>1 DEF Rows
    <2> QED BY <2>2, <2>3
  <1>2. fresh \in Portfolio /\ full \in Portfolio /\ fresh.next = 1 /\ full.next = 1
        /\ fresh.qty = 0 /\ fresh.available = 0
    BY <1>1 DEF Portfolio
  <1>3. row.qty * row.avg \in Int /\ "buy" \in Sides
    BY <1>1 DEF Sides
  <1>4. PICK loads \in {row.qty > 0, FALSE} :
          /\ engine' = IF loads THEN Booked(full, "buy", row.qty * row.avg) ELSE fresh
          /\ disturbed' = IF loads THEN {"loaded"} ELSE {}
    BY DEF StartEngine
  <1>5. UNCHANGED <<req, row, collector, pricer, fills, lost, log, raced>>
    BY DEF StartEngine, gateway
  <1> HIDE DEF fresh, full
  <1>6. CASE loads
    <2>1. Booked(full, "buy", row.qty * row.avg) \in Portfolio
          /\ Booked(full, "buy", row.qty * row.avg).next = 1
      BY <1>2, <1>3, BookedEffects
    <2>2. engine' = Booked(full, "buy", row.qty * row.avg)
      BY <1>4, <1>6
    <2>3. disturbed' # {}
      BY <1>4, <1>6
    <2> QED BY <1>5, <2>1, <2>2, <2>3
  <1>7. CASE ~loads
    <2>1. engine' = fresh
      BY <1>4, <1>7
    <2> QED BY <1>2, <1>5, <2>1
  <1> QED BY <1>6, <1>7

\* The consumer adds the next event to the portfolio, or passes it over.
LEMMA ConsumeEffects ==
  ASSUME TypeOK, Consume
  PROVE  LET event == log[engine.next] IN
         /\ UNCHANGED <<req, row, collector, pricer, fills, lost, log, raced>>
         /\ engine.next \in 1 .. Len(log) /\ event \in FillEvent /\ engine.connects > 0
         /\ engine' \in Portfolio
         /\ engine'.next = engine.next + 1
         /\ disturbed' = {} =>
              /\ disturbed = {}
              /\ engine'.qty = engine.qty + Signed(event.side, event.qty)
              /\ engine'.available = engine.available - Signed(event.side, event.qty) * event.price
  <1> DEFINE event == log[engine.next]
             cost  == event.qty * event.price
             ahead == [engine EXCEPT !.next = engine.next + 1]
             moved == [ahead EXCEPT !.qty = engine.qty + Signed(event.side, event.qty)]
  <1>1. engine \in Portfolio /\ log \in Seq(FillEvent)
    BY DEF TypeOK
  <1>2. engine.next \in 1 .. Len(log) /\ engine.connects > 0
    <2>1. engine.next \in Nat \ {0} /\ Len(log) \in Nat
      BY <1>1 DEF Portfolio
    <2>2. engine.next <= Len(log) /\ engine.connects > 0
      BY DEF Consume
    <2> QED BY <2>1, <2>2
  <1>3. event \in FillEvent
    BY <1>1, <1>2
  <1>4. /\ event.side \in Sides /\ event.qty \in Nat /\ event.price \in Nat
        /\ Signed(event.side, event.qty) \in Int /\ cost \in Int
    <2>1. event.side \in Sides /\ event.qty \in Nat /\ event.price \in Nat
      BY <1>3, Numbers DEF FillEvent
    <2> HIDE DEF event
    <2> QED BY <2>1 DEF Signed
  <1>5. /\ engine' = IF CanApply(event) THEN Booked(moved, event.side, cost) ELSE ahead
        /\ disturbed' = IF CanApply(event) THEN disturbed ELSE disturbed \cup {"passed over"}
        /\ UNCHANGED <<req, row, collector, pricer, fills, lost, log, raced>>
    BY <1>1 DEF Consume, Portfolio, gateway
  <1> HIDE DEF event
  <1>6. /\ ahead \in Portfolio /\ ahead.next = engine.next + 1
        /\ moved \in Portfolio /\ moved.next = engine.next + 1
        /\ moved.qty = engine.qty + Signed(event.side, event.qty)
        /\ moved.available = engine.available
    <2>1. /\ ahead \in Portfolio /\ ahead.next = engine.next + 1
          /\ ahead.available = engine.available
      BY <1>1 DEF Portfolio
    <2> HIDE DEF ahead
    <2>2. Signed(event.side, event.qty) \in Int /\ engine.qty \in Int
      BY <1>1, <1>4 DEF Portfolio
    <2>3. engine.qty + Signed(event.side, event.qty) \in Int
      BY <2>2
    <2> QED BY <2>1, <2>3 DEF Portfolio
  <1> HIDE DEF ahead, moved
  <1>7. CASE CanApply(event)
    <2>1. engine' = Booked(moved, event.side, cost)
      BY <1>5, <1>7
    <2> HIDE DEF cost
    <2>2. /\ engine' \in Portfolio /\ engine'.next = engine.next + 1
          /\ engine'.qty = engine.qty + Signed(event.side, event.qty)
          /\ engine'.available = IF event.side = "buy" THEN engine.available - cost
                                 ELSE engine.available + cost
      <3>1. /\ Booked(moved, event.side, cost) \in Portfolio
            /\ Booked(moved, event.side, cost).next = moved.next
            /\ Booked(moved, event.side, cost).qty = moved.qty
            /\ Booked(moved, event.side, cost).available =
                 IF event.side = "buy" THEN moved.available - cost ELSE moved.available + cost
        BY <1>4, <1>6, BookedEffects
      <3> QED BY <1>6, <2>1, <3>1
    <2>3. Signed(event.side, event.qty) * event.price =
            IF event.side = "buy" THEN cost ELSE -cost
      BY <1>4 DEF Signed, Sides, cost
    <2>4. engine'.available = engine.available - Signed(event.side, event.qty) * event.price
      <3>1. engine.available \in Int
        BY <1>1 DEF Portfolio
      <3> QED BY <1>4, <2>2, <2>3, <3>1
    <2> QED BY <1>1, <1>2, <1>3, <1>5, <2>2, <2>4 DEF event
  <1>8. CASE ~CanApply(event)
    BY <1>1, <1>2, <1>3, <1>5, <1>6, <1>8 DEF event
  <1> QED BY <1>7, <1>8

\* A new connection reads the log from the beginning again.
LEMMA ReconnectEffects ==
  ASSUME TypeOK, Reconnect
  PROVE  /\ UNCHANGED <<req, row, collector, pricer, fills, lost, log, raced>>
         /\ engine' \in Portfolio /\ engine.connects > 0
         /\ engine'.next = 1 /\ engine'.qty = engine.qty
         /\ engine'.available = engine.available
         /\ disturbed' = {} => disturbed = {} /\ engine.next = 1
  <1> DEFINE c == engine.connects + 1
  <1>1. /\ engine \in Portfolio /\ c \in Nat /\ 1 \in Nat \ {0}
        /\ engine.connects \in Nat /\ engine.next \in Nat \ {0}
    BY DEF TypeOK, Portfolio
  <1>2. engine.connects > 0
    <2>1. engine.connects \in 1 .. MaxConnects - 1
      BY DEF Reconnect
    <2> QED BY <2>1, PositionsAssumption
  <1>3. engine' = [engine EXCEPT !.next = 1, !.connects = c]
    BY <1>1 DEF Reconnect
  <1> HIDE DEF c
  <1>4. engine' = [next |-> 1, connects |-> c, qty |-> engine.qty, cash |-> engine.cash,
                   available |-> engine.available, unsettled |-> engine.unsettled]
    BY <1>1, <1>3 DEF Portfolio
  <1>5. /\ engine' \in Portfolio /\ engine'.next = 1 /\ engine'.qty = engine.qty
        /\ engine'.available = engine.available
    BY <1>1, <1>4 DEF Portfolio
  <1>6. disturbed' = {} => disturbed = {} /\ engine.next = 1
    <2>1. disturbed' = IF engine.next > 1 THEN disturbed \cup {"read again"} ELSE disturbed
      BY DEF Reconnect
    <2>2. ~(engine.next > 1) => engine.next = 1
      BY <1>1
    <2> QED BY <2>1, <2>2
  <1> QED BY <1>2, <1>5, <1>6 DEF Reconnect, gateway

\* What the collector starts from: the row, or one without fills.
Start(p) == p = row \/ (p.n = 0 /\ p.qty = 0 /\ p.cash = 0 /\ \A most \in Nat : Exact(p, most))

\* The row f has what p has, and one fill of q, by z in the quantity held.
Adds(f, p, z, q, price) ==
  /\ f.n = p.n + 1 /\ f.qty = p.qty + z /\ f.cash = p.cash - z * price
  /\ \A most \in Nat : q <= most /\ Exact(p, most) => Exact(f, most)

\* The collector takes a fill from its order, and makes a row of what it read,
\* or of nothing.
LEMMA ReadRowEffects ==
  ASSUME TypeOK, NEW r \in Requests, NEW q \in Quantities, NEW price \in Prices,
         ReadRow(r, q, price)
  PROVE  /\ UNCHANGED <<row, pricer, fills, lost, log, engine, raced, disturbed>>
         /\ q \in Nat \ {0} /\ price \in Nat \ {0}
         /\ req[r].at = "open" /\ q <= req[r].left /\ collector.at = "idle"
         /\ req' \in [Requests -> OrderRequest]
         /\ req'[r] = [at |-> "booking", side |-> req[r].side, left |-> req[r].left - q]
         /\ \A s \in Requests : s # r => req'[s] = req[s]
         /\ collector' \in Collector /\ collector'.at = "read"
         /\ collector'.side = req[r].side /\ collector'.qty = q /\ collector'.price = price
         /\ \E p \in Rows : Start(p) /\ Adds(collector'.copy, p, Signed(req[r].side, q), q, price)
  <1>1. /\ req \in [Requests -> OrderRequest] /\ row \in Rows /\ req[r].side \in Sides
        /\ req[r].left \in Nat
    BY DEF TypeOK, OrderRequest
  <1>2. q \in Nat \ {0} /\ price \in Nat \ {0}
    BY Numbers
  <1>3. /\ req[r].at = "open" /\ q <= req[r].left /\ collector.at = "idle"
        /\ UNCHANGED <<row, pricer, fills, lost, log, engine, raced, disturbed>>
    BY DEF ReadRow, TakeFill
  <1> DEFINE o == [at |-> "booking", side |-> req[r].side, left |-> req[r].left - q]
  <1>4. /\ req' \in [Requests -> OrderRequest] /\ req'[r] = o
        /\ \A s \in Requests : s # r => req'[s] = req[s]
    <2>1. o \in OrderRequest
      BY <1>1, <1>2, <1>3 DEF OrderRequest
    <2>2. req' = [req EXCEPT ![r] = o]
      BY <1>1 DEF ReadRow
    <2> HIDE DEF o
    <2> QED BY <1>1, <2>1, <2>2
  <1> DEFINE fresh == [NoRow EXCEPT !.mark = price]
  <1>5. PICK read \in {row, fresh} :
          collector' = [at |-> "read", side |-> req[r].side, qty |-> q, price |-> price,
             copy |-> UpdateMarketPrice(ApplyFill(read, req[r].side, q, price), read.mark)]
    BY DEF ReadRow
  <1>6. /\ fresh \in Rows /\ fresh.n = 0 /\ fresh.qty = 0 /\ fresh.cash = 0
        /\ \A most \in Nat : Exact(fresh, most)
    <2>1. fresh = [qty |-> 0, avg |-> 0, realized |-> 0, mark |-> price, unrealized |-> 0,
                   n |-> 0, cash |-> 0]
      BY DEF NoRow
    <2>2. /\ fresh.n = 0 /\ fresh.qty = 0 /\ fresh.cash = 0 /\ fresh.avg = 0 /\ fresh.mark = price
          /\ fresh.realized = 0 /\ fresh.unrealized = 0 /\ fresh \in Rows
      BY <1>2, <2>1 DEF Rows
    <2> HIDE DEF fresh
    <2>3. \A most \in Nat : Exact(fresh, most)
      BY <1>2, <2>2 DEF Exact, Drift, Abs
    <2> QED BY <2>2, <2>3
  <1> HIDE DEF fresh
  <1>7. read \in Rows /\ read.mark \in Int
    BY <1>1, <1>5, <1>6 DEF Rows
  <1> DEFINE copy == UpdateMarketPrice(ApplyFill(read, req[r].side, q, price), read.mark)
  <1>8. copy \in Rows
    BY <1>1, <1>2, <1>7, FillEffects
  <1>9. /\ collector'.at = "read" /\ collector'.side = req[r].side /\ collector'.qty = q
        /\ collector'.price = price /\ collector'.copy = copy
    BY <1>5
  <1>10. collector' \in Collector
    <2> HIDE DEF copy
    <2>1. collector' = [at |-> "read", side |-> req[r].side, qty |-> q, price |-> price,
                        copy |-> copy]
      BY <1>5 DEF copy
    <2> QED BY <1>1, <1>2, <1>8, <2>1 DEF Collector
  <1>11. Start(read)
    BY <1>5, <1>6 DEF Start
  <1>12. Adds(collector'.copy, read, Signed(req[r].side, q), q, price)
    <2>1. req[r].side \in Sides /\ q \in Nat \ {0} /\ price \in Int /\ read.mark \in Int
      BY <1>1, <1>2, <1>7
    <2> PICK f : f = copy
      OBVIOUS
    <2> HIDE DEF copy
    <2>2. f = UpdateMarketPrice(ApplyFill(read, req[r].side, q, price), read.mark)
      BY DEF copy
    <2>3. /\ f.n = read.n + 1 /\ f.qty = read.qty + Signed(req[r].side, q)
          /\ f.cash = read.cash - Signed(req[r].side, q) * price
      BY <1>7, <2>1, <2>2, FillEffects
    <2>4. \A most \in Nat : q <= most /\ Exact(read, most) => Exact(f, most)
      BY <1>7, <2>1, <2>2, FillExact
    <2>5. collector'.copy = f
      BY <1>9
    <2> QED BY <2>3, <2>4, <2>5 DEF Adds
  <1> QED BY <1>2, <1>3, <1>4, <1>7, <1>9, <1>10, <1>11, <1>12

\* The collector replaces the row, or drops the fill.
LEMMA WriteFillEffects ==
  ASSUME TypeOK, NEW r \in Requests, WriteFill(r)
  PROVE  /\ UNCHANGED <<pricer, log, engine, raced, disturbed>>
         /\ collector.at = "read" /\ req[r].at = "booking"
         /\ req' \in [Requests -> OrderRequest]
         /\ req'[r].at \in {"open", "done"} /\ req'[r].side = req[r].side
         /\ req'[r].left = req[r].left
         /\ \A s \in Requests : s # r => req'[s] = req[s]
         /\ collector' \in Collector
         /\ \/ /\ row' = collector.copy /\ fills' = fills + 1
               /\ lost' = IF collector.copy.n < row.n + 1 THEN lost \cup {"overwritten"} ELSE lost
               /\ collector'.at = "written" /\ collector'.copy = collector.copy
               /\ collector'.side = collector.side /\ collector'.qty = collector.qty
               /\ collector'.price = collector.price
            \/ /\ UNCHANGED <<row, fills>> /\ lost' = lost \cup {"dropped"}
               /\ collector' = Idle
  <1>1. req \in [Requests -> OrderRequest] /\ collector \in Collector
    BY DEF TypeOK
  <1>2. /\ collector.at = "read" /\ req[r].at = "booking"
        /\ UNCHANGED <<pricer, log, engine, raced, disturbed>>
    BY DEF WriteFill
  <1>3. /\ req' \in [Requests -> OrderRequest]
        /\ req'[r].at \in {"open", "done"} /\ req'[r].side = req[r].side
        /\ req'[r].left = req[r].left
        /\ \A s \in Requests : s # r => req'[s] = req[s]
    <2> DEFINE a == IF req[r].left = 0 THEN "done" ELSE "open"
    <2>1. a \in {"open", "done"}
      OBVIOUS
    <2>2. req' = [req EXCEPT ![r].at = a]
      BY DEF WriteFill, Resume
    <2> HIDE DEF a
    <2> QED BY <1>1, <2>1, <2>2 DEF OrderRequest
  <1>4. CASE Write(collector.copy, row.n + 1) /\ fills' = fills + 1
             /\ collector' = [collector EXCEPT !.at = "written"]
    <2>1. /\ collector' \in Collector /\ collector'.at = "written"
          /\ collector'.copy = collector.copy
          /\ collector'.side = collector.side /\ collector'.qty = collector.qty
          /\ collector'.price = collector.price
      BY <1>1, <1>4 DEF Collector
    <2> QED BY <1>2, <1>3, <1>4, <2>1 DEF Write
  <1>5. CASE UNCHANGED <<row, fills>> /\ lost' = lost \cup {"dropped"} /\ collector' = Idle
    BY <1>2, <1>3, <1>5, IdleCollector
  <1> QED BY <1>4, <1>5 DEF WriteFill

\* A fill is dropped before the row is read.
LEMMA DropFillEffects ==
  ASSUME TypeOK, NEW r \in Requests, NEW q \in Quantities, DropFill(r, q)
  PROVE  /\ UNCHANGED <<row, collector, pricer, fills, log, engine, raced, disturbed>>
         /\ lost' = lost \cup {"dropped"}
         /\ req[r].at = "open" /\ collector.at = "idle"
         /\ req' \in [Requests -> OrderRequest] /\ req'[r].at \in {"open", "done"}
         /\ \A s \in Requests : s # r => req'[s] = req[s]
  <1>1. req \in [Requests -> OrderRequest] /\ req[r].left \in Nat /\ req[r].side \in Sides
    BY DEF TypeOK, OrderRequest
  <1>2. q \in Nat \ {0} /\ q <= req[r].left
    BY Numbers DEF DropFill, TakeFill
  <1> DEFINE o == [at |-> IF q = req[r].left THEN "done" ELSE "open",
                   side |-> req[r].side, left |-> req[r].left - q]
  <1>3. o \in OrderRequest /\ o.at \in {"open", "done"}
    BY <1>1, <1>2 DEF OrderRequest
  <1>4. req' = [req EXCEPT ![r] = o]
    BY <1>1 DEF DropFill
  <1> HIDE DEF o
  <1>5. /\ req' \in [Requests -> OrderRequest] /\ req'[r].at \in {"open", "done"}
        /\ \A s \in Requests : s # r => req'[s] = req[s]
    BY <1>1, <1>3, <1>4
  <1> QED BY <1>5 DEF DropFill, TakeFill

\* The pricer replaces the row, or fails to.
LEMMA WritePriceEffects ==
  ASSUME WritePrice
  PROVE  /\ UNCHANGED <<req, collector, fills, log, engine, raced, disturbed>>
         /\ pricer.n > 0 /\ pricer' = NoRow
         /\ \/ row' = pricer
               /\ lost' = IF pricer.n < row.n THEN lost \cup {"overwritten"} ELSE lost
            \/ UNCHANGED <<row, lost>>
  BY DEF WritePrice, Write

-----------------------------------------------------------------------------
\* The invariant is preserved

\* Every step keeps the types.
LEMMA TypesPreserved ==
  ASSUME TypeOK, Next
  PROVE  TypeOK'
  <1>0. /\ req \in [Requests -> OrderRequest] /\ row \in Rows /\ pricer \in Rows
        /\ collector \in Collector /\ fills \in Nat /\ log \in Seq(FillEvent)
        /\ engine \in Portfolio /\ raced \in BOOLEAN
    BY DEF TypeOK
  <1>1. ASSUME NEW r \in Requests, NEW side \in Sides, NEW q \in Quantities,
               CreateOrder(r, side, q)
        PROVE  TypeOK'
    <2>1. [at |-> "open", side |-> side, left |-> q] \in OrderRequest
      BY Numbers DEF OrderRequest
    <2>2. req' \in [Requests -> OrderRequest] /\ raced' \in BOOLEAN
      BY <1>0, <1>1, <2>1 DEF CreateOrder
    <2> QED BY <1>0, <1>1, <2>2 DEF CreateOrder, TypeOK, gateway
  <1>2. ASSUME NEW r \in Requests, Expire(r)
        PROVE  TypeOK'
    <2>1. req' \in [Requests -> OrderRequest]
      BY <1>0, <1>2 DEF Expire, OrderRequest
    <2> QED BY <1>0, <1>2, <2>1 DEF Expire, TypeOK, gateway
  <1>3. ASSUME NEW r \in Requests, NEW q \in Quantities, DropFill(r, q)
        PROVE  TypeOK'
    BY <1>0, <1>3, DropFillEffects DEF TypeOK
  <1>4. ASSUME NEW r \in Requests, NEW q \in Quantities, NEW price \in Prices,
               ReadRow(r, q, price)
        PROVE  TypeOK'
    <2>1. /\ UNCHANGED <<row, pricer, fills, lost, log, engine, raced, disturbed>>
          /\ req' \in [Requests -> OrderRequest] /\ collector' \in Collector
      BY <1>4, ReadRowEffects
    <2> QED BY <1>0, <2>1 DEF TypeOK
  <1>5. ASSUME NEW r \in Requests, WriteFill(r)
        PROVE  TypeOK'
    <2>1. /\ UNCHANGED <<pricer, log, engine, raced, disturbed>>
          /\ req' \in [Requests -> OrderRequest] /\ collector' \in Collector
          /\ \/ row' = collector.copy /\ fills' = fills + 1
             \/ UNCHANGED <<row, fills>>
      BY <1>5, WriteFillEffects
    <2>2. collector.copy \in Rows
      BY <1>0 DEF Collector
    <2>3. row' \in Rows /\ fills' \in Nat
      BY <1>0, <2>1, <2>2
    <2> QED BY <1>0, <2>1, <2>3 DEF TypeOK
  <1>6. CASE AnnounceFill
    <2> DEFINE event == [n |-> fills, side |-> collector.side, qty |-> collector.qty,
                         price |-> collector.price]
    <2>1. event \in FillEvent /\ Publish(event)
      BY <1>0, <1>6 DEF AnnounceFill, FillEvent, Collector
    <2>2. log' \in Seq(FillEvent)
      BY <1>0, <2>1, PublishEffects
    <2>3. UNCHANGED <<req, row, pricer, fills, engine, raced>> /\ collector' \in Collector
      BY <1>6, IdleCollector DEF AnnounceFill
    <2> QED BY <1>0, <2>2, <2>3 DEF TypeOK
  <1>7. ASSUME NEW price \in Prices, ReadPrice(price)
        PROVE  TypeOK'
    <2>1. /\ pricer' = UpdateMarketPrice(row, price) /\ price \in Int
          /\ UNCHANGED <<req, row, collector, fills, log, engine, raced>>
      BY <1>7, Numbers DEF ReadPrice
    <2>2. pricer' \in Rows
      BY <1>0, <2>1, PriceEffects
    <2> QED BY <1>0, <2>1, <2>2 DEF TypeOK
  <1>8. CASE WritePrice
    <2>1. /\ UNCHANGED <<req, collector, fills, log, engine, raced>> /\ pricer' = NoRow
          /\ row' \in {row, pricer}
      BY <1>8, WritePriceEffects
    <2> QED BY <1>0, <2>1, IdleCollector DEF TypeOK
  <1>9. CASE StartEngine
    BY <1>0, <1>9, StartEffects DEF TypeOK
  <1>10. CASE Reconnect
    BY <1>0, <1>10, ReconnectEffects DEF TypeOK
  <1>11. CASE Consume
    BY <1>0, <1>11, ConsumeEffects DEF TypeOK
  <1> QED BY <1>1, <1>2, <1>3, <1>4, <1>5, <1>6, <1>7, <1>8, <1>9, <1>10, <1>11 DEF Next

\* The collector stays with one order at a time.
LEMMA BookingPreserved ==
  ASSUME TypeOK, BookingInv, Next
  PROVE  BookingInv'
  <1>0. /\ req \in [Requests -> OrderRequest] /\ row \in Rows /\ collector \in Collector
        /\ fills \in Nat
    BY DEF TypeOK
  <1>1. ASSUME UNCHANGED <<collector, fills>>,
               \A s \in Requests : req'[s].at = "booking" =>
                  req[s].at = "booking" /\ req'[s].side = req[s].side
        PROVE  BookingInv'
    BY <1>1 DEF BookingInv
  <1>2. ASSUME NEW r \in Requests, NEW side \in Sides, NEW q \in Quantities,
               CreateOrder(r, side, q)
        PROVE  BookingInv'
    <2>1. req' = [req EXCEPT ![r] = [at |-> "open", side |-> side, left |-> q]]
          /\ UNCHANGED <<collector, fills>>
      BY <1>2 DEF CreateOrder, gateway
    <2>2. /\ req'[r] = [at |-> "open", side |-> side, left |-> q]
          /\ \A s \in Requests : s # r => req'[s] = req[s]
      BY <1>0, <2>1
    <2> QED BY <1>1, <2>1, <2>2
  <1>3. ASSUME NEW r \in Requests, Expire(r)
        PROVE  BookingInv'
    <2>1. req' = [req EXCEPT ![r].at = "done"] /\ UNCHANGED <<collector, fills>>
      BY <1>3 DEF Expire, gateway
    <2>2. req'[r].at = "done" /\ \A s \in Requests : s # r => req'[s] = req[s]
      BY <1>0, <2>1 DEF OrderRequest
    <2> QED BY <1>1, <2>1, <2>2
  <1>4. ASSUME NEW r \in Requests, NEW q \in Quantities, DropFill(r, q)
        PROVE  BookingInv'
    <2>1. /\ UNCHANGED <<collector, fills>> /\ req'[r].at \in {"open", "done"}
          /\ \A s \in Requests : s # r => req'[s] = req[s]
      BY <1>4, DropFillEffects
    <2> QED BY <1>1, <2>1
  <1>5. ASSUME NEW r \in Requests, NEW q \in Quantities, NEW price \in Prices,
               ReadRow(r, q, price)
        PROVE  BookingInv'
    <2>1. /\ collector.at = "idle" /\ collector'.at = "read" /\ collector'.side = req[r].side
          /\ req'[r] = [at |-> "booking", side |-> req[r].side, left |-> req[r].left - q]
          /\ \A s \in Requests : s # r => req'[s] = req[s]
      BY <1>5, ReadRowEffects
    <2>2. PICK p \in Rows : Adds(collector'.copy, p, Signed(req[r].side, q), q, price)
      BY <1>5, ReadRowEffects
    <2>3. collector'.copy.n > 0
      BY <2>2 DEF Adds, Rows
    <2>4. \A s \in Requests : req[s].at # "booking"
      BY <2>1 DEF BookingInv
    <2>5. \A s \in Requests : req'[s].at = "booking" => s = r
      BY <2>1, <2>4
    <2>6. req'[r].side = req[r].side
      BY <2>1
    <2> QED BY <2>1, <2>3, <2>5, <2>6 DEF BookingInv
  <1>6. ASSUME NEW r \in Requests, WriteFill(r)
        PROVE  BookingInv'
    <2>1. /\ collector.at = "read" /\ req[r].at = "booking"
          /\ req'[r].at \in {"open", "done"}
          /\ \A s \in Requests : s # r => req'[s] = req[s]
          /\ (collector'.at = "written" /\ fills' = fills + 1) \/ collector' = Idle
      BY <1>6, WriteFillEffects
    <2>2. \A s \in Requests : req'[s].at # "booking"
      BY <2>1 DEF BookingInv
    <2> QED BY <1>0, <2>1, <2>2, IdleCollector DEF BookingInv
  <1>7. CASE AnnounceFill
    <2>1. UNCHANGED req /\ collector.at = "written" /\ collector' = Idle
      BY <1>7 DEF AnnounceFill
    <2> QED BY <2>1, IdleCollector DEF BookingInv
  <1>8. ASSUME UNCHANGED <<req, collector, fills>>
        PROVE  BookingInv'
    BY <1>8 DEF BookingInv
  <1>9. ASSUME NEW price \in Prices, ReadPrice(price)
        PROVE  BookingInv'
    BY <1>8, <1>9 DEF ReadPrice
  <1>10. CASE WritePrice \/ StartEngine \/ Reconnect \/ Consume
    BY <1>8, <1>10 DEF WritePrice, StartEngine, Reconnect, Consume, gateway
  <1> QED BY <1>2, <1>3, <1>4, <1>5, <1>6, <1>7, <1>9, <1>10 DEF Next

\* A row that is written has the fills of the table, or takes some out of it.
LEMMA RowsPreserved ==
  ASSUME TypeOK, BookingInv, RowsInv, Next
  PROVE  RowsInv'
  <1>0. /\ req \in [Requests -> OrderRequest] /\ row \in Rows /\ pricer \in Rows
        /\ collector \in Collector /\ fills \in Nat
        /\ row.n \in Nat /\ row.qty \in Int /\ row.cash \in Int /\ pricer.n \in Nat
        /\ collector.copy.n \in Nat
    BY DEF TypeOK, Rows, Collector
  <1>1. ASSUME UNCHANGED <<row, collector, pricer, fills>>,
               "overwritten" \notin lost' => "overwritten" \notin lost
        PROVE  RowsInv'
    BY <1>1 DEF RowsInv, Change
  <1>2. ASSUME NEW r \in Requests, NEW q \in Quantities, DropFill(r, q)
        PROVE  RowsInv'
    BY <1>1, <1>2, DropFillEffects
  <1>3. ASSUME NEW r \in Requests, NEW q \in Quantities, NEW price \in Prices,
               ReadRow(r, q, price)
        PROVE  RowsInv'
    <2>1. /\ UNCHANGED <<row, pricer, fills, lost>>
          /\ q \in Nat \ {0} /\ price \in Nat \ {0}
          /\ collector'.side = req[r].side /\ collector'.qty = q /\ collector'.price = price
      <3>1. UNCHANGED <<row, pricer, fills, lost>>
        BY <1>3 DEF ReadRow
      <3>2. collector'.side = req[r].side /\ collector'.qty = q /\ collector'.price = price
        BY <1>3 DEF ReadRow
      <3> QED BY <3>1, <3>2, Numbers
    <2>2. PICK p \in Rows : Start(p) /\ Adds(collector'.copy, p, Signed(req[r].side, q), q, price)
      BY <1>3, ReadRowEffects
    <2> DEFINE z == Signed(req[r].side, q)
    <2>3. /\ collector'.copy.n = p.n + 1 /\ collector'.copy.qty = p.qty + z
          /\ collector'.copy.cash = p.cash - z * price
      BY <2>2 DEF Adds
    <2>4. Change' = z
      BY <2>1 DEF Change
    <2>5. p.n \in Nat /\ p.n <= row.n
          /\ (p.n = row.n => p.qty = row.qty /\ p.cash = row.cash)
      BY <1>0, <2>2 DEF Start, Rows, RowsInv
    <2> HIDE DEF z
    <2>6. /\ collector'.copy.n <= row'.n + 1
          /\ collector'.copy.n = row'.n + 1 =>
               /\ collector'.copy.qty = row'.qty + Change'
               /\ collector'.copy.cash = row'.cash - Change' * collector'.price
      BY <1>0, <2>1, <2>3, <2>4, <2>5
    <2> QED BY <2>1, <2>6 DEF RowsInv
  <1>4. ASSUME NEW r \in Requests, WriteFill(r)
        PROVE  RowsInv'
    <2>1. collector.at = "read" /\ UNCHANGED pricer /\ collector.copy.n > 0
      BY <1>4, WriteFillEffects DEF BookingInv
    <2>2. CASE /\ row' = collector.copy /\ fills' = fills + 1
               /\ lost' = IF collector.copy.n < row.n + 1 THEN lost \cup {"overwritten"} ELSE lost
               /\ collector'.at = "written"
      <3>1. ASSUME "overwritten" \notin lost'
            PROVE  row'.n = fills' /\ pricer'.n < row'.n
        <4>1. ~(collector.copy.n < row.n + 1) /\ "overwritten" \notin lost
          BY <2>2, <3>1
        <4>2. row.n = fills /\ pricer.n <= row.n /\ collector.copy.n <= row.n + 1
          BY <2>1, <4>1 DEF RowsInv
        <4> QED BY <1>0, <2>1, <2>2, <4>1, <4>2
      <3>2. row'.n \in Nat /\ pricer'.n \in Nat /\ row'.n # 0
        BY <1>0, <2>1, <2>2
      <3> QED BY <2>2, <3>1, <3>2 DEF RowsInv
    <2>3. CASE UNCHANGED <<row, fills>> /\ lost' = lost \cup {"dropped"} /\ collector' = Idle
      BY <2>1, <2>3, IdleCollector DEF RowsInv
    <2> QED BY <1>4, <2>2, <2>3, WriteFillEffects
  <1>5. CASE AnnounceFill
    <2>1. UNCHANGED <<row, pricer, fills, lost>> /\ collector' = Idle
      BY <1>5 DEF AnnounceFill
    <2> QED BY <2>1, IdleCollector DEF RowsInv
  <1>6. ASSUME NEW price \in Prices, ReadPrice(price)
        PROVE  RowsInv'
    <2>1. /\ pricer' = UpdateMarketPrice(row, price) /\ price \in Int
          /\ UNCHANGED <<row, collector, fills, lost>>
      BY <1>6, Numbers DEF ReadPrice
    <2>2. PICK f : f = pricer'
      OBVIOUS
    <2>3. f.n = row.n /\ f.qty = row.qty /\ f.cash = row.cash
      <3>1. f = UpdateMarketPrice(row, price) /\ row \in Rows /\ price \in Int
        BY <1>0, <2>1, <2>2
      <3> QED BY <3>1, PriceEffects
    <2> QED BY <1>0, <2>1, <2>2, <2>3 DEF RowsInv, Change
  <1>7. CASE WritePrice
    <2>1. UNCHANGED <<collector, fills>> /\ pricer.n > 0 /\ pricer' = NoRow
      BY <1>7, WritePriceEffects
    <2>2. CASE /\ row' = pricer
               /\ lost' = IF pricer.n < row.n THEN lost \cup {"overwritten"} ELSE lost
      <3>1. ASSUME "overwritten" \notin lost'
            PROVE  /\ "overwritten" \notin lost /\ pricer.n = row.n
                   /\ pricer.qty = row.qty /\ pricer.cash = row.cash
        <4>1. ~(pricer.n < row.n) /\ "overwritten" \notin lost
          BY <2>2, <3>1
        <4>2. /\ pricer.n <= row.n
              /\ pricer.n = row.n => pricer.qty = row.qty /\ pricer.cash = row.cash
          BY <4>1 DEF RowsInv
        <4> QED BY <1>0, <4>1, <4>2
      <3>2. row'.n # 0 /\ row'.n \in Nat /\ pricer'.n = 0
        BY <1>0, <2>1, <2>2, IdleCollector
      <3>3. ASSUME "overwritten" \notin lost'
            PROVE  /\ row'.n = row.n /\ row'.qty = row.qty /\ row'.cash = row.cash
                   /\ "overwritten" \notin lost
        BY <2>2, <3>1, <3>3
      <3>4. pricer'.n <= row'.n /\ pricer'.n # row'.n
        BY <3>2
      <3> QED BY <2>1, <3>2, <3>3, <3>4 DEF RowsInv, Change
    <2>3. CASE UNCHANGED <<row, lost>>
      <3>1. pricer'.n = 0 /\ pricer'.qty = 0 /\ pricer'.cash = 0
        BY <2>1, IdleCollector
      <3> QED BY <1>0, <2>1, <2>3, <3>1 DEF RowsInv, Change
    <2> QED BY <1>7, <2>2, <2>3, WritePriceEffects
  <1>8. ASSUME NEW r \in Requests, NEW side \in Sides, NEW q \in Quantities,
               CreateOrder(r, side, q)
        PROVE  RowsInv'
    BY <1>1, <1>8 DEF CreateOrder, gateway
  <1>9. ASSUME NEW r \in Requests, Expire(r)
        PROVE  RowsInv'
    BY <1>1, <1>9 DEF Expire, gateway
  <1>10. CASE StartEngine \/ Reconnect \/ Consume
    BY <1>1, <1>10 DEF StartEngine, Reconnect, Consume, gateway
  <1> QED BY <1>2, <1>3, <1>4, <1>5, <1>6, <1>7, <1>8, <1>9, <1>10 DEF Next

\* While one sell order is under way and no fill is lost, it fits.
LEMMA GatePreserved ==
  ASSUME TypeOK, BookingInv, RowsInv, GateInv, Next
  PROVE  GateInv'
  <1>0. /\ req \in [Requests -> OrderRequest] /\ row.qty \in Int /\ row.n \in Nat
        /\ \A r \in Requests : req[r].left \in Nat /\ req[r].side \in Sides
        /\ collector.qty \in Nat
    BY DEF TypeOK, Rows, OrderRequest, Collector
  <1> SUFFICES ASSUME ~raced', lost' = {}
               PROVE  /\ row'.qty >= 0
                      /\ \A r, s \in Selling' : r = s
                      /\ \A r \in Selling' : req'[r].left + Taken(r)' <= row'.qty
    BY DEF GateInv
  <1>1. ASSUME ~raced, lost = {}
        PROVE  /\ row.qty >= 0
               /\ \A r, s \in Selling : r = s
               /\ \A r \in Selling : req[r].left + Taken(r) <= row.qty
    BY <1>1 DEF GateInv
  <1>2. ASSUME ~raced, lost = {}, row'.qty = row.qty,
               \A r \in Selling' : r \in Selling /\ req'[r].left + Taken(r)' = req[r].left + Taken(r)
        PROVE  GateInv'
    BY <1>1, <1>2 DEF GateInv
  <1>3. ASSUME NEW r \in Requests, NEW side \in Sides, NEW q \in Quantities,
               CreateOrder(r, side, q)
        PROVE  GateInv'
    <2>1. /\ req[r].at = "none" /\ Covered(side, q)
          /\ req' = [req EXCEPT ![r] = [at |-> "open", side |-> side, left |-> q]]
          /\ UNCHANGED <<row, collector, lost>>
          /\ ~raced /\ ~(side = "sell" /\ Selling # {})
      BY <1>3 DEF CreateOrder, gateway
    <2>2. /\ req'[r] = [at |-> "open", side |-> side, left |-> q]
          /\ \A s \in Requests : s # r => req'[s] = req[s]
      BY <1>0, <2>1
    <2>3. \A s \in Requests : s # r => (s \in Selling' <=> s \in Selling) /\ Taken(s)' = Taken(s)
      BY <2>1, <2>2 DEF Selling, Taken
    <2>4. CASE side = "buy"
      <3>1. r \notin Selling' /\ Selling' \subseteq Requests
        BY <2>2, <2>4 DEF Selling
      <3> QED BY <1>2, <2>1, <2>2, <2>3, <3>1
    <2>5. CASE side = "sell"
      <3>1. Selling' \subseteq {r}
        BY <2>1, <2>3, <2>5 DEF Selling
      <3>2. q <= row.qty /\ q \in Nat
        BY <2>1, <2>5, Numbers DEF Covered
      <3>3. req'[r].left + Taken(r)' = q
        BY <2>2, <3>2 DEF Taken
      <3>4. row'.qty >= 0
        BY <1>1, <2>1
      <3>5. req'[r].left + Taken(r)' <= row'.qty
        BY <2>1, <3>2, <3>3
      <3> QED BY <3>1, <3>4, <3>5 DEF GateInv
    <2> QED BY <2>4, <2>5 DEF Sides
  <1>4. ASSUME NEW r \in Requests, Expire(r)
        PROVE  GateInv'
    <2>1. req' = [req EXCEPT ![r].at = "done"] /\ UNCHANGED <<row, collector, lost, raced>>
      BY <1>4 DEF Expire, gateway
    <2>2. req'[r].at = "done" /\ \A s \in Requests : s # r => req'[s] = req[s]
      BY <1>0, <2>1 DEF OrderRequest
    <2>3. \A s \in Selling' : s \in Selling /\ req'[s] = req[s] /\ Taken(s)' = Taken(s)
      BY <2>1, <2>2 DEF Selling, Taken
    <2> QED BY <1>2, <2>1, <2>3
  <1>5. ASSUME NEW r \in Requests, NEW q \in Quantities, DropFill(r, q)
        PROVE  FALSE
    BY <1>5, DropFillEffects
  <1>6. ASSUME NEW r \in Requests, NEW q \in Quantities, NEW price \in Prices,
               ReadRow(r, q, price)
        PROVE  GateInv'
    <2>1. /\ UNCHANGED <<row, lost, raced>> /\ q \in Nat
          /\ req[r].at = "open" /\ collector.at = "idle" /\ collector'.qty = q
          /\ req'[r] = [at |-> "booking", side |-> req[r].side, left |-> req[r].left - q]
          /\ \A s \in Requests : s # r => req'[s] = req[s]
      BY <1>6, ReadRowEffects
    <2>2. \A s \in Requests : req[s].at # "booking"
      BY <2>1 DEF BookingInv
    <2>3. \A s \in Requests : s # r => Taken(s)' = 0 /\ Taken(s) = 0
      BY <2>1, <2>2 DEF Taken
    <2>4. Taken(r)' = q /\ Taken(r) = 0 /\ req'[r].left = req[r].left - q
      BY <2>1, <2>2 DEF Taken
    <2>5. \A s \in Selling' : s \in Selling
      BY <2>1 DEF Selling
    <2>6. \A s \in Selling' : req'[s].left + Taken(s)' = req[s].left + Taken(s)
      BY <1>0, <2>1, <2>3, <2>4 DEF Selling
    <2> QED BY <1>2, <2>1, <2>5, <2>6
  <1>7. ASSUME NEW r \in Requests, WriteFill(r)
        PROVE  GateInv'
    <2>1. /\ UNCHANGED raced /\ collector.at = "read" /\ req[r].at = "booking"
          /\ req'[r].at \in {"open", "done"} /\ req'[r].side = req[r].side
          /\ req'[r].left = req[r].left
          /\ \A s \in Requests : s # r => req'[s] = req[s]
          /\ row' = collector.copy
          /\ lost' = IF collector.copy.n < row.n + 1 THEN lost \cup {"overwritten"} ELSE lost
      BY <1>7, WriteFillEffects
    <2>2. ~(collector.copy.n < row.n + 1) /\ lost = {}
      BY <2>1
    <2>3. collector.copy.n <= row.n + 1
          /\ (collector.copy.n = row.n + 1 => collector.copy.qty = row.qty + Change)
      BY <2>1, <2>2 DEF RowsInv
    <2>4. collector.copy.n \in Nat
      BY DEF TypeOK, Collector, Rows
    <2>5. row'.qty = row.qty + Change
      BY <1>0, <2>1, <2>2, <2>3, <2>4
    <2>6. /\ collector.side = req[r].side
          /\ \A s \in Requests : req[s].at = "booking" => s = r
      BY <2>1 DEF BookingInv
    <2>7. \A s \in Requests : Taken(s)' = 0 /\ (s # r => Taken(s) = 0) /\ Taken(r) = collector.qty
      BY <2>1, <2>6 DEF Taken
    <2>8. \A s \in Selling' : s \in Selling /\ s \in Requests
      BY <2>1 DEF Selling
    <2>9. /\ row.qty >= 0
          /\ \A t, s \in Selling : t = s
          /\ \A s \in Selling : req[s].left + Taken(s) <= row.qty
      BY <1>1, <2>1, <2>2
    <2>10. \A s \in Requests : req'[s].left = req[s].left
      BY <2>1
    <2>11. CASE req[r].side = "buy"
      <3>1. r \notin Selling
        BY <2>11 DEF Selling
      <3>2. Change = collector.qty
        BY <2>6, <2>11 DEF Change, Signed
      <3>3. \A s \in Selling' : s # r /\ req'[s].left + Taken(s)' <= row.qty
        BY <1>0, <2>7, <2>8, <2>9, <2>10, <3>1
      <3>4. row'.qty >= row.qty /\ row'.qty \in Int
        BY <1>0, <2>5, <3>2
      <3>5. \A s \in Selling' : req'[s].left + Taken(s)' <= row'.qty
        BY <1>0, <2>7, <2>8, <2>10, <3>3, <3>4
      <3> QED BY <1>0, <2>8, <2>9, <3>4, <3>5 DEF GateInv
    <2>12. CASE req[r].side = "sell"
      <3>1. r \in Selling /\ Selling \subseteq {r}
        BY <2>1, <2>9, <2>12 DEF Selling
      <3>2. Change = -collector.qty
        BY <2>6, <2>12 DEF Change, Signed
      <3>3. req[r].left + collector.qty <= row.qty
        BY <2>7, <2>9, <3>1
      <3>4. req'[r].left + Taken(r)' <= row'.qty /\ row'.qty >= 0
        BY <1>0, <2>1, <2>5, <2>7, <3>2, <3>3
      <3>5. Selling' \subseteq {r}
        BY <2>8, <3>1
      <3> QED BY <3>4, <3>5 DEF GateInv
    <2> QED BY <1>0, <2>11, <2>12 DEF Sides
  <1>8. ASSUME AnnounceFill
        PROVE  GateInv'
    <2>1. UNCHANGED <<req, row, lost, raced>> /\ collector.at = "written"
      BY <1>8 DEF AnnounceFill
    <2>2. \A s \in Requests : Taken(s)' = 0 /\ Taken(s) = 0
      BY <2>1 DEF Taken, BookingInv
    <2>3. \A s \in Selling' : s \in Selling /\ s \in Requests
      BY <2>1 DEF Selling
    <2> QED BY <1>2, <2>1, <2>2, <2>3
  <1>9. ASSUME UNCHANGED <<req, collector, lost, raced>>, row'.qty = row.qty
        PROVE  GateInv'
    <2>1. \A s \in Selling' : s \in Selling /\ Taken(s)' = Taken(s)
      BY <1>9 DEF Selling, Taken
    <2> QED BY <1>2, <1>9, <2>1
  <1>10. ASSUME NEW price \in Prices, ReadPrice(price)
         PROVE  GateInv'
    BY <1>9, <1>10 DEF ReadPrice
  <1>11. ASSUME WritePrice
         PROVE  GateInv'
    <2>1. /\ UNCHANGED <<req, collector, raced>> /\ pricer.n \in Nat
          /\ \/ row' = pricer
                /\ lost' = IF pricer.n < row.n THEN lost \cup {"overwritten"} ELSE lost
             \/ UNCHANGED <<row, lost>>
      BY <1>11, WritePriceEffects DEF TypeOK, Rows
    <2>2. CASE /\ row' = pricer
               /\ lost' = IF pricer.n < row.n THEN lost \cup {"overwritten"} ELSE lost
      <3>1. ~(pricer.n < row.n) /\ lost = {}
        BY <2>2
      <3>2. pricer.n <= row.n /\ (pricer.n = row.n => pricer.qty = row.qty)
        BY <3>1 DEF RowsInv
      <3>3. row'.qty = row.qty
        BY <1>0, <2>1, <2>2, <3>1, <3>2
      <3> QED BY <1>9, <2>1, <3>1, <3>3
    <2>3. CASE UNCHANGED <<row, lost>>
      BY <1>9, <2>1, <2>3
    <2> QED BY <2>1, <2>2, <2>3
  <1>12. ASSUME StartEngine \/ Reconnect \/ Consume
         PROVE  GateInv'
    BY <1>9, <1>12 DEF StartEngine, Reconnect, Consume, gateway
  <1>13. GateInv'
    BY <1>3, <1>4, <1>5, <1>6, <1>7, <1>8, <1>10, <1>11, <1>12 DEF Next
  <1> QED BY <1>13 DEF GateInv

\* What was announced changes only with the table.
LEMMA AnnouncedEffects ==
  ASSUME TypeOK, BookingInv, RowsInv, Next, ~AnnounceFill
  PROVE  /\ Announced'.n = Announced.n
         /\ "overwritten" \notin lost' =>
              /\ "overwritten" \notin lost
              /\ Announced'.qty = Announced.qty /\ Announced'.cash = Announced.cash
  <1> DEFINE Calm == /\ Announced'.n = Announced.n
                     /\ "overwritten" \notin lost' =>
                          /\ "overwritten" \notin lost
                          /\ Announced'.qty = Announced.qty /\ Announced'.cash = Announced.cash
  <1>0. /\ row.qty \in Int /\ row.cash \in Int /\ row.n \in Nat /\ fills \in Nat
        /\ collector.qty \in Nat /\ collector.price \in Nat
        /\ pricer.qty \in Int /\ pricer.cash \in Int /\ pricer.n \in Nat
        /\ collector.copy \in Rows
        /\ collector.copy.qty \in Int /\ collector.copy.cash \in Int /\ collector.copy.n \in Nat
        /\ collector.side \in Sides
    BY DEF TypeOK, Rows, Collector
  <1>1. ASSUME UNCHANGED <<row, collector, fills>>,
               "overwritten" \notin lost' => "overwritten" \notin lost
        PROVE  Calm
    BY <1>1 DEF Announced, Change
  <1>2. ASSUME UNCHANGED <<row, fills>>, collector.at # "written", collector'.at # "written",
               "overwritten" \notin lost' => "overwritten" \notin lost
        PROVE  Calm
    BY <1>2 DEF Announced
  <1>3. ASSUME NEW r \in Requests, NEW side \in Sides, NEW q \in Quantities,
               CreateOrder(r, side, q)
        PROVE  Calm
    BY <1>1, <1>3 DEF CreateOrder, gateway
  <1>4. ASSUME NEW r \in Requests, Expire(r)
        PROVE  Calm
    BY <1>1, <1>4 DEF Expire, gateway
  <1>5. ASSUME NEW r \in Requests, NEW q \in Quantities, DropFill(r, q)
        PROVE  Calm
    BY <1>1, <1>5, DropFillEffects
  <1>6. ASSUME NEW r \in Requests, NEW q \in Quantities, NEW price \in Prices,
               ReadRow(r, q, price)
        PROVE  Calm
    BY <1>2, <1>6, ReadRowEffects
  <1>7. ASSUME NEW r \in Requests, WriteFill(r)
        PROVE  Calm
    <2>1. collector.at = "read"
      BY <1>7, WriteFillEffects
    <2>2. CASE /\ row' = collector.copy /\ fills' = fills + 1
               /\ lost' = IF collector.copy.n < row.n + 1 THEN lost \cup {"overwritten"} ELSE lost
               /\ collector'.at = "written" /\ collector'.copy = collector.copy
               /\ collector'.side = collector.side /\ collector'.qty = collector.qty
               /\ collector'.price = collector.price
      <3>1. Change' = Change /\ Change \in Int /\ Change * collector.price \in Int
        <4>1. Change' = Change /\ Change \in Int
          BY <1>0, <2>2 DEF Change, Signed
        <4> QED BY <1>0, <4>1
      <3>2. Announced.n = fills /\ Announced.qty = row.qty /\ Announced.cash = row.cash
        BY <2>1 DEF Announced
      <3>3. /\ Announced'.n = fills' - 1
            /\ Announced'.qty = row'.qty - Change'
            /\ Announced'.cash = row'.cash + Change' * collector'.price
        BY <2>2 DEF Announced
      <3>4. ASSUME "overwritten" \notin lost'
            PROVE  /\ "overwritten" \notin lost /\ collector.copy.qty = row.qty + Change
                   /\ collector.copy.cash = row.cash - Change * collector.price
        <4>1. ~(collector.copy.n < row.n + 1) /\ "overwritten" \notin lost
          BY <2>2, <3>4
        <4>2. collector.copy.n <= row.n + 1
          BY <2>1, <4>1 DEF RowsInv
        <4>3. collector.copy.n = row.n + 1
          BY <1>0, <4>1, <4>2
        <4> QED BY <2>1, <4>1, <4>3 DEF RowsInv
      <3>5. Announced'.n = Announced.n
        BY <1>0, <2>2, <3>2, <3>3
      <3>6. ASSUME "overwritten" \notin lost'
            PROVE  Announced'.qty = Announced.qty
        BY <1>0, <2>2, <3>1, <3>2, <3>3, <3>4, <3>6
      <3> DEFINE v == Change * collector.price
      <3>8. v \in Int /\ Announced'.cash = row'.cash + v
        BY <2>2, <3>1, <3>3
      <3>7. ASSUME "overwritten" \notin lost'
            PROVE  Announced'.cash = Announced.cash
        <4>1. row'.cash = row.cash - v
          BY <2>2, <3>4, <3>7
        <4> HIDE DEF v
        <4> QED BY <1>0, <3>2, <3>8, <4>1
      <3> QED BY <3>4, <3>5, <3>6, <3>7
    <2>3. CASE UNCHANGED <<row, fills>> /\ lost' = lost \cup {"dropped"} /\ collector' = Idle
      BY <1>2, <2>1, <2>3, IdleCollector
    <2> HIDE DEF Calm
    <2> QED BY <1>7, <2>2, <2>3, WriteFillEffects
  <1>8. ASSUME NEW price \in Prices, ReadPrice(price)
        PROVE  Calm
    BY <1>1, <1>8 DEF ReadPrice
  <1>9. ASSUME WritePrice
        PROVE  Calm
    <2>1. UNCHANGED <<collector, fills>>
      BY <1>9, WritePriceEffects
    <2>2. CASE /\ row' = pricer
               /\ lost' = IF pricer.n < row.n THEN lost \cup {"overwritten"} ELSE lost
      <3>1. ASSUME "overwritten" \notin lost'
            PROVE  /\ "overwritten" \notin lost /\ row'.qty = row.qty /\ row'.cash = row.cash
        <4>1. ~(pricer.n < row.n) /\ "overwritten" \notin lost
          BY <2>2, <3>1
        <4>2. pricer.n <= row.n
          BY <4>1 DEF RowsInv
        <4>3. pricer.n = row.n
          BY <1>0, <4>1, <4>2
        <4> QED BY <2>2, <4>1, <4>3 DEF RowsInv
      <3>2. Announced'.n = Announced.n
        BY <2>1 DEF Announced
      <3> QED BY <2>1, <3>1, <3>2 DEF Announced, Change
    <2>3. CASE UNCHANGED <<row, lost>>
      BY <1>1, <2>1, <2>3
    <2> HIDE DEF Calm
    <2> QED BY <1>9, <2>2, <2>3, WritePriceEffects
  <1>10. ASSUME StartEngine \/ Reconnect \/ Consume
         PROVE  Calm
    BY <1>1, <1>10 DEF StartEngine, Reconnect, Consume, gateway
  <1> HIDE DEF Calm
  <1>11. Calm
    BY <1>3, <1>4, <1>5, <1>6, <1>7, <1>8, <1>9, <1>10 DEF Next
  <1> QED BY <1>11 DEF Calm

\* Before the last fill is announced, a log that is whole afterwards has all the
\* fills but this, and it adds just this one.
LEMMA WholeBefore ==
  ASSUME TypeOK, BookingInv, AnnounceFill, Whole(fills)',
         NEW event, event = [n |-> fills, side |-> collector.side, qty |-> collector.qty,
                             price |-> collector.price]
  PROVE  /\ Whole(fills - 1)
         /\ log' \in Seq(FillEvent) /\ Len(log') = Len(log) + 1
         /\ \A k \in 1 .. Len(log) : log'[k] = log[k]
         /\ log'[Len(log) + 1] = event
  <1>1. /\ log \in Seq(FillEvent) /\ Len(log) \in Nat /\ fills \in Nat /\ fills > 0
        /\ event \in FillEvent /\ event.n = fills /\ Publish(event) /\ UNCHANGED fills
    BY DEF TypeOK, AnnounceFill, BookingInv, Collector, FillEvent
  <1>2. PICK copies \in 0 .. 2 :
          /\ ~Whole(fills - 1) => copies = 1
          /\ Len(log') = Len(log) + copies
          /\ \A k \in 1 .. Len(log) : log'[k] = log[k]
          /\ \A k \in Len(log) + 1 .. Len(log') : log'[k] = event
    BY <1>1, PublishEffects
  <1>3. log' \in Seq(FillEvent)
    BY <1>1, PublishEffects
  <1>4. Whole(fills - 1)
    <2> SUFFICES ASSUME ~Whole(fills - 1)
                 PROVE  FALSE
      OBVIOUS
    <2>1. Len(log) = fills - 1
      BY <1>1, <1>2 DEF Whole
    <2>2. \A k \in 1 .. fills - 1 : log[k].n = k
      <3> TAKE k \in 1 .. fills - 1
      <3>1. k \in 1 .. fills /\ k \in 1 .. Len(log)
        BY <1>1, <2>1
      <3> QED BY <1>1, <1>2, <3>1 DEF Whole
    <2> QED BY <2>1, <2>2 DEF Whole
  <1>5. copies = 1
    BY <1>1, <1>2, <1>4 DEF Whole
  <1> QED BY <1>2, <1>3, <1>4, <1>5

\* What is in the log was announced.
LEMMA LogPreserved ==
  ASSUME TypeOK, BookingInv, RowsInv, LogInv, Next
  PROVE  LogInv'
  <1>1. CASE ~AnnounceFill
    <2>1. Announced'.n = Announced.n
      BY <1>1, AnnouncedEffects
    <2>2. UNCHANGED log
      BY <1>1 DEF Next, CreateOrder, Expire, DropFill, ReadRow, WriteFill, ReadPrice, WritePrice,
                  StartEngine, Reconnect, Consume, gateway
    <2> QED BY <2>1, <2>2 DEF LogInv
  <1>2. CASE AnnounceFill
    <2> PICK event : event = [n |-> fills, side |-> collector.side, qty |-> collector.qty,
                              price |-> collector.price]
      OBVIOUS
    <2>1. /\ log \in Seq(FillEvent) /\ Len(log) \in Nat /\ fills \in Nat /\ fills > 0
          /\ event \in FillEvent /\ event.n = fills /\ Publish(event) /\ UNCHANGED fills
      BY <1>2 DEF TypeOK, AnnounceFill, BookingInv, Collector, FillEvent
    <2>2. /\ log' \in Seq(FillEvent)
          /\ \A k \in 1 .. Len(log) : log'[k] = log[k]
          /\ \A k \in Len(log) + 1 .. Len(log') : log'[k] = event
      BY <2>1, PublishEffects
    <2>3. Announced.n = fills - 1 /\ Announced'.n = fills
      BY <1>2, <2>1, IdleCollector DEF AnnounceFill, Announced
    <2>4. ASSUME NEW k \in 1 .. Len(log')
          PROVE  log'[k].n <= fills
      <3>1. CASE k <= Len(log)
        <4>1. k \in 1 .. Len(log) /\ log[k] \in FillEvent
          BY <2>1, <3>1
        <4>2. log[k].n <= fills - 1 /\ log[k].n \in Nat
          BY <2>3, <4>1 DEF LogInv, FillEvent
        <4> QED BY <2>1, <2>2, <4>1, <4>2
      <3>2. CASE k > Len(log)
        <4>1. k \in Len(log) + 1 .. Len(log')
          BY <2>1, <2>2, <3>2
        <4> QED BY <2>1, <2>2, <4>1
      <3> QED BY <2>1, <3>1, <3>2
    <2> QED BY <2>3, <2>4 DEF LogInv
  <1> QED BY <1>1, <1>2

\* One more event in the log, and the portfolios with it.
LEMMA LogExtended ==
  ASSUME TypeOK, BookingInv, EngineInv, AnnounceFill
  PROVE  EngineInv'
  <1> PICK event : event = [n |-> fills, side |-> collector.side, qty |-> collector.qty,
                            price |-> collector.price]
    OBVIOUS
  <1> DEFINE n == Len(log)
             cost == Change * collector.price
  <1>1. /\ collector.at = "written" /\ collector'.at = "idle"
        /\ UNCHANGED <<row, fills, lost, engine, disturbed>>
    BY IdleCollector DEF AnnounceFill
  <1>2. /\ log \in Seq(FillEvent) /\ n \in Nat /\ row.qty \in Int /\ row.cash \in Int
        /\ Change \in Int /\ cost \in Int
    <2>1. /\ log \in Seq(FillEvent) /\ row.qty \in Int /\ row.cash \in Int
          /\ collector.side \in Sides /\ collector.qty \in Nat /\ collector.price \in Nat
      BY DEF TypeOK, Rows, Collector
    <2>2. Change \in Int
      BY <2>1 DEF Change, Signed
    <2> QED BY <2>1, <2>2
  <1>3. /\ Announced.n = fills - 1 /\ Announced.qty = row.qty - Change
        /\ Announced.cash = row.cash + cost
        /\ Announced'.n = fills /\ Announced'.qty = row.qty /\ Announced'.cash = row.cash
    BY <1>1 DEF Announced
  <1> SUFFICES ASSUME Whole(fills)'
               PROVE  \E held, paid : Accounted(held, paid)'
    BY <1>1, <1>3 DEF EngineInv, Whole
  <1>4. /\ Whole(fills - 1)
        /\ log' \in Seq(FillEvent) /\ Len(log') = n + 1
        /\ \A k \in 1 .. n : log'[k] = log[k]
        /\ log'[n + 1] = event
    BY WholeBefore
  <1>5. PICK held, paid : Accounted(held, paid)
    BY <1>3, <1>4 DEF EngineInv
  <1>6. /\ held \in [0 .. n -> Int] /\ paid \in [0 .. n -> Int]
        /\ held[0] = 0 /\ paid[0] = 0
        /\ \A k \in 1 .. n : /\ held[k] = held[k - 1] + Signed(log[k].side, log[k].qty)
                             /\ paid[k] = paid[k - 1] - Signed(log[k].side, log[k].qty) * log[k].price
        /\ "overwritten" \notin lost => held[n] = row.qty - Change /\ paid[n] = row.cash + cost
        /\ engine.connects > 0 /\ disturbed = {} =>
             /\ engine.next - 1 \in 0 .. n
             /\ engine.qty = held[engine.next - 1]
             /\ engine.available = paid[engine.next - 1]
    BY <1>3, <1>5 DEF Accounted, Tallies
  <1>7. Signed(event.side, event.qty) = Change
        /\ Signed(event.side, event.qty) * event.price = cost
    BY DEF Change
  <1> HIDE DEF n, cost
  <1>8. /\ \A k \in 0 .. n : k \in 0 .. n + 1 /\ k # n + 1
        /\ n + 1 \in 0 .. n + 1 /\ n \in 0 .. n /\ (n + 1) - 1 = n
        /\ \A k \in 1 .. n : k \in 0 .. n /\ k - 1 \in 0 .. n
        /\ \A k \in 1 .. n + 1 : k = n + 1 \/ k \in 1 .. n
        /\ 0 \in 0 .. n
    BY <1>2
  <1>9. held[n] \in Int /\ paid[n] \in Int
    BY <1>6, <1>8
  <1>10. PICK more, spent :
           /\ more = [k \in 0 .. n + 1 |-> IF k = n + 1 THEN held[n] + Change ELSE held[k]]
           /\ spent = [k \in 0 .. n + 1 |-> IF k = n + 1 THEN paid[n] - cost ELSE paid[k]]
    OBVIOUS
  <1>11. /\ more \in [0 .. n + 1 -> Int] /\ spent \in [0 .. n + 1 -> Int]
         /\ more[n + 1] = held[n] + Change /\ spent[n + 1] = paid[n] - cost
         /\ \A k \in 0 .. n : more[k] = held[k] /\ spent[k] = paid[k]
    <2>1. \A k \in 0 .. n + 1 : k = n + 1 \/ k \in 0 .. n
      BY <1>2
    <2>2. held[n] + Change \in Int /\ paid[n] - cost \in Int
      BY <1>2, <1>9
    <2>3. more \in [0 .. n + 1 -> Int] /\ spent \in [0 .. n + 1 -> Int]
      BY <1>6, <1>10, <2>1, <2>2
    <2> QED BY <1>8, <1>10, <2>3
  <1>12. Tallies(more, spent)'
    <2>1. ASSUME NEW k \in 1 .. n + 1
          PROVE  /\ more[k] = more[k - 1] + Signed(log'[k].side, log'[k].qty)
                 /\ spent[k] = spent[k - 1] - Signed(log'[k].side, log'[k].qty) * log'[k].price
      <3>1. CASE k = n + 1
        <4>1. more[k - 1] = held[n] /\ spent[k - 1] = paid[n]
          BY <1>8, <1>11, <3>1
        <4> QED BY <1>4, <1>7, <1>11, <3>1, <4>1
      <3>2. CASE k \in 1 .. n
        <4>1. log'[k] = log[k]
          BY <1>4, <3>2
        <4>2. k \in 0 .. n /\ k - 1 \in 0 .. n
          BY <1>8, <3>2
        <4> QED BY <1>6, <1>11, <3>2, <4>1, <4>2
      <3> QED BY <1>8, <3>1, <3>2
    <2>2. more[0] = 0 /\ spent[0] = 0
      BY <1>6, <1>8, <1>11
    <2> QED BY <1>4, <1>11, <2>1, <2>2 DEF Tallies
  <1>13. "overwritten" \notin lost' => more[Len(log')] = Announced'.qty /\ spent[Len(log')] = Announced'.cash
    <2> SUFFICES ASSUME "overwritten" \notin lost
                 PROVE  more[n + 1] = row.qty /\ spent[n + 1] = row.cash
      BY <1>1, <1>3, <1>4
    <2>1. held[n] = row.qty - Change /\ paid[n] = row.cash + cost
      BY <1>6
    <2>2. more[n + 1] = held[n] + Change /\ spent[n + 1] = paid[n] - cost
      BY <1>11
    <2> QED BY <1>2, <2>1, <2>2
  <1>14. ASSUME engine'.connects > 0, disturbed' = {}
         PROVE  /\ engine'.next - 1 \in 0 .. Len(log')
                /\ engine'.qty = more[engine'.next - 1]
                /\ engine'.available = spent[engine'.next - 1]
    <2>1. /\ engine.next - 1 \in 0 .. n
          /\ engine.qty = held[engine.next - 1]
          /\ engine.available = paid[engine.next - 1]
      BY <1>1, <1>6, <1>14
    <2> QED BY <1>1, <1>4, <1>8, <1>11, <2>1
  <1>15. Accounted(more, spent)'
    BY <1>12, <1>13, <1>14 DEF Accounted
  <1> QED BY <1>15

\* The portfolio follows the log.
LEMMA EnginePreserved ==
  ASSUME TypeOK, BookingInv, RowsInv, EngineInv, Next
  PROVE  EngineInv'
  <1>0. log \in Seq(FillEvent) /\ engine \in Portfolio /\ Len(log) \in Nat
    BY DEF TypeOK
  <1>1. ASSUME ~AnnounceFill, UNCHANGED log,
               \A held, paid : Accounted(held, paid) =>
                 (engine'.connects > 0 /\ disturbed' = {} =>
                    /\ engine'.next - 1 \in 0 .. Len(log)
                    /\ engine'.qty = held[engine'.next - 1]
                    /\ engine'.available = paid[engine'.next - 1])
        PROVE  EngineInv'
    <2>1. /\ Announced'.n = Announced.n
          /\ "overwritten" \notin lost' =>
               /\ "overwritten" \notin lost
               /\ Announced'.qty = Announced.qty /\ Announced'.cash = Announced.cash
      BY <1>1, AnnouncedEffects
    <2> SUFFICES ASSUME Whole(Announced.n)'
                 PROVE  \E held, paid : Accounted(held, paid)'
      BY DEF EngineInv
    <2>2. Whole(Announced.n)
      BY <1>1, <2>1 DEF Whole
    <2>3. PICK held, paid : Accounted(held, paid)
      BY <2>2 DEF EngineInv
    <2>4. Tallies(held, paid)'
      BY <1>1, <2>3 DEF Accounted, Tallies
    <2>5. "overwritten" \notin lost' =>
            held[Len(log')] = Announced'.qty /\ paid[Len(log')] = Announced'.cash
      BY <1>1, <2>1, <2>3 DEF Accounted
    <2>6. Accounted(held, paid)'
      BY <1>1, <2>3, <2>4, <2>5 DEF Accounted
    <2> QED BY <2>6
  <1>2. ASSUME ~AnnounceFill, UNCHANGED <<log, engine, disturbed>>
        PROVE  EngineInv'
    BY <1>1, <1>2 DEF Accounted
  <1>3. CASE StartEngine
    <2>1. /\ UNCHANGED <<collector, log>> /\ engine'.next = 1
          /\ disturbed' = {} => engine'.qty = 0 /\ engine'.available = 0
      BY <1>3, StartEffects
    <2>2. engine'.next - 1 = 0 /\ 0 \in 0 .. Len(log)
      BY <1>0, <2>1
    <2>3. \A held, paid : Accounted(held, paid) => held[0] = 0 /\ paid[0] = 0
      BY DEF Accounted, Tallies
    <2>4. CASE AnnounceFill
      BY <2>4, LogExtended
    <2> QED BY <1>1, <2>1, <2>2, <2>3, <2>4
  <1>4. CASE Reconnect
    <2>1. /\ UNCHANGED <<collector, log>> /\ engine.connects > 0
          /\ engine'.next = 1 /\ engine'.qty = engine.qty
          /\ engine'.available = engine.available
          /\ disturbed' = {} => disturbed = {} /\ engine.next = 1
      BY <1>4, ReconnectEffects
    <2>2. \A held, paid : Accounted(held, paid) =>
            (disturbed = {} => /\ engine.next - 1 \in 0 .. Len(log)
                               /\ engine.qty = held[engine.next - 1]
                               /\ engine.available = paid[engine.next - 1])
      BY <2>1 DEF Accounted
    <2>4. CASE AnnounceFill
      BY <2>4, LogExtended
    <2> QED BY <1>1, <2>1, <2>2, <2>4
  <1>5. CASE Consume
    <2> DEFINE k == engine.next
    <2>1. /\ UNCHANGED <<collector, log>> /\ k \in 1 .. Len(log)
          /\ engine'.next = k + 1 /\ engine.connects > 0
          /\ disturbed' = {} =>
               /\ disturbed = {}
               /\ engine'.qty = engine.qty + Signed(log[k].side, log[k].qty)
               /\ engine'.available = engine.available - Signed(log[k].side, log[k].qty) * log[k].price
      BY <1>5, ConsumeEffects
    <2>2. ASSUME NEW held, NEW paid, Accounted(held, paid), disturbed' = {}
          PROVE  /\ engine'.next - 1 \in 0 .. Len(log)
                 /\ engine'.qty = held[engine'.next - 1]
                 /\ engine'.available = paid[engine'.next - 1]
      <3>1. engine.qty = held[k - 1] /\ engine.available = paid[k - 1]
        BY <2>1, <2>2 DEF Accounted
      <3>2. /\ held[k] = held[k - 1] + Signed(log[k].side, log[k].qty)
            /\ paid[k] = paid[k - 1] - Signed(log[k].side, log[k].qty) * log[k].price
        BY <2>1, <2>2 DEF Accounted, Tallies
      <3> HIDE DEF k
      <3>3. (k + 1) - 1 = k /\ k \in 0 .. Len(log)
        BY <1>0, <2>1
      <3> QED BY <2>1, <2>2, <3>1, <3>2, <3>3
    <2> HIDE DEF k
    <2>4. CASE AnnounceFill
      BY <2>4, LogExtended
    <2> QED BY <1>1, <2>1, <2>2, <2>4
  <1>6. ASSUME NEW r \in Requests, NEW side \in Sides, NEW q \in Quantities,
               CreateOrder(r, side, q)
        PROVE  UNCHANGED <<log, engine, disturbed>>
    BY <1>6 DEF CreateOrder, gateway
  <1>7. ASSUME NEW r \in Requests, Expire(r)
        PROVE  UNCHANGED <<log, engine, disturbed>>
    BY <1>7 DEF Expire
  <1>8. ASSUME NEW r \in Requests, NEW q \in Quantities, DropFill(r, q)
        PROVE  UNCHANGED <<log, engine, disturbed>>
    BY <1>8 DEF DropFill
  <1>9. ASSUME NEW r \in Requests, NEW q \in Quantities, NEW price \in Prices,
               ReadRow(r, q, price)
        PROVE  UNCHANGED <<log, engine, disturbed>>
    BY <1>9 DEF ReadRow
  <1>10. ASSUME NEW r \in Requests, WriteFill(r)
         PROVE  UNCHANGED <<log, engine, disturbed>>
    BY <1>10 DEF WriteFill
  <1>11. ASSUME NEW price \in Prices, ReadPrice(price)
         PROVE  UNCHANGED <<log, engine, disturbed>>
    BY <1>11 DEF ReadPrice
  <1>12. ASSUME WritePrice
         PROVE  UNCHANGED <<log, engine, disturbed>>
    BY <1>12 DEF WritePrice
  <1>13. CASE ~AnnounceFill /\ UNCHANGED <<log, engine, disturbed>>
    BY <1>2, <1>13
  <1> QED
    BY <1>3, <1>4, <1>5, <1>6, <1>7, <1>8, <1>9, <1>10, <1>11, <1>12, <1>13, LogExtended DEF Next

\* A fill adds to the error at most half a unit for each share, in whichever row
\* it is, and writing a row copies it.
LEMMA CostPreserved ==
  ASSUME TypeOK, Next, NEW most \in Nat, \A q \in Quantities : q <= most, CostInv(most)
  PROVE  CostInv(most)'
  <1>0. /\ row \in Rows /\ Exact(row, most) /\ Exact(pricer, most)
        /\ Exact(collector.copy, most) /\ Exact(NoRow, most) /\ Exact(Idle.copy, most)
    BY IdleCollector DEF TypeOK, CostInv
  <1>1. ASSUME UNCHANGED <<row, pricer, collector>>
        PROVE  CostInv(most)'
    BY <1>0, <1>1 DEF CostInv
  <1>2. ASSUME NEW r \in Requests, NEW side \in Sides, NEW q \in Quantities,
               CreateOrder(r, side, q)
        PROVE  CostInv(most)'
    BY <1>1, <1>2 DEF CreateOrder, gateway
  <1>3. ASSUME NEW r \in Requests, Expire(r)
        PROVE  CostInv(most)'
    BY <1>1, <1>3 DEF Expire, gateway
  <1>4. ASSUME NEW r \in Requests, NEW q \in Quantities, DropFill(r, q)
        PROVE  CostInv(most)'
    BY <1>1, <1>4 DEF DropFill
  <1>5. ASSUME NEW r \in Requests, NEW q \in Quantities, NEW price \in Prices,
               ReadRow(r, q, price)
        PROVE  CostInv(most)'
    <2>1. UNCHANGED <<row, pricer>> /\ q <= most
      BY <1>5 DEF ReadRow
    <2>2. PICK p \in Rows : Start(p) /\ Adds(collector'.copy, p, Signed(req[r].side, q), q, price)
      BY <1>5, ReadRowEffects
    <2>3. Exact(p, most)
      BY <1>0, <2>2 DEF Start
    <2>4. Exact(collector'.copy, most)
      BY <2>1, <2>2, <2>3 DEF Adds
    <2>5. Exact(row', most) /\ Exact(pricer', most)
      BY <1>0, <2>1
    <2> QED BY <2>4, <2>5 DEF CostInv
  <1>6. ASSUME NEW r \in Requests, WriteFill(r)
        PROVE  CostInv(most)'
    <2>1. /\ UNCHANGED pricer /\ row' \in {row, collector.copy}
          /\ collector'.copy \in {collector.copy, Idle.copy}
      BY <1>6, WriteFillEffects
    <2>2. Exact(row', most) /\ Exact(pricer', most) /\ Exact(collector'.copy, most)
      BY <1>0, <2>1
    <2> QED BY <2>2 DEF CostInv
  <1>7. CASE AnnounceFill
    <2>1. UNCHANGED <<row, pricer>> /\ collector' = Idle
      BY <1>7 DEF AnnounceFill
    <2>2. Exact(row', most) /\ Exact(pricer', most) /\ Exact(collector'.copy, most)
      BY <1>0, <2>1
    <2> QED BY <2>2 DEF CostInv
  <1>8. ASSUME NEW price \in Prices, ReadPrice(price)
        PROVE  CostInv(most)'
    <2>1. /\ pricer' = UpdateMarketPrice(row, price) /\ price \in Int
          /\ UNCHANGED <<row, collector>>
      BY <1>8, Numbers DEF ReadPrice
    <2> PICK f : f = pricer'
      OBVIOUS
    <2>2. f = UpdateMarketPrice(row, price) /\ row \in Rows /\ price \in Int
      BY <1>0, <2>1
    <2>3. \A m : Exact(row, m) => Exact(f, m)
      BY <2>2, PriceEffects
    <2>4. Exact(row', most) /\ Exact(pricer', most) /\ Exact(collector'.copy, most)
      BY <1>0, <2>1, <2>3
    <2> QED BY <2>4 DEF CostInv
  <1>9. CASE WritePrice
    <2>1. UNCHANGED collector /\ row' \in {row, pricer} /\ pricer' = NoRow
      BY <1>9, WritePriceEffects
    <2>2. Exact(row', most) /\ Exact(pricer', most) /\ Exact(collector'.copy, most)
      BY <1>0, <2>1
    <2> QED BY <2>2 DEF CostInv
  <1>10. CASE StartEngine \/ Reconnect \/ Consume
    BY <1>1, <1>10 DEF StartEngine, Reconnect, Consume, gateway
  <1> QED BY <1>2, <1>3, <1>4, <1>5, <1>6, <1>7, <1>8, <1>9, <1>10 DEF Next

-----------------------------------------------------------------------------
\* The theorems

\* The invariant holds before any order.
LEMMA PositionsInitial ==
  ASSUME Init
  PROVE  PositionsInv /\ \A most \in Nat : CostInv(most)
  <1>1. /\ row = NoRow /\ pricer = NoRow /\ collector = Idle /\ fills = 0 /\ lost = {}
        /\ log = << >> /\ raced = FALSE /\ disturbed = {}
        /\ req = [r \in Requests |-> NoOrder]
        /\ engine = [next |-> 1, connects |-> 0, qty |-> 0, cash |-> 0, available |-> 0,
                     unsettled |-> 0]
    BY DEF Init
  <1>2. TypeOK
    <2>1. NoOrder \in OrderRequest
      BY DEF NoOrder, OrderRequest, Sides
    <2>2. req \in [Requests -> OrderRequest]
      BY <1>1, <2>1
    <2>3. engine \in Portfolio
      BY <1>1 DEF Portfolio
    <2>4. log \in Seq(FillEvent) /\ fills \in Nat
      BY <1>1
    <2>5. raced \in BOOLEAN
      BY <1>1, Zenon
    <2> QED BY <1>1, <2>2, <2>3, <2>4, <2>5, IdleCollector DEF TypeOK
  <1>3. \A r \in Requests : req[r].at = "none"
    BY <1>1 DEF NoOrder
  <1>4. BookingInv /\ RowsInv
    <2>1. BookingInv
      BY <1>1, <1>3, IdleCollector DEF BookingInv
    <2>2. RowsInv
      BY <1>1, IdleCollector DEF RowsInv
    <2> QED BY <2>1, <2>2
  <1>5. GateInv
    BY <1>1, <1>3, IdleCollector DEF GateInv, Selling
  <1>8. LogInv
    BY <1>1 DEF LogInv
  <1>6. EngineInv
    <2>1. PICK none : none = [k \in 0 .. 0 |-> 0]
      OBVIOUS
    <2>2. Len(log) = 0 /\ engine.connects = 0
      BY <1>1
    <2>3. Tallies(none, none) /\ none[0] = 0
      BY <2>1, <2>2 DEF Tallies
    <2>4. Announced.qty = 0 /\ Announced.cash = 0
      BY <1>1, IdleCollector DEF Announced
    <2>5. Accounted(none, none)
      BY <2>2, <2>3, <2>4 DEF Accounted
    <2> QED BY <2>5 DEF EngineInv
  <1>7. \A most \in Nat : CostInv(most)
    BY <1>1, IdleCollector DEF CostInv
  <1> QED BY <1>2, <1>4, <1>5, <1>6, <1>7, <1>8 DEF PositionsInv

\* Types, the rows that are under way, the sell gate and the portfolio keep their
\* invariant, whatever fails and however the collector and the pricer overlap.
THEOREM PositionsInvariance == Spec => []PositionsInv
  <1>1. PositionsInv /\ [Next]_vars => PositionsInv'
    <2> SUFFICES ASSUME PositionsInv, [Next]_vars PROVE PositionsInv'
      OBVIOUS
    <2>1. CASE Next
      BY <2>1, TypesPreserved, BookingPreserved, RowsPreserved, GatePreserved, LogPreserved,
         EnginePreserved
         DEF PositionsInv
    <2>2. CASE UNCHANGED vars
      <3>1. /\ UNCHANGED <<req, row, collector, pricer, fills, lost, log, engine, raced>>
            /\ UNCHANGED disturbed
        BY <2>2 DEF vars, gateway
      <3>2. TypeOK' /\ BookingInv' /\ RowsInv'
        BY <3>1 DEF PositionsInv, TypeOK, BookingInv, RowsInv, Change
      <3>3. GateInv'
        BY <3>1 DEF PositionsInv, GateInv, Selling, Taken
      <3>5. LogInv'
        BY <3>1 DEF PositionsInv, LogInv, Announced
      <3>4. EngineInv'
        BY <3>1 DEF PositionsInv, EngineInv, Accounted, Tallies, Announced, Change, Whole
      <3> QED BY <3>2, <3>3, <3>4, <3>5 DEF PositionsInv
    <2> QED BY <2>1, <2>2
  <1> QED BY <1>1, PositionsInitial, PTL DEF Spec

\* handler_order.go: the sell gate compares a request with the position and
\* reserves nothing; a position becomes short only after two sell orders were
\* under way at once, or after the row lost a fill.
THEOREM ShortNeedsRace == Spec => []ShortOnlyAfterRace
  <1>1. PositionsInv => ShortOnlyAfterRace
    BY DEF PositionsInv, TypeOK, Rows, GateInv, ShortOnlyAfterRace
  <1> QED BY <1>1, PositionsInvariance, PTL

\* portfolio.py: a portfolio that has read the whole log, each event once, holds
\* what the row of the gateway says and has paid what was paid, also where fills
\* were dropped; but for the exceptions that the property names.
THEOREM PortfolioAgrees == Spec => []EngineAgrees
  <1>1. ASSUME PositionsInv, AllConsumed, disturbed = {}, "overwritten" \notin lost
        PROVE  engine.qty = row.qty /\ engine.available = row.cash
    <2>1. LogWhole /\ engine.connects > 0 /\ engine.next > Len(log)
      BY <1>1 DEF AllConsumed
    <2>2. Len(log) = fills /\ fills \in Nat
      BY <1>1, <2>1 DEF LogWhole, Whole, PositionsInv, TypeOK
    <2>3. CASE collector.at # "written"
      <3>1. Announced.n = fills /\ Announced.qty = row.qty /\ Announced.cash = row.cash
        BY <2>3 DEF Announced
      <3>2. PICK held, paid : Accounted(held, paid)
        BY <1>1, <2>1, <3>1 DEF PositionsInv, EngineInv, LogWhole
      <3>3. /\ held[Len(log)] = row.qty /\ paid[Len(log)] = row.cash
            /\ engine.next - 1 \in 0 .. Len(log)
            /\ engine.qty = held[engine.next - 1]
            /\ engine.available = paid[engine.next - 1]
        BY <1>1, <2>1, <3>1, <3>2 DEF Accounted
      <3>4. engine.next \in Nat /\ Len(log) \in Nat
        BY <1>1 DEF PositionsInv, TypeOK, Portfolio
      <3>5. engine.next - 1 = Len(log)
        BY <2>1, <3>3, <3>4
      <3> QED BY <3>3, <3>5
    <2>4. CASE collector.at = "written"
      <3>1. Announced.n = fills - 1 /\ fills > 0
        BY <1>1, <2>4 DEF Announced, PositionsInv, BookingInv
      <3>2. fills \in 1 .. Len(log)
        BY <2>2, <3>1
      <3>3. log[fills].n = fills
        BY <2>1, <2>2, <3>2 DEF LogWhole, Whole
      <3>4. log[fills].n <= fills - 1
        BY <1>1, <3>1, <3>2 DEF PositionsInv, LogInv
      <3> QED BY <2>2, <3>3, <3>4
    <2> QED BY <2>3, <2>4
  <1>2. PositionsInv => EngineAgrees
    BY <1>1 DEF EngineAgrees, Agrees
  <1> QED BY <1>2, PositionsInvariance, PTL

\* domain/position.go: realised and unrealised profit together are what the fills
\* in the row brought in and what is held is worth, through short positions and
\* through zero, in every row that the collector and the pricer write; the
\* average is off by half a unit for each share at each fill.  There has to be a
\* largest quantity for a bound to exist.
THEOREM ProfitConserved ==
  ASSUME NEW most \in Quantities, \A q \in Quantities : q <= most
  PROVE  Spec => []PnlConserved
  <1>1. most \in Nat
    BY Numbers
  <1>2. (CHOOSE q \in Quantities : \A p \in Quantities : p <= q) = most
    <2> DEFINE c == CHOOSE q \in Quantities : \A p \in Quantities : p <= q
    <2>1. c \in Quantities /\ \A p \in Quantities : p <= c
      OBVIOUS
    <2>2. c \in Nat /\ c <= most /\ most <= c
      BY <2>1, Numbers
    <2> HIDE DEF c
    <2>3. c = most
      BY <1>1, <2>2
    <2> QED BY <2>3 DEF c
  <1>3. Init => CostInv(most)
    BY <1>1, PositionsInitial
  <1>4. PositionsInv /\ CostInv(most) /\ [Next]_vars => CostInv(most)'
    <2> SUFFICES ASSUME PositionsInv, CostInv(most), [Next]_vars PROVE CostInv(most)'
      OBVIOUS
    <2>1. CASE Next
      BY <1>1, <2>1, CostPreserved DEF PositionsInv
    <2>2. CASE UNCHANGED vars
      BY <2>2 DEF vars, gateway, CostInv
    <2> QED BY <2>1, <2>2
  <1>5. PositionsInv /\ CostInv(most) => PnlConserved
    <2> SUFFICES ASSUME PositionsInv, CostInv(most) PROVE PnlConserved
      OBVIOUS
    <2>1. /\ row.qty \in Int /\ row.avg \in Int /\ row.realized \in Int /\ row.mark \in Int
          /\ row.cash \in Int
      BY DEF PositionsInv, TypeOK, Rows
    <2>2. row.unrealized = (row.mark - row.avg) * row.qty
          /\ 2 * Abs(Drift(row)) <= row.n * row.n * most
      BY DEF CostInv, Exact
    <2>3. row.realized + row.unrealized - (row.cash + row.qty * row.mark) = Drift(row)
      BY <2>1, <2>2 DEF Drift
    <2> QED BY <1>2, <2>2, <2>3 DEF PnlConserved
  <1> QED BY <1>3, <1>4, <1>5, PositionsInvariance, PTL DEF Spec

-----------------------------------------------------------------------------
\* The router: sets and sequences

\* t has the elements of s at the positions P, in the order of their ranks.
ByRank(t, s, P, rank) ==
  /\ t \in [1 .. Cardinality(P) -> {s[i] : i \in P}]
  /\ \E at \in [1 .. Cardinality(P) -> P] :
       /\ \A k \in 1 .. Cardinality(P) : t[k] = s[at[k]] /\ rank[at[k]] = k
       /\ \A i \in P : at[rank[i]] = i

\* What is arranged by different ranks is every chosen position, each once.
LEMMA ArrangedByRank ==
  ASSUME NEW s, NEW P, IsFiniteSet(P), NEW rank \in Injection(P, 1 .. Cardinality(P))
  PROVE  ByRank(Arranged(s, P, rank), s, P, rank)
  <1> DEFINE n == Cardinality(P)
             at == [k \in 1 .. n |-> CHOOSE i \in P : rank[i] = k]
  <1>0. n \in Nat
    BY FS_CardinalityType
  <1>1. rank \in [P -> 1 .. n] /\ \A i, j \in P : rank[i] = rank[j] => i = j
    BY DEF Injection, IsInjective
  <1>2. rank \in Surjection(P, 1 .. n)
    <2>1. IsFiniteSet(1 .. n) /\ Cardinality(1 .. n) = n
      BY <1>0, FS_Interval
    <2> QED BY <2>1, FS_Injection
  <1>3. \A k \in 1 .. n : \E i \in P : rank[i] = k
    BY <1>2 DEF Surjection
  <1>4. \A k \in 1 .. n : at[k] \in P /\ rank[at[k]] = k
    BY <1>3
  <1>5. at \in [1 .. n -> P]
    BY <1>4
  <1>6. \A i \in P : at[rank[i]] = i
    BY <1>1, <1>4
  <1>7. Arranged(s, P, rank) = [k \in 1 .. n |-> s[at[k]]]
    BY DEF Arranged
  <1> HIDE DEF at, n
  <1>8. /\ Arranged(s, P, rank) \in [1 .. n -> {s[i] : i \in P}]
        /\ \A k \in 1 .. n : Arranged(s, P, rank)[k] = s[at[k]]
    BY <1>5, <1>7
  <1> QED BY <1>4, <1>5, <1>6, <1>8 DEF n, ByRank

\* t has the elements of s at the positions P, in the order they have there.
InOrder(t, s, P) ==
  /\ t \in [1 .. Cardinality(P) -> {s[i] : i \in P}]
  /\ \E at \in [1 .. Cardinality(P) -> P] :
       /\ \A k \in 1 .. Cardinality(P) : t[k] = s[at[k]]
       /\ \A i \in P : \E k \in 1 .. Cardinality(P) : at[k] = i
       /\ \A k, l \in 1 .. Cardinality(P) : k < l => at[k] < at[l]

\* What is kept of a sequence are the chosen positions, in their order.
LEMMA KeptInOrder ==
  ASSUME NEW n \in Nat, NEW s, NEW P \in SUBSET (1 .. n)
  PROVE  /\ Cardinality(P) \in 0 .. n
         /\ P = {} <=> Cardinality(P) = 0
         /\ InOrder(Kept(s, P), s, P)
  <1> DEFINE upTo(i) == {j \in P : j <= i}
             rank == [i \in P |-> Cardinality(upTo(i))]
             m == Cardinality(P)
  <1>0. \A i \in P : i \in Int
    OBVIOUS
  <1>1. IsFiniteSet(P) /\ m \in 0 .. n /\ (P = {} <=> m = 0)
    <2>1. IsFiniteSet(1 .. n) /\ Cardinality(1 .. n) = n
      BY FS_Interval
    <2>2. IsFiniteSet(P) /\ m <= n
      BY <2>1, FS_Subset
    <2>3. m \in Nat /\ (m = 0 <=> P = {})
      <3>1. m \in Nat
        BY <2>2, FS_CardinalityType
      <3>2. Cardinality(P) = 0 <=> P = {}
        BY <2>2, FS_EmptySet
      <3> QED BY <3>1, <3>2
    <2> QED BY <2>2, <2>3
  <1>2. \A i \in P : IsFiniteSet(upTo(i)) /\ rank[i] \in 1 .. m
    <2> TAKE i \in P
    <2>1. upTo(i) \in SUBSET P /\ i \in upTo(i)
      OBVIOUS
    <2>2. IsFiniteSet(upTo(i)) /\ Cardinality(upTo(i)) <= m
      BY <1>1, <2>1, FS_Subset
    <2>3. Cardinality(upTo(i)) \in Nat /\ Cardinality(upTo(i)) # 0
      BY <2>1, <2>2, FS_CardinalityType, FS_EmptySet
    <2> QED BY <1>1, <2>2, <2>3
  <1>3. \A i, j \in P : i < j => rank[i] < rank[j]
    <2> SUFFICES ASSUME NEW i \in P, NEW j \in P, i < j
                 PROVE  Cardinality(upTo(i)) < Cardinality(upTo(j))
      OBVIOUS
    <2>1. upTo(i) \in SUBSET upTo(j) /\ upTo(i) # upTo(j)
      <3>1. i \in Int /\ j \in Int /\ \A k \in P : k \in Int
        OBVIOUS
      <3>2. \A k \in P : k <= i => k <= j
        BY <3>1
      <3>3. j \in upTo(j) /\ j \notin upTo(i)
        BY <3>1
      <3> QED BY <3>2, <3>3
    <2>2. IsFiniteSet(upTo(i)) /\ IsFiniteSet(upTo(j))
      BY <1>2
    <2>3. Cardinality(upTo(i)) \in Nat /\ Cardinality(upTo(j)) \in Nat
      BY <2>2, FS_CardinalityType
    <2> HIDE DEF upTo
    <2>4. Cardinality(upTo(i)) <= Cardinality(upTo(j)) /\ Cardinality(upTo(i)) # Cardinality(upTo(j))
      BY <2>1, <2>2, FS_Subset
    <2> QED BY <2>3, <2>4
  <1>4. rank \in Injection(P, 1 .. m)
    <2>1. rank \in [P -> 1 .. m]
      BY <1>2
    <2>2. \A i, j \in P : rank[i] = rank[j] => i = j
      <3> TAKE i, j \in P
      <3> HIDE DEF rank
      <3>1. i \in Int /\ j \in Int /\ rank[i] \in Int /\ rank[j] \in Int
        BY <2>1, <1>1
      <3> QED BY <3>1, <1>3
    <2> HIDE DEF rank, m
    <2> QED BY <2>1, <2>2 DEF Injection, IsInjective
  <1>5. Kept(s, P) = Arranged(s, P, rank)
    BY DEF Kept
  <1> HIDE DEF rank
  <1>6. ByRank(Kept(s, P), s, P, rank)
    BY <1>1, <1>4, <1>5, ArrangedByRank
  <1>7. PICK at \in [1 .. m -> P] :
             /\ \A k \in 1 .. m : Kept(s, P)[k] = s[at[k]] /\ rank[at[k]] = k
             /\ \A i \in P : at[rank[i]] = i
    BY <1>6 DEF ByRank
  <1>9. \A i \in P : \E k \in 1 .. m : at[k] = i
    BY <1>2, <1>7
  <1>8. \A k, l \in 1 .. m : k < l => at[k] < at[l]
    <2> SUFFICES ASSUME NEW k \in 1 .. m, NEW l \in 1 .. m, k < l, ~(at[k] < at[l])
                 PROVE  FALSE
      OBVIOUS
    <2>1. at[k] \in P /\ at[l] \in P /\ at[k] \in Int /\ at[l] \in Int
      BY <1>0, <1>7
    <2>2. rank[at[k]] = k /\ rank[at[l]] = l
      BY <1>7
    <2>3. at[l] = at[k] \/ at[l] < at[k]
      BY <2>1
    <2>4. k \in Int /\ l \in Int
      BY <1>1
    <2> QED BY <1>3, <2>1, <2>2, <2>3, <2>4
  <1>10. InOrder(Kept(s, P), s, P)
    BY <1>6, <1>7, <1>8, <1>9 DEF ByRank, InOrder
  <1> QED BY <1>1, <1>10

-----------------------------------------------------------------------------
\* Sorting

\* A strict weak order, a set of pairs, on S.
StrictWeak(less, S) ==
  \A x, y, z \in S :
    /\ <<x, x>> \notin less
    /\ <<x, y>> \in less /\ <<y, z>> \in less => <<x, z>> \in less
    /\ <<x, z>> \in less => <<x, y>> \in less \/ <<y, z>> \in less

\* t has the elements of s, each as often, and none before a lesser one.
SortOf(t, s, n, less) ==
  /\ t \in [1 .. n -> {s[i] : i \in 1 .. n}]
  /\ \E at \in [1 .. n -> 1 .. n] :
       /\ \A k \in 1 .. n : t[k] = s[at[k]]
       /\ \A i \in 1 .. n : \E k \in 1 .. n : at[k] = i
       /\ \A k, l \in 1 .. n : at[k] = at[l] => k = l
  /\ \A k, l \in 1 .. n : k < l => <<t[l], t[k]>> \notin less

\* The router's stable sort sorts: the positions that go before one are fewer
\* than those that go before a later one.
LEMMA SortedSorts ==
  ASSUME NEW n \in Nat, NEW S, NEW s \in [1 .. n -> S], NEW less, StrictWeak(less, S)
  PROVE  SortOf(Sorted(s, less), s, n, less)
  <1> DEFINE P == 1 .. n
             Goes(j, i) == <<s[j], s[i]>> \in less \/ (j < i /\ <<s[i], s[j]>> \notin less)
             before(i) == {j \in P : Goes(j, i)}
             rank == [i \in P |-> Cardinality(before(i)) + 1]
  <1>1. IsFiniteSet(P) /\ Cardinality(P) = n
    BY FS_Interval
  <1>2. \A i, j \in P : i # j => Goes(i, j) \/ Goes(j, i)
    OBVIOUS
  <1>3. \A i \in P : ~Goes(i, i)
    BY DEF StrictWeak
  <1>4. \A i, j, k \in P : Goes(i, j) /\ Goes(j, k) => Goes(i, k)
    <2> TAKE i, j, k \in P
    <2>1. s[i] \in S /\ s[j] \in S /\ s[k] \in S
      OBVIOUS
    <2>2. /\ <<s[i], s[j]>> \in less /\ <<s[j], s[k]>> \in less => <<s[i], s[k]>> \in less
          /\ <<s[i], s[j]>> \in less => <<s[i], s[k]>> \in less \/ <<s[k], s[j]>> \in less
          /\ <<s[j], s[k]>> \in less => <<s[j], s[i]>> \in less \/ <<s[i], s[k]>> \in less
          /\ <<s[k], s[i]>> \in less => <<s[k], s[j]>> \in less \/ <<s[j], s[i]>> \in less
      BY <2>1 DEF StrictWeak
    <2>3. i < j /\ j < k => i < k
      OBVIOUS
    <2> QED BY <2>2, <2>3, Zenon
  <1>5. \A i \in P : /\ IsFiniteSet(before(i))
                     /\ Cardinality(before(i)) \in 0 .. n - 1
    <2> TAKE i \in P
    <2>1. before(i) \in SUBSET (P \ {i})
      BY <1>3
    <2>2. IsFiniteSet(P \ {i}) /\ Cardinality(P \ {i}) = n - 1
      BY <1>1, FS_RemoveElement
    <2> HIDE DEF before
    <2>3. IsFiniteSet(before(i)) /\ Cardinality(before(i)) <= n - 1
      BY <2>1, <2>2, FS_Subset
    <2> QED BY <2>3, FS_CardinalityType
  <1>6. \A i, j \in P : Goes(i, j) => Cardinality(before(i)) < Cardinality(before(j))
    <2> SUFFICES ASSUME NEW i \in P, NEW j \in P, Goes(i, j)
                 PROVE  Cardinality(before(i)) < Cardinality(before(j))
      OBVIOUS
    <2> HIDE DEF Goes
    <2>1. before(i) \in SUBSET before(j) /\ before(i) # before(j)
      <3>1. \A k \in P : Goes(k, i) => Goes(k, j)
        BY <1>4
      <3>2. i \in before(j) /\ i \notin before(i)
        BY <1>3
      <3> QED BY <3>1, <3>2
    <2> HIDE DEF before
    <2>2. Cardinality(before(i)) <= Cardinality(before(j)) /\ Cardinality(before(i)) # Cardinality(before(j))
      BY <1>5, <2>1, FS_Subset
    <2> QED BY <1>5, <2>2
  <1> HIDE DEF Goes
  <1>7. rank \in Injection(P, 1 .. n)
    <2>1. rank \in [P -> 1 .. n]
      <3> HIDE DEF before
      <3>1. \A i \in P : Cardinality(before(i)) + 1 \in 1 .. n
        BY <1>5
      <3> HIDE DEF P
      <3> QED BY <3>1
    <2>2. \A i, j \in P : rank[i] = rank[j] => i = j
      <3> SUFFICES ASSUME NEW i \in P, NEW j \in P, rank[i] = rank[j], i # j
                   PROVE  FALSE
        OBVIOUS
      <3> HIDE DEF before
      <3>1. Cardinality(before(i)) = Cardinality(before(j))
        <4>1. rank[i] = Cardinality(before(i)) + 1 /\ rank[j] = Cardinality(before(j)) + 1
          OBVIOUS
        <4>2. Cardinality(before(i)) \in Int /\ Cardinality(before(j)) \in Int
          BY <1>5
        <4>3. \A x, y \in Int : x + 1 = y + 1 => x = y
          OBVIOUS
        <4> HIDE DEF rank
        <4> QED BY <4>1, <4>2, <4>3, Zenon
      <3> HIDE DEF rank
      <3>2. /\ ~(Cardinality(before(i)) < Cardinality(before(j)))
            /\ ~(Cardinality(before(j)) < Cardinality(before(i)))
        BY <1>5, <3>1
      <3> QED BY <1>2, <1>6, <3>2
    <2> HIDE DEF rank
    <2> QED BY <2>1, <2>2 DEF Injection, IsInjective
  <1>8. Sorted(s, less) = Arranged(s, P, rank)
    <2>1. DOMAIN s = P
      OBVIOUS
    <2>2. \A i \in P : Before(s, less, i) = before(i)
      BY <2>1 DEF Before, Goes
    <2> HIDE DEF before, P
    <2> QED BY <2>1, <2>2 DEF Sorted
  <1> DEFINE t == Sorted(s, less)
  <1>9. \A i, j \in P : Goes(i, j) => rank[i] < rank[j]
    <2> HIDE DEF before, P
    <2>1. \A i \in P : rank[i] = Cardinality(before(i)) + 1 /\ Cardinality(before(i)) \in Int
      BY <1>5
    <2> HIDE DEF rank
    <2> QED BY <1>6, <2>1
  <1>10. rank \in [P -> 1 .. n] /\ \A i, j \in P : rank[i] = rank[j] => i = j
    BY <1>7 DEF Injection, IsInjective
  <1> HIDE DEF rank, before
  <1>11. ByRank(t, s, P, rank)
    BY <1>1, <1>7, <1>8, ArrangedByRank
  <1> HIDE DEF t
  <1>12. PICK at \in [P -> P] :
           /\ \A k \in P : t[k] = s[at[k]] /\ rank[at[k]] = k
           /\ \A i \in P : at[rank[i]] = i
    BY <1>1, <1>11 DEF ByRank
  <1>13. \A i \in P : \E k \in P : at[k] = i
    BY <1>10, <1>12
  <1>14. \A k, l \in P : at[k] = at[l] => k = l
    BY <1>12
  <1>15. \A k, l \in P : k < l => <<t[l], t[k]>> \notin less
    <2> SUFFICES ASSUME NEW k \in P, NEW l \in P, k < l, <<t[l], t[k]>> \in less
                 PROVE  FALSE
      OBVIOUS
    <2>1. at[k] \in P /\ at[l] \in P /\ t[k] = s[at[k]] /\ t[l] = s[at[l]]
          /\ rank[at[k]] = k /\ rank[at[l]] = l
      BY <1>12
    <2>2. Goes(at[l], at[k])
      BY <2>1 DEF Goes
    <2>3. rank[at[l]] < rank[at[k]]
      BY <1>9, <2>1, <2>2
    <2> QED BY <2>1, <2>3
  <1>16. t \in [P -> {s[i] : i \in P}]
    BY <1>1, <1>11 DEF ByRank
  <1> QED BY <1>12, <1>13, <1>14, <1>15, <1>16 DEF SortOf, t

-----------------------------------------------------------------------------
\* Sequences

\* A function from 1 .. n is a sequence of length n.
LEMMA IsSequence ==
  ASSUME NEW n \in Nat, NEW S, NEW s \in [1 .. n -> S]
  PROVE  /\ s \in Seq(S) /\ Len(s) = n /\ DOMAIN s = 1 .. n
         /\ s = <<>> <=> n = 0
  <1>1. s \in Seq(S)
    BY SeqDef
  <1>2. Len(s) \in Nat /\ DOMAIN s = 1 .. Len(s)
    BY <1>1, LenProperties
  <1>3. Len(s) = n
    <2>1. 1 .. Len(s) = 1 .. n
      BY <1>2
    <2>2. \A m \in Nat : Cardinality(1 .. m) = m
      BY FS_Interval
    <2>3. Cardinality(1 .. n) = n /\ Cardinality(1 .. Len(s)) = Len(s)
      BY <1>2, <2>2
    <2> QED BY <2>1, <2>3, Zenon
  <1>4. s = <<>> => n = 0
    BY <1>3, EmptySeq
  <1>5. n = 0 => s = <<>>
    BY <1>1, <1>3, EmptySeq
  <1> QED BY <1>1, <1>3, <1>4, <1>5

\* The elements of a sequence without repetition are as many as it is long.
LEMMA DistinctCount ==
  ASSUME NEW n \in Nat, NEW T, NEW s \in [1 .. n -> T],
         \A i, j \in 1 .. n : s[i] = s[j] => i = j,
         \A x \in T : \E i \in 1 .. n : s[i] = x
  PROVE  Cardinality(T) = n
  <1>1. s \in Injection(1 .. n, T)
    BY DEF Injection, IsInjective
  <1>2. s \in Surjection(1 .. n, T)
    BY DEF Surjection
  <1>3. ExistsBijection(1 .. n, T)
    BY <1>1, <1>2 DEF ExistsBijection, Bijection
  <1> QED BY <1>3, FS_CountingElements

\* What the router takes for the elements of a sequence.
LEMMA RouterToSet ==
  ASSUME NEW n \in Nat, NEW S, NEW s \in [1 .. n -> S]
  PROVE  ToSet(s) = {s[i] : i \in 1 .. n}
  BY DEF ToSet

\* A list of n different venues.
Different(l, n) ==
  /\ l \in [1 .. n -> Venues]
  /\ \A i, j \in 1 .. n : l[i] = l[j] => i = j

\* What the model enumerates as lists are such.
LEMMA ListsAreDifferent ==
  ASSUME NEW l \in Lists
  PROVE  \E n \in Nat : n <= Cardinality(Venues) /\ Different(l, n)
  <1>0. Cardinality(Venues) \in Nat
    BY RoutingAssumption, FS_CardinalityType
  <1>1. PICK n \in 0 .. Cardinality(Venues) : l \in [1 .. n -> Venues]
    BY DEF Lists
  <1>2. n \in Nat /\ n <= Cardinality(Venues)
    BY <1>0
  <1>3. \A i, j \in 1 .. n : l[i] = l[j] => i = j
    BY <1>1 DEF Lists
  <1> QED BY <1>1, <1>2, <1>3 DEF Different

-----------------------------------------------------------------------------
\* Decisions

Offers == [bid : Nat, ask : Nat, depth : Nat, latency : Nat, fillRate : Nat]

\* The three comparisons of the code are the order by cost, latency, fill rate.
LEMMA BetterBeats ==
  ASSUME NEW side, NEW p \in Offers, NEW q \in Offers
  PROVE  Better(side, p, q) <=> Beats(side, p, q)
  BY DEF Better, Beats, Cheaper, Offers

\* It is a strict weak order.
LEMMA BeatsOrders ==
  ASSUME NEW side, NEW p \in Offers, NEW q \in Offers, NEW r \in Offers
  PROVE  /\ ~Beats(side, p, p)
         /\ Beats(side, p, q) /\ Beats(side, q, r) => Beats(side, p, r)
         /\ Beats(side, p, r) => Beats(side, p, q) \/ Beats(side, q, r)
  BY DEF Beats, Offers

\* A decision about order among the venues S: to each at most once, to one that
\* no other beats first, and whoever is alone takes all or is all there is.
Decided(a, order, S, quote) ==
  /\ a # <<>>
  /\ VenuesOf(a) \subseteq S
  /\ Cardinality(VenuesOf(a)) = Len(a)
  /\ \A v \in S : ~Beats(order.side, quote[v], quote[a[1].venue])
  /\ Len(a) = 1 => a[1].qty = order.qty \/ Cardinality(S) = 1

\* A ranking that starts with a venue no other beats makes such a decision.
LEMMA ByDepthDecides ==
  ASSUME NEW n \in Nat \ {0}, NEW r, Different(r, n), NEW S, S = {r[k] : k \in 1 .. n},
         NEW order, NEW quote,
         \A v \in S : ~Beats(order.side, quote[v], quote[r[1]])
  PROVE  Decided(ByDepth(order, r, quote), order, S, quote)
  <1> DEFINE a == ByDepth(order, r, quote)
             all == Allocate(r[1], order.qty)
             each == [k \in 1 .. n |-> Allocate(r[k], quote[r[k]].depth)]
  <1>0. r \in [1 .. n -> Venues] /\ 1 \in 1 .. n /\ n \in Nat /\ DOMAIN r = 1 .. n
    BY DEF Different
  <1>1. CASE quote[r[1]].depth >= order.qty
    <2>1. a = <<all>>
      BY <1>1 DEF ByDepth
    <2>2. all.venue = r[1] /\ all.qty = order.qty
      BY DEF Allocate
    <2> HIDE DEF all
    <2>3. a # <<>> /\ Len(a) = 1 /\ a[1] = all /\ DOMAIN a = {1}
      BY <2>1
    <2> HIDE DEF a
    <2>4. VenuesOf(a) = {r[1]}
      BY <2>2, <2>3 DEF VenuesOf
    <2>5. Cardinality({r[1]}) = 1
      BY FS_Singleton
    <2> QED BY <1>0, <2>2, <2>3, <2>4, <2>5 DEF Decided, a
  <1>2. CASE ~(quote[r[1]].depth >= order.qty)
    <2>1. a = each
      BY <1>0, <1>2 DEF ByDepth
    <2> HIDE DEF a
    <2>2. \A k \in 1 .. n : a[k].venue = r[k]
      BY <2>1 DEF Allocate
    <2>3. DOMAIN a = 1 .. n /\ Len(a) = n /\ a # <<>>
      <3> DEFINE T == {Allocate(r[k], quote[r[k]].depth) : k \in 1 .. n}
      <3>1. each \in [1 .. n -> T]
        OBVIOUS
      <3> HIDE DEF each, T
      <3> QED BY <1>0, <2>1, <3>1, IsSequence
    <2>4. VenuesOf(a) = S
      BY <2>2, <2>3 DEF VenuesOf
    <2>5. Cardinality(S) = n
      <3>1. \A i, j \in 1 .. n : r[i] = r[j] => i = j
        BY DEF Different
      <3>2. r \in [1 .. n -> S] /\ \A x \in S : \E k \in 1 .. n : r[k] = x
        BY <1>0
      <3> QED BY <1>0, <3>1, <3>2, DistinctCount
    <2>6. a[1].venue = r[1]
      BY <1>0, <2>2
    <2> HIDE DEF each
    <2> QED BY <2>3, <2>4, <2>5, <2>6 DEF Decided, a
  <1> QED BY <1>1, <1>2

\* The best price decides.
LEMMA BestPriceDecides ==
  ASSUME NEW n \in Nat \ {0}, NEW l, Different(l, n), NEW S, S = {l[k] : k \in 1 .. n},
         NEW order, NEW quote \in [S -> Quotes]
  PROVE  Decided(BestPrice(order, l, quote), order, S, quote)
  <1> DEFINE less == {p \in S \X S : Better(order.side, quote[p[1]], quote[p[2]])}
             r == Sorted(l, less)
  <1>0. n \in Nat /\ l \in [1 .. n -> S] /\ S \subseteq Venues /\ 1 \in 1 .. n
    BY DEF Different
  <1>1. \A v \in S : quote[v] \in Offers
    BY RoutingAssumption DEF Offers
  <1>2. \A u, v \in S : <<u, v>> \in less <=> Beats(order.side, quote[u], quote[v])
    BY <1>1, BetterBeats
  <1> HIDE DEF less
  <1>3. StrictWeak(less, S)
    <2>1. ASSUME NEW x \in S, NEW y \in S, NEW z \in S
          PROVE  /\ <<x, x>> \notin less
                 /\ <<x, y>> \in less /\ <<y, z>> \in less => <<x, z>> \in less
                 /\ <<x, z>> \in less => <<x, y>> \in less \/ <<y, z>> \in less
      <3>1. quote[x] \in Offers /\ quote[y] \in Offers /\ quote[z] \in Offers
        BY <1>1
      <3> QED BY <1>2, <3>1, BeatsOrders
    <2> QED BY <2>1 DEF StrictWeak
  <1>4. SortOf(r, l, n, less)
    BY <1>0, <1>3, SortedSorts
  <1>5. BestPrice(order, l, quote) = ByDepth(order, r, quote)
    <2>1. ToSet(l) = S
      BY <1>0, RouterToSet
    <2> QED BY <2>1 DEF BestPrice, less
  <1> HIDE DEF r
  <1>6. PICK at \in [1 .. n -> 1 .. n] :
           /\ \A k \in 1 .. n : r[k] = l[at[k]]
           /\ \A i \in 1 .. n : \E k \in 1 .. n : at[k] = i
           /\ \A j, k \in 1 .. n : at[j] = at[k] => j = k
    BY <1>4 DEF SortOf
  <1>7. r \in [1 .. n -> S]
    BY <1>4 DEF SortOf
  <1>8. S = {r[k] : k \in 1 .. n}
    <2>1. \A k \in 1 .. n : r[k] \in S
      BY <1>7
    <2>2. \A i \in 1 .. n : \E k \in 1 .. n : l[i] = r[k]
      <3> TAKE i \in 1 .. n
      <3>1. PICK k \in 1 .. n : at[k] = i
        BY <1>6
      <3> QED BY <1>6, <3>1
    <2>3. \A v \in S : \E k \in 1 .. n : v = r[k]
      <3> TAKE v \in S
      <3>1. PICK i \in 1 .. n : v = l[i]
        OBVIOUS
      <3> QED BY <2>2, <3>1
    <2> HIDE DEF less
    <2> QED BY <2>1, <2>3
  <1>9. Different(r, n)
    <2>1. ASSUME NEW j \in 1 .. n, NEW k \in 1 .. n, r[j] = r[k]
          PROVE  j = k
      <3>1. at[j] \in 1 .. n /\ at[k] \in 1 .. n /\ l[at[j]] = l[at[k]]
        BY <1>6, <2>1
      <3>2. at[j] = at[k]
        BY <3>1 DEF Different
      <3> QED BY <1>6, <3>2
    <2>2. r \in [1 .. n -> Venues]
      BY <1>0, <1>7
    <2> QED BY <2>1, <2>2 DEF Different
  <1>10. \A v \in S : ~Beats(order.side, quote[v], quote[r[1]])
    <2> SUFFICES ASSUME NEW k \in 1 .. n
                 PROVE  ~Beats(order.side, quote[r[k]], quote[r[1]])
      BY <1>8
    <2>1. r[k] \in S /\ r[1] \in S
      BY <1>0, <1>7
    <2>2. k = 1 \/ 1 < k
      OBVIOUS
    <2>3. <<r[k], r[1]>> \notin less
      BY <1>0, <1>3, <1>4, <2>1, <2>2 DEF SortOf, StrictWeak
    <2> QED BY <1>2, <2>1, <2>3
  <1>11. Decided(ByDepth(order, r, quote), order, S, quote)
    BY <1>8, <1>9, <1>10, ByDepthDecides
  <1> QED BY <1>5, <1>11

\* The allocations a are to the venues r.
Follows(a, r, n) == DOMAIN a = 1 .. n /\ \A k \in 1 .. n : a[k].venue = r[k]

\* Whoever is given the depth it offers is in the ranking, and so is whoever is
\* alone.
LEMMA ByDepthAmong ==
  ASSUME NEW n \in Nat \ {0}, NEW S, NEW r \in [1 .. n -> S], NEW order, NEW quote,
         NEW a, a = ByDepth(order, r, quote) \/ Follows(a, r, n)
  PROVE  a # <<>> /\ VenuesOf(a) \subseteq S
  <1> DEFINE each == [k \in 1 .. n |-> Allocate(r[k], quote[r[k]].depth)]
             all == Allocate(r[1], order.qty)
  <1>0. 1 \in 1 .. n /\ n \in Nat /\ DOMAIN r = 1 .. n
    OBVIOUS
  <1>1. CASE a = <<all>>
    <2>1. all.venue = r[1] /\ r[1] \in S
      BY <1>0 DEF Allocate
    <2> HIDE DEF all
    <2>2. a # <<>> /\ a[1] = all /\ DOMAIN a = {1}
      BY <1>1
    <2> QED BY <2>1, <2>2 DEF VenuesOf
  <1>2. CASE Follows(a, r, n)
    <2>1. VenuesOf(a) \subseteq S
      BY <1>2 DEF VenuesOf, Follows
    <2>2. a # <<>>
      BY <1>0, <1>2 DEF Follows
    <2> QED BY <2>1, <2>2
  <1>3. CASE a = each
    <2>1. \A k \in 1 .. n : each[k].venue = r[k]
      BY DEF Allocate
    <2>2. DOMAIN each = 1 .. n
      OBVIOUS
    <2> HIDE DEF each
    <2>3. Follows(a, r, n)
      BY <1>3, <2>1, <2>2 DEF Follows
    <2> QED BY <1>2, <2>3
  <1>4. a = <<all>> \/ a = each \/ Follows(a, r, n)
    BY <1>0 DEF ByDepth
  <1> QED BY <1>1, <1>2, <1>3, <1>4

\* What is said of a strategy's answer when there are candidates S.
Sound(a, by, order, S, quote, named) ==
  LET scored == by = "ml-scored" /\ named
      preferred == by = "venue-preference" /\ order.venue \in S
  IN /\ a # <<>>
     /\ VenuesOf(a) \subseteq S
     /\ preferred => a = <<Allocate(order.venue, order.qty)>>
     /\ ~scored /\ ~preferred => Decided(a, order, S, quote)

\* The strategy by price decides by price.
LEMMA BestPriceSound ==
  ASSUME NEW n \in Nat \ {0}, NEW l, Different(l, n), NEW S, S = {l[k] : k \in 1 .. n},
         NEW order, NEW quote \in [S -> Quotes], NEW scores, NEW named
  PROVE  Sound(Evaluate("best-price", order, l, quote, scores),
               "best-price", order, S, quote, named)
  <1> DEFINE a == Evaluate("best-price", order, l, quote, scores)
  <1>1. a = BestPrice(order, l, quote)
    BY DEF Evaluate
  <1>2. Decided(a, order, S, quote)
    BY <1>1, BestPriceDecides
  <1> HIDE DEF a
  <1> QED BY <1>2 DEF Sound, Decided, a

\* The strategy with a preferred venue: that venue takes all, or price decides.
LEMMA VenuePreferenceSound ==
  ASSUME NEW n \in Nat \ {0}, NEW l, Different(l, n), NEW S, S = {l[k] : k \in 1 .. n},
         NEW order, NEW quote \in [S -> Quotes], NEW scores, NEW named
  PROVE  Sound(Evaluate("venue-preference", order, l, quote, scores),
               "venue-preference", order, S, quote, named)
  <1> DEFINE a == Evaluate("venue-preference", order, l, quote, scores)
  <1>0. ToSet(l) = S
    BY DEF ToSet, Different
  <1>1. a = VenuePreference(order, l, quote)
    BY DEF Evaluate
  <1> HIDE DEF a
  <1>2. CASE order.venue \in S
    <2> DEFINE all == Allocate(order.venue, order.qty)
    <2>1. a = <<all>> /\ all.venue = order.venue
      BY <1>0, <1>1, <1>2 DEF VenuePreference, Allocate
    <2> HIDE DEF all
    <2>2. a # <<>> /\ a[1] = all /\ DOMAIN a = {1}
      BY <2>1
    <2>3. VenuesOf(a) = {order.venue}
      BY <2>1, <2>2 DEF VenuesOf
    <2> QED BY <1>2, <2>1, <2>2, <2>3 DEF Sound, a, all
  <1>3. CASE order.venue \notin S
    <2>1. a = BestPrice(order, l, quote)
      BY <1>0, <1>1, <1>3 DEF VenuePreference
    <2>2. Decided(a, order, S, quote)
      BY <2>1, BestPriceDecides
    <2> QED BY <1>3, <2>2 DEF Sound, Decided, a
  <1> QED BY <1>2, <1>3

\* What the sidecar answers is a sequence of venues.
LEMMA ScoresAreLists ==
  ASSUME NEW scores \in Scores
  PROVE  \E m \in Nat : scores \in [1 .. m -> Venues]
  <1>1. CASE scores = <<>>
    <2>1. scores \in [1 .. 0 -> Venues]
      BY <1>1
    <2> QED BY <2>1
  <1>2. ASSUME NEW v \in Venues, scores = <<v>>
        PROVE  scores \in [1 .. 1 -> Venues]
    BY <1>2
  <1>3. ASSUME NEW u \in Venues, NEW v \in Venues, scores = <<u, v>>
        PROVE  scores \in [1 .. 2 -> Venues]
    BY <1>3
  <1>4. \/ scores = <<>> \/ \E v \in Venues : scores = <<v>>
        \/ \E u, v \in Venues : scores = <<u, v>>
    BY DEF Scores, Error
  <1> QED BY <1>1, <1>2, <1>3, <1>4

\* The strategy by scores: candidates only, and price decides without a score.
LEMMA MLScoredSound ==
  ASSUME NEW n \in Nat \ {0}, NEW l, Different(l, n), NEW S, S = {l[k] : k \in 1 .. n},
         NEW order, NEW quote \in [S -> Quotes], NEW scores \in Scores
  PROVE  Sound(Evaluate("ml-scored", order, l, quote, scores),
               "ml-scored", order, S, quote, ToSet(scores) \cap S # {})
  <1> DEFINE a == Evaluate("ml-scored", order, l, quote, scores)
  <1>0. ToSet(l) = S
    BY DEF ToSet, Different
  <1>1. PICK m \in Nat : scores \in [1 .. m -> Venues]
    BY ScoresAreLists
  <1>2. ToSet(scores) = {scores[k] : k \in 1 .. m} /\ DOMAIN scores = 1 .. m
    BY <1>1 DEF ToSet
  <1> DEFINE P == {k \in 1 .. m : scores[k] \in S}
             known == Kept(scores, P)
             c == Cardinality(P)
  <1>3. a = MLScored(order, l, quote, scores)
    BY DEF Evaluate
  <1> HIDE DEF a
  <1>4. a = IF known = <<>> THEN BestPrice(order, l, quote)
            ELSE IF known[1] = scores[1] THEN ByDepth(order, known, quote)
            ELSE [k \in DOMAIN known |-> Allocate(known[k], quote[known[k]].depth)]
    BY <1>0, <1>2, <1>3 DEF MLScored
  <1>5. P \in SUBSET (1 .. m) /\ (ToSet(scores) \cap S # {} <=> P # {})
    <2>1. P # {} => ToSet(scores) \cap S # {}
      BY <1>2
    <2>2. ASSUME NEW v \in ToSet(scores) \cap S
          PROVE  P # {}
      <3>1. PICK k \in 1 .. m : v = scores[k]
        BY <1>2
      <3> QED BY <3>1
    <2> QED BY <2>1, <2>2
  <1>6. c \in Nat /\ (c = 0 <=> P = {}) /\ known \in [1 .. c -> {scores[k] : k \in P}]
    <2> HIDE DEF P
    <2>1. c \in 0 .. m /\ (c = 0 <=> P = {}) /\ InOrder(known, scores, P)
      BY <1>1, <1>5, KeptInOrder
    <2> QED BY <2>1 DEF InOrder
  <1>7. known \in [1 .. c -> S]
    <2>1. {scores[k] : k \in P} \subseteq S
      OBVIOUS
    <2> HIDE DEF P, known, c
    <2> QED BY <1>6, <2>1
  <1> HIDE DEF known, c
  <1>8. known = <<>> <=> P = {}
    BY <1>6, <1>7, IsSequence
  <1> HIDE DEF P
  <1>9. CASE P = {}
    <2>1. Decided(a, order, S, quote)
      BY <1>4, <1>8, <1>9, BestPriceDecides
    <2> QED BY <1>5, <1>9, <2>1 DEF Sound, Decided, a
  <1>10. CASE P # {}
    <2>1. a # <<>> /\ VenuesOf(a) \subseteq S
      <3>1. c \in Nat \ {0} /\ known \in [1 .. c -> S] /\ known # <<>>
        BY <1>6, <1>7, <1>8, <1>10
      <3>2. a = ByDepth(order, known, quote) \/ Follows(a, known, c)
        BY <1>4, <3>1 DEF Allocate, Follows
      <3> QED BY <3>1, <3>2, ByDepthAmong
    <2> QED BY <1>5, <1>10, <2>1 DEF Sound, a
  <1> QED BY <1>9, <1>10

-----------------------------------------------------------------------------
\* The router's answers

\* The registry: there is a default as soon as there is a strategy.
Registry ==
  /\ strategies \subseteq Strategies
  /\ default \in strategies \cup {None}
  /\ default = None => strategies = {}

\* DecisionsSound of one question q and its answer.
RouteSound(q, d) ==
  LET a == q.answer
      candidates == ToSet(q.candidates)
      scored == q.by = "ml-scored" /\ ToSet(q.scores) \cap candidates # {}
      preferred == q.by = "venue-preference" /\ q.order.venue \in candidates
  IN /\ a = Error <=> candidates = {} \/ d = None
     /\ VenuesOf(a) \subseteq candidates
     /\ ~scored => Cardinality(VenuesOf(a)) = Len(a)
     /\ preferred => a = <<Allocate(q.order.venue, q.order.qty)>>
     /\ a # Error /\ ~scored /\ ~preferred =>
          /\ \A v \in candidates :
               ~Beats(q.order.side, q.quote[v], q.quote[a[1].venue])
          /\ Len(a) = 1 => a[1].qty = q.order.qty \/ Cardinality(candidates) = 1

CompareSound(q) ==
  LET a == q.answer IN
  /\ ToSet(a) = q.fresh /\ Len(a) = Cardinality(q.fresh)
  /\ \A i, j \in DOMAIN a :
       i < j => IF q.side = "buy" THEN q.quote[a[i]].ask <= q.quote[a[j]].ask
                ELSE q.quote[a[i]].bid >= q.quote[a[j]].bid

\* The invariant, in these terms.
LEMMA DecisionsOfAnswers ==
  /\ DecisionsSound <=> /\ asked.call = "route" => RouteSound(asked, default)
                        /\ asked.call = "compare" => CompareSound(asked)
  /\ DecisionsSound' <=> /\ asked'.call = "route" => RouteSound(asked', default')
                         /\ asked'.call = "compare" => CompareSound(asked')
  BY DEF DecisionsSound, RouteSound, CompareSound

\* Every strategy decides soundly.
LEMMA EvaluateSound ==
  ASSUME NEW n \in Nat \ {0}, NEW l, Different(l, n), NEW S, S = {l[k] : k \in 1 .. n},
         NEW order, NEW quote \in [S -> Quotes], NEW scores \in Scores,
         NEW by \in Strategies
  PROVE  Sound(Evaluate(by, order, l, quote, scores), by, order, S, quote,
               ToSet(scores) \cap S # {})
  <1>1. CASE by = "best-price"
    BY <1>1, BestPriceSound
  <1>2. CASE by = "venue-preference"
    BY <1>2, VenuePreferenceSound
  <1>3. CASE by = "ml-scored"
    BY <1>3, MLScoredSound
  <1> QED BY <1>1, <1>2, <1>3 DEF Strategies

\* The answer to a call of Route is sound, whichever strategy gives it.
LEMMA RouteAnswers ==
  ASSUME Registry,
         NEW name, NEW order, NEW l \in Lists,
         NEW quote \in [ToSet(l) -> Quotes], NEW scores \in Scores,
         Route(name, order, l, quote, scores)
  PROVE  RouteSound(asked', default)
  <1> DEFINE by == Resolve(name)
             a == IF l = <<>> \/ default = None THEN Error
                  ELSE Evaluate(by, order, l, quote, scores)
             S == ToSet(l)
  <1>1. /\ asked'.order = order /\ asked'.candidates = l /\ asked'.quote = quote
        /\ asked'.scores = scores /\ asked'.by = by /\ asked'.answer = a
    BY DEF Route
  <1>2. PICK n \in Nat : Different(l, n)
    BY ListsAreDifferent
  <1>3. S = {l[k] : k \in 1 .. n}
    BY <1>2 DEF Different, ToSet
  <1>4. l = <<>> <=> n = 0
    BY <1>2, IsSequence DEF Different
  <1>5. S = {} <=> n = 0
    BY <1>3
  <1>6. Error = <<>>
    BY DEF Error
  <1>7. CASE n = 0 \/ default = None
    <2>1. a = <<>>
      BY <1>4, <1>6, <1>7
    <2>2. VenuesOf(a) = {} /\ Len(a) = 0
      BY <2>1 DEF VenuesOf
    <2>3. Cardinality({}) = 0
      BY FS_EmptySet
    <2>4. by = "venue-preference" => n = 0
      BY <1>7 DEF Registry, Resolve, None
    <2> HIDE DEF a, S, by
    <2> QED BY <1>1, <1>5, <1>6, <1>7, <2>1, <2>2, <2>3, <2>4 DEF RouteSound, S
  <1>8. CASE n # 0 /\ default # None
    <2>1. by \in Strategies
      BY <1>8 DEF Registry, Resolve
    <2>2. a = Evaluate(by, order, l, quote, scores)
      BY <1>4, <1>8
    <2>3. Sound(a, by, order, S, quote, ToSet(scores) \cap S # {})
      <3> HIDE DEF S, by, a
      <3> QED BY <1>2, <1>3, <1>8, <2>1, <2>2, EvaluateSound DEF S
    <2> HIDE DEF a, S, by
    <2>4. CASE by = "venue-preference" /\ order.venue \in S
      <3> DEFINE all == Allocate(order.venue, order.qty)
      <3>1. a = <<all>> /\ all.venue = order.venue
        BY <2>3, <2>4 DEF Sound, Allocate
      <3> HIDE DEF all
      <3>2. a # <<>> /\ a[1] = all /\ DOMAIN a = {1} /\ Len(a) = 1
        BY <3>1
      <3>3. VenuesOf(a) = {order.venue}
        BY <3>1, <3>2 DEF VenuesOf
      <3>4. Cardinality({order.venue}) = 1
        BY FS_Singleton
      <3> QED BY <1>1, <1>5, <1>6, <1>8, <2>4, <3>1, <3>2, <3>3, <3>4 DEF RouteSound, S, all
    <2>5. CASE ~(by = "venue-preference" /\ order.venue \in S)
      <3>1. a # <<>> /\ VenuesOf(a) \subseteq S
        BY <2>3 DEF Sound
      <3>2. ~(by = "ml-scored" /\ ToSet(scores) \cap S # {})
              => Decided(a, order, S, quote)
        BY <2>3, <2>5 DEF Sound
      <3> QED BY <1>1, <1>5, <1>6, <1>8, <2>5, <3>1, <3>2 DEF RouteSound, Decided, S
    <2> QED BY <2>4, <2>5
  <1> QED BY <1>7, <1>8

\* The comparator keeps the fresh venues, cheaper ones first.
LEMMA CompareAnswers ==
  ASSUME NEW side, NEW l \in Lists, NEW fresh, NEW quote \in [ToSet(l) -> Quotes],
         Compare(side, l, fresh, quote)
  PROVE  CompareSound(asked')
  <1>1. PICK n \in Nat : Different(l, n)
    BY ListsAreDifferent
  <1> DEFINE P == {k \in 1 .. n : l[k] \in fresh}
             live == Kept(l, P)
             c == Cardinality(P)
             known == ToSet(live)
             less == {p \in known \X known : Cheaper(side, quote[p[1]], quote[p[2]])}
             a == IF live = <<>> THEN Error ELSE Sorted(live, less)
  <1>2. l \in [1 .. n -> Venues] /\ DOMAIN l = 1 .. n
        /\ \A i, j \in 1 .. n : l[i] = l[j] => i = j
    BY <1>1 DEF Different
  <1>3. /\ asked'.side = side /\ asked'.fresh = known /\ asked'.quote = quote
        /\ asked'.answer = a
    BY <1>2 DEF Compare
  <1>4. P \in SUBSET (1 .. n)
    OBVIOUS
  <1> HIDE DEF P
  <1>5. c \in Nat /\ InOrder(live, l, P)
    BY <1>4, KeptInOrder
  <1> HIDE DEF live
  <1>6. PICK at \in [1 .. c -> P] :
          /\ \A k \in 1 .. c : live[k] = l[at[k]]
          /\ \A i, j \in 1 .. c : i < j => at[i] < at[j]
    BY <1>5 DEF InOrder
  <1>7. live \in [1 .. c -> {l[i] : i \in P}]
    BY <1>5 DEF InOrder
  <1> HIDE DEF c
  <1>8. known = {live[k] : k \in 1 .. c} /\ live \in [1 .. c -> known]
    BY <1>5, <1>7 DEF ToSet
  <1>9. known \subseteq ToSet(l)
    BY <1>2, <1>4, <1>7, <1>8 DEF ToSet
  <1> HIDE DEF known
  <1>10. \A i, j \in 1 .. c : live[i] = live[j] => i = j
    <2> SUFFICES ASSUME NEW i \in 1 .. c, NEW j \in 1 .. c, live[i] = live[j], i # j
                 PROVE  FALSE
      OBVIOUS
    <2>1. at[i] = at[j]
      <3>1. at[i] \in 1 .. n /\ at[j] \in 1 .. n
        BY <1>4, <1>6
      <3> QED BY <1>2, <1>6, <3>1
    <2>2. at[i] \in Int /\ at[j] \in Int
      <3>1. at[i] \in 1 .. n /\ at[j] \in 1 .. n
        BY <1>4, <1>6
      <3> QED BY <3>1
    <2>3. i < j \/ j < i
      BY <1>5
    <2> QED BY <1>6, <2>1, <2>2, <2>3
  <1>11. Cardinality(known) = c
    <2>1. \A x \in known : \E k \in 1 .. c : live[k] = x
      BY <1>8
    <2> QED BY <1>5, <1>8, <1>10, <2>1, DistinctCount
  <1>12. \A v \in known : quote[v].bid \in Nat /\ quote[v].ask \in Nat
    BY <1>9, RoutingAssumption
  <1>13. \A u, v \in known : <<u, v>> \in less <=>
           IF side = "buy" THEN quote[u].ask < quote[v].ask ELSE quote[u].bid > quote[v].bid
    BY DEF Cheaper
  <1> HIDE DEF less
  <1>14. StrictWeak(less, known)
    <2> SUFFICES ASSUME NEW x \in known, NEW y \in known, NEW z \in known
                 PROVE  /\ <<x, x>> \notin less
                        /\ <<x, y>> \in less /\ <<y, z>> \in less => <<x, z>> \in less
                        /\ <<x, z>> \in less => <<x, y>> \in less \/ <<y, z>> \in less
      BY DEF StrictWeak
    <2>1. /\ quote[x].ask \in Nat /\ quote[y].ask \in Nat /\ quote[z].ask \in Nat
          /\ quote[x].bid \in Nat /\ quote[y].bid \in Nat /\ quote[z].bid \in Nat
      BY <1>12
    <2>2. CASE side = "buy"
      <3>1. /\ <<x, x>> \in less <=> quote[x].ask < quote[x].ask
            /\ <<x, y>> \in less <=> quote[x].ask < quote[y].ask
            /\ <<y, z>> \in less <=> quote[y].ask < quote[z].ask
            /\ <<x, z>> \in less <=> quote[x].ask < quote[z].ask
        BY <1>13, <2>2
      <3> QED BY <2>1, <3>1
    <2>3. CASE side # "buy"
      <3>1. /\ <<x, x>> \in less <=> quote[x].bid > quote[x].bid
            /\ <<x, y>> \in less <=> quote[x].bid > quote[y].bid
            /\ <<y, z>> \in less <=> quote[y].bid > quote[z].bid
            /\ <<x, z>> \in less <=> quote[x].bid > quote[z].bid
        BY <1>13, <2>3
      <3> QED BY <2>1, <3>1
    <2> QED BY <2>2, <2>3
  <1>15. SortOf(Sorted(live, less), live, c, less)
    BY <1>5, <1>8, <1>14, SortedSorts
  <1>16. PICK to \in [1 .. c -> 1 .. c] :
           /\ \A k \in 1 .. c : Sorted(live, less)[k] = live[to[k]]
           /\ \A i \in 1 .. c : \E k \in 1 .. c : to[k] = i
    BY <1>15 DEF SortOf
  <1>17. Sorted(live, less) \in [1 .. c -> known]
    BY <1>8, <1>15 DEF SortOf
  <1>18. Error = <<>>
    BY DEF Error
  <1>19. CASE c = 0
    <2>1. live = <<>>
      BY <1>5, <1>8, <1>19, IsSequence
    <2>2. a = <<>>
      BY <1>18, <2>1
    <2>3. known = {}
      BY <1>8, <1>19
    <2> HIDE DEF a
    <2>4. ToSet(a) = {} /\ Len(a) = 0 /\ DOMAIN a = {}
      BY <2>2 DEF ToSet
    <2>5. Cardinality({}) = 0
      BY FS_EmptySet
    <2> QED BY <1>3, <2>3, <2>4, <2>5 DEF CompareSound
  <1>20. CASE c # 0
    <2>1. live # <<>>
      BY <1>5, <1>8, <1>20, IsSequence
    <2>2. a = Sorted(live, less)
      BY <2>1
    <2> HIDE DEF a
    <2>3. a \in [1 .. c -> known] /\ Len(a) = c /\ DOMAIN a = 1 .. c
      BY <1>5, <1>17, <2>2, IsSequence
    <2>4. ToSet(a) = known
      <3>1. ToSet(a) = {a[k] : k \in 1 .. c}
        BY <2>3 DEF ToSet
      <3>2. \A k \in 1 .. c : a[k] \in known
        BY <2>3
      <3>3. \A i \in 1 .. c : \E k \in 1 .. c : a[k] = live[i]
        <4> TAKE i \in 1 .. c
        <4>1. PICK k \in 1 .. c : to[k] = i
          BY <1>16
        <4> QED BY <1>16, <2>2, <4>1
      <3>4. \A v \in known : \E k \in 1 .. c : v = a[k]
        <4> TAKE v \in known
        <4>1. PICK i \in 1 .. c : v = live[i]
          BY <1>8
        <4> QED BY <3>3, <4>1
      <3> QED BY <3>1, <3>2, <3>4
    <2>5. Len(a) = Cardinality(known)
      BY <1>11, <2>3
    <2>6. ASSUME NEW i \in 1 .. c, NEW j \in 1 .. c, i < j
          PROVE  IF side = "buy" THEN quote[a[i]].ask <= quote[a[j]].ask
                 ELSE quote[a[i]].bid >= quote[a[j]].bid
      <3>1. a[i] \in known /\ a[j] \in known
        BY <2>3
      <3>2. <<a[j], a[i]>> \notin less
        BY <1>15, <2>2, <2>6 DEF SortOf
      <3>3. ~IF side = "buy" THEN quote[a[j]].ask < quote[a[i]].ask
             ELSE quote[a[j]].bid > quote[a[i]].bid
        BY <1>13, <3>1, <3>2
      <3>4. /\ quote[a[i]].ask \in Nat /\ quote[a[j]].ask \in Nat
            /\ quote[a[i]].bid \in Nat /\ quote[a[j]].bid \in Nat
        BY <1>12, <3>1
      <3>5. CASE side = "buy"
        BY <3>3, <3>4, <3>5
      <3>6. CASE side # "buy"
        BY <3>3, <3>4, <3>6
      <3> QED BY <3>5, <3>6
    <2> QED BY <1>3, <2>3, <2>4, <2>5, <2>6 DEF CompareSound
  <1> QED BY <1>19, <1>20

\* Whoever decides, there is an allocation if there are candidates, to
\* candidates only, and without a sidecar to each but once; the first venue is
\* one that no candidate beats, and the comparator keeps every fresh venue and
\* puts none before a cheaper one: for any venues, quotes, orders and scores.
THEOREM RouterDecides == RouterSpec => []DecisionsSound
  <1> DEFINE Inv == Registry /\ DecisionsSound
  <1>1. RouterInit => Inv
    <2> SUFFICES ASSUME RouterInit
                 PROVE  Inv
      OBVIOUS
    <2>1. Registry
      BY DEF RouterInit, Registry
    <2>2. asked.call = "none"
      BY DEF RouterInit, None
    <2> QED BY <2>1, <2>2, DecisionsOfAnswers
  <1>2. Inv /\ [RouterNext]_routerVars => Inv'
    <2> SUFFICES ASSUME Inv, [RouterNext]_routerVars
                 PROVE  Inv'
      OBVIOUS
    <2>1. CASE UNCHANGED routerVars
      <3>1. strategies' = strategies /\ default' = default /\ asked' = asked
        BY <2>1 DEF routerVars
      <3> QED BY <3>1, DecisionsOfAnswers DEF Registry
    <2>2. ASSUME asked.call = None, NEW name \in Strategies,
                 Register(name) \/ SetDefault(name)
          PROVE  Inv'
      <3>1. Registry'
        BY <2>2 DEF Registry, Register, SetDefault, Strategies, None
      <3>2. asked'.call = "none"
        BY <2>2 DEF Register, SetDefault, None
      <3> QED BY <3>1, <3>2, DecisionsOfAnswers
    <2>3. ASSUME UNCHANGED <<strategies, default>>,
                 \/ asked'.call = "route" /\ RouteSound(asked', default)
                 \/ asked'.call = "compare" /\ CompareSound(asked')
                 \/ asked'.call = "split"
          PROVE  Inv'
      <3>1. Registry' /\ default' = default
        BY <2>3 DEF Registry
      <3>2. DecisionsSound'
        BY <2>3, <3>1, DecisionsOfAnswers
      <3> QED BY <3>1, <3>2
    <2>4. CASE Ask
      <3>1. ASSUME NEW name, NEW order, NEW l \in Lists,
                   NEW quote \in [ToSet(l) -> Quotes], NEW scores \in Scores,
                   Route(name, order, l, quote, scores)
            PROVE  asked'.call = "route" /\ RouteSound(asked', default)
        BY <3>1, RouteAnswers DEF Route
      <3>2. ASSUME NEW side, NEW l \in Lists, NEW fresh,
                   NEW quote \in [ToSet(l) -> Quotes], Compare(side, l, fresh, quote)
            PROVE  asked'.call = "compare" /\ CompareSound(asked')
        <4>1. asked'.call = "compare"
          BY <3>2 DEF Compare
        <4>2. CompareSound(asked')
          BY <3>2, CompareAnswers
        <4> QED BY <4>1, <4>2
      <3>3. ASSUME NEW qty, NEW ranked, NEW lot, NEW depth, Split(qty, ranked, depth, lot)
            PROVE  asked'.call = "split"
        BY <3>3 DEF Split
      <3>4. Error \in Scores
        BY DEF Scores
      <3> QED BY <2>3, <2>4, <3>1, <3>2, <3>3, <3>4 DEF Ask
    <2> QED BY <2>1, <2>2, <2>4 DEF RouterNext
  <1>3. Inv => DecisionsSound
    OBVIOUS
  <1> QED BY <1>1, <1>2, <1>3, PTL DEF RouterSpec

-----------------------------------------------------------------------------
\* Sums and products

\* A nonempty set of naturals has a least element.
LEMMA LeastNatural ==
  ASSUME NEW T \in SUBSET Nat, T # {}
  PROVE  \E x \in T : \A y \in T : x <= y
  <1>1. PICK R : IsWellFoundedOn(R, Nat) /\ \A x, y \in Nat : y < x => <<y, x>> \in R
    <2>1. \A x, y \in Nat : y < x => <<y, x>> \in OpToRel(<, Nat)
      BY DEF OpToRel
    <2> QED BY <2>1, NatLessThanWellFounded
  <1>2. \E x \in T : \A y \in T : ~ (<<y, x>> \in R)
    BY <1>1, WFMin
  <1>3. \A x, y \in T : ~ (<<y, x>> \in R) => x <= y
    BY <1>1
  <1> QED BY <1>2, <1>3

\* upTo[k] is the sum of the first k of n numbers.
Sums(upTo, s, n) ==
  /\ upTo \in [0 .. n -> Int]
  /\ upTo[0] = 0
  /\ \A k \in 1 .. n : upTo[k] = upTo[k - 1] + s[k]

\* There are such sums.
LEMMA SumsExist ==
  ASSUME NEW n \in Nat, NEW s \in [1 .. n -> Int]
  PROVE  \E upTo : Sums(upTo, s, n)
  <1> DEFINE Missing == {m \in 0 .. n : ~\E upTo : Sums(upTo, s, m)}
  <1> SUFFICES ASSUME Missing # {}
               PROVE  FALSE
    <2>1. n \notin Missing => \E upTo : Sums(upTo, s, n)
      <3>1. n \in 0 .. n
        OBVIOUS
      <3> QED BY <3>1, Zenon
    <2> HIDE DEF Missing
    <2> QED BY <2>1
  <1>1. PICK m \in Missing : \A k \in Missing : m <= k
    <2>1. Missing \in SUBSET Nat
      OBVIOUS
    <2> HIDE DEF Missing
    <2> QED BY <2>1, LeastNatural
  <1>2. m \in 0 .. n /\ ~\E upTo : Sums(upTo, s, m)
    OBVIOUS
  <1>3. CASE m = 0
    <2>1. Sums([k \in 0 .. 0 |-> 0], s, 0)
      BY DEF Sums
    <2> QED BY <1>2, <1>3, <2>1
  <1>4. CASE m # 0
    <2>1. m - 1 \in 0 .. n /\ m - 1 \notin Missing
      <3>1. m \in Int /\ m - 1 \in 0 .. n
        BY <1>2, <1>4
      <3> HIDE DEF Missing
      <3> QED BY <1>1, <3>1
    <2>2. PICK f : Sums(f, s, m - 1)
      BY <2>1
    <2> DEFINE g == [k \in 0 .. m |-> IF k = m THEN f[m - 1] + s[m] ELSE f[k]]
    <2>3. m \in 1 .. n /\ s[m] \in Int
      BY <1>2, <1>4
    <2> HIDE DEF Missing
    <2>4. f \in [0 .. m - 1 -> Int] /\ f[0] = 0 /\ \A k \in 1 .. m - 1 : f[k] = f[k - 1] + s[k]
      BY <2>2 DEF Sums
    <2>5. \A k \in 0 .. m : g[k] \in Int
      BY <2>3, <2>4
    <2>6. g \in [0 .. m -> Int]
      BY <2>5
    <2>7. g[0] = 0
      BY <2>3, <2>4
    <2>8. ASSUME NEW k \in 1 .. m
          PROVE  g[k] = g[k - 1] + s[k]
      <3>1. k \in 0 .. m /\ k - 1 \in 0 .. m /\ k - 1 # m
        BY <2>3
      <3>2. g[k - 1] = f[k - 1] /\ g[k] = IF k = m THEN f[m - 1] + s[m] ELSE f[k]
        BY <3>1
      <3>3. k # m => k \in 1 .. m - 1
        BY <2>3
      <3> HIDE DEF g
      <3> QED BY <2>4, <3>2, <3>3
    <2> HIDE DEF g
    <2>9. Sums(g, s, m)
      BY <2>6, <2>7, <2>8 DEF Sums
    <2> QED BY <1>2, <2>9
  <1> QED BY <1>3, <1>4

\* They are what the router takes for the total.
LEMMA TotalIsSum ==
  ASSUME NEW n \in Nat, NEW s \in [1 .. n -> Int], NEW f, Sums(f, s, n)
  PROVE  Total(s) = f[n]
  <1>1. Len(s) = n
    BY IsSequence
  <1> DEFINE Rec(g) == g = [k \in 0 .. n |-> IF k = 0 THEN 0 ELSE g[k - 1] + s[k]]
             h == CHOOSE g : Rec(g)
  <1>2. Rec(f)
    BY DEF Sums
  <1>3. Rec(h)
    BY <1>2
  <1>4. Total(s) = h[n]
    BY <1>1 DEF Total
  <1>5. \A k \in 0 .. n : h[k] = f[k]
    <2> DEFINE Off == {k \in 0 .. n : h[k] # f[k]}
    <2> SUFFICES ASSUME Off # {}
                 PROVE  FALSE
      OBVIOUS
    <2>1. PICK k \in Off : \A j \in Off : k <= j
      <3>1. Off \in SUBSET Nat
        OBVIOUS
      <3> HIDE DEF Off
      <3> QED BY <3>1, LeastNatural
    <2>2. k \in 0 .. n /\ h[k] # f[k]
      OBVIOUS
    <2> HIDE DEF h
    <2>3. /\ h[k] = IF k = 0 THEN 0 ELSE h[k - 1] + s[k]
          /\ f[k] = IF k = 0 THEN 0 ELSE f[k - 1] + s[k]
      BY <1>2, <1>3, <2>2
    <2>4. k # 0
      BY <2>2, <2>3
    <2>5. k - 1 \in 0 .. n /\ ~(k <= k - 1)
      BY <2>2, <2>4
    <2>6. h[k - 1] = f[k - 1]
      BY <2>1, <2>5
    <2> QED BY <2>2, <2>3, <2>4, <2>6
  <1> HIDE DEF h
  <1>6. n \in 0 .. n
    OBVIOUS
  <1> QED BY <1>4, <1>5, <1>6

\* Where the numbers are zero, the sums stay.
Stays(f, s, n) ==
  \A a, b \in 0 .. n : a <= b /\ (\A i \in a + 1 .. b : s[i] = 0) => f[a] = f[b]

\* Adding zeros leaves a sum as it is.
LEMMA SumsStay ==
  ASSUME NEW n \in Nat, NEW s \in [1 .. n -> Int], NEW f, Sums(f, s, n)
  PROVE  Stays(f, s, n)
  <1> SUFFICES ASSUME NEW a \in 0 .. n, NEW b \in 0 .. n, a <= b, \A i \in a + 1 .. b : s[i] = 0
               PROVE  f[a] = f[b]
    BY DEF Stays
  <1> DEFINE Off == {k \in a .. b : f[k] # f[a]}
  <1> SUFFICES ASSUME Off # {}
               PROVE  FALSE
    <2>1. b \in a .. b
      OBVIOUS
    <2> QED BY <2>1
  <1>1. PICK k \in Off : \A j \in Off : k <= j
    <2>1. Off \in SUBSET Nat
      OBVIOUS
    <2> HIDE DEF Off
    <2> QED BY <2>1, LeastNatural
  <1>2. k \in a .. b /\ f[k] # f[a]
    OBVIOUS
  <1>3. k # a /\ k - 1 \in a .. b /\ ~(k <= k - 1) /\ k \in a + 1 .. b /\ k \in 1 .. n
    BY <1>2
  <1>4. f[k - 1] = f[a]
    BY <1>1, <1>3
  <1>5. f[k] = f[k - 1] + s[k] /\ s[k] = 0 /\ f[a] \in Int
    BY <1>3 DEF Sums
  <1> QED BY <1>2, <1>4, <1>5

\* Products, compared.
AtMost(a, x, b, y) == a * x <= b * y

\* What holds of two numbers holds of their sum.
LEMMA AtMostSum ==
  ASSUME NEW a \in Int, NEW b \in Int, NEW c \in Int, NEW d \in Int,
         NEW x \in Int, NEW y \in Int, AtMost(a, x, c, y), AtMost(b, x, d, y)
  PROVE  AtMost(a + b, x, c + d, y)
  <1>1. (a + b) * x = a * x + b * x /\ (c + d) * y = c * y + d * y
    OBVIOUS
  <1>2. a * x \in Int /\ b * x \in Int /\ c * y \in Int /\ d * y \in Int
    OBVIOUS
  <1> QED BY <1>1, <1>2 DEF AtMost

\* What holds of each number holds of their sums.
LEMMA SumsBounded ==
  ASSUME NEW n \in Nat, NEW s \in [1 .. n -> Int], NEW f, Sums(f, s, n),
         NEW t \in [1 .. n -> Int], NEW g, Sums(g, t, n),
         NEW x \in Int, NEW y \in Int, \A i \in 1 .. n : AtMost(s[i], x, t[i], y)
  PROVE  AtMost(f[n], x, g[n], y)
  <1> DEFINE Off == {k \in 0 .. n : ~AtMost(f[k], x, g[k], y)}
  <1> SUFFICES ASSUME Off # {}
               PROVE  FALSE
    <2>1. n \in 0 .. n
      OBVIOUS
    <2> QED BY <2>1
  <1>1. PICK k \in Off : \A j \in Off : k <= j
    <2>1. Off \in SUBSET Nat
      OBVIOUS
    <2> HIDE DEF Off
    <2> QED BY <2>1, LeastNatural
  <1>2. k \in 0 .. n /\ ~AtMost(f[k], x, g[k], y)
    OBVIOUS
  <1>3. k # 0
    BY <1>2 DEF Sums, AtMost
  <1>4. k \in 1 .. n /\ k - 1 \in 0 .. n /\ ~(k <= k - 1)
    BY <1>2, <1>3
  <1>5. AtMost(f[k - 1], x, g[k - 1], y)
    BY <1>1, <1>4
  <1>6. /\ f[k] = f[k - 1] + s[k] /\ g[k] = g[k - 1] + t[k]
        /\ f[k - 1] \in Int /\ g[k - 1] \in Int /\ s[k] \in Int /\ t[k] \in Int
    BY <1>4 DEF Sums
  <1>7. AtMost(s[k], x, t[k], y)
    BY <1>4
  <1> HIDE DEF Off
  <1>9. AtMost(f[k - 1] + s[k], x, g[k - 1] + t[k], y)
    BY <1>5, <1>6, <1>7, AtMostSum
  <1>8. AtMost(f[k], x, g[k], y)
    BY <1>6, <1>9
  <1> QED BY <1>2, <1>8

\* t has the numbers of s at the positions P, in their order; the others are 0.
KeptOf(t, c, at, s, n, P) ==
  /\ n \in Nat /\ s \in [1 .. n -> Int] /\ P \in SUBSET (1 .. n)
  /\ c \in Nat /\ t \in [1 .. c -> Int]
  /\ at \in [1 .. c -> P]
  /\ \A i \in P : \E k \in 1 .. c : at[k] = i
  /\ \A k, l \in 1 .. c : k < l => at[k] < at[l]
  /\ \A k \in 1 .. c : t[k] = s[at[k]]
  /\ \A i \in (1 .. n) \ P : s[i] = 0

\* Nothing is lost when only zeros are left out.
LEMMA KeptTotal ==
  ASSUME NEW n, NEW s, NEW P, NEW c, NEW t, NEW at, KeptOf(t, c, at, s, n, P)
  PROVE  Total(t) = Total(s)
  <1>15. /\ n \in Nat /\ s \in [1 .. n -> Int] /\ P \in SUBSET (1 .. n)
         /\ c \in Nat /\ t \in [1 .. c -> Int]
    BY DEF KeptOf
  <1> USE <1>15
  <1>0. /\ at \in [1 .. c -> P]
        /\ \A i \in P : \E k \in 1 .. c : at[k] = i
        /\ \A k, l \in 1 .. c : k < l => at[k] < at[l]
        /\ \A k \in 1 .. c : t[k] = s[at[k]]
        /\ \A i \in (1 .. n) \ P : s[i] = 0
    BY DEF KeptOf
  <1>1. PICK f : Sums(f, s, n)
    BY SumsExist
  <1>14. \A a, b \in 0 .. n : a <= b /\ (\A i \in a + 1 .. b : s[i] = 0) => f[a] = f[b]
    <2>1. Stays(f, s, n)
      BY <1>1, SumsStay
    <2> QED BY <2>1 DEF Stays
  <1> DEFINE to(k) == IF k = 0 THEN 0 ELSE at[k]
             g == [k \in 0 .. c |-> f[to(k)]]
  <1>2. \A k \in 1 .. c : at[k] \in P /\ at[k] \in 1 .. n
    BY <1>0
  <1>3. \A k \in 0 .. c : to(k) \in 0 .. n
    <2> TAKE k \in 0 .. c
    <2>1. k # 0 => k \in 1 .. c
      OBVIOUS
    <2> QED BY <1>2, <2>1
  <1>4. \A k, l \in 0 .. c : k < l => to(k) < to(l)
    <2> SUFFICES ASSUME NEW k \in 0 .. c, NEW l \in 0 .. c, k < l
                 PROVE  to(k) < to(l)
      OBVIOUS
    <2>1. l \in 1 .. c /\ (k # 0 => k \in 1 .. c)
      OBVIOUS
    <2>2. at[l] \in 1 .. n
      BY <1>2, <2>1
    <2>3. k # 0 => at[k] < at[l] /\ at[k] \in 1 .. n
      BY <1>0, <1>2, <2>1
    <2> QED BY <2>1, <2>2, <2>3
  <1>5. \A i \in 1 .. n : i \in P => \E k \in 1 .. c : to(k) = i
    <2> TAKE i \in 1 .. n
    <2> HAVE i \in P
    <2>1. PICK k \in 1 .. c : at[k] = i
      BY <1>0
    <2>2. k # 0
      OBVIOUS
    <2> QED BY <2>1, <2>2
  <1>6. \A k \in 1 .. c : to(k) = at[k] /\ to(k - 1) \in 0 .. n /\ k - 1 \in 0 .. c /\ k \in 0 .. c
    BY <1>3
  <1>7. to(0) = 0 /\ 0 \in 0 .. c /\ c \in 0 .. c
    OBVIOUS
  <1> HIDE DEF to
  <1>8. ASSUME NEW k \in 1 .. c
        PROVE  f[to(k - 1)] = f[to(k) - 1]
    <2>1. to(k) \in 1 .. n /\ to(k - 1) \in 0 .. n /\ to(k - 1) < to(k)
      <3>1. k - 1 < k /\ k \in 0 .. c /\ k - 1 \in 0 .. c
        OBVIOUS
      <3>2. to(k - 1) < to(k)
        BY <1>4, <3>1
      <3>3. to(k) = at[k] /\ to(k - 1) \in 0 .. n
        BY <1>6
      <3> QED BY <1>2, <3>2, <3>3
    <2>2. ASSUME NEW i \in to(k - 1) + 1 .. to(k) - 1
          PROVE  s[i] = 0
      <3>1. i \in 1 .. n /\ to(k - 1) < i /\ i < to(k)
        BY <2>1
      <3>2. ASSUME NEW j \in 1 .. c, to(j) = i
            PROVE  FALSE
        <4>1. j <= k - 1 \/ k <= j
          OBVIOUS
        <4>2. CASE j <= k - 1
          <5>1. to(j) <= to(k - 1)
            <6>1. j = k - 1 \/ j < k - 1
              BY <4>2
            <6>2. to(j) \in 0 .. n /\ j \in 0 .. c /\ k - 1 \in 0 .. c
              BY <1>6, <1>3
            <6>3. j < k - 1 => to(j) < to(k - 1)
              BY <1>4, <6>2
            <6>4. j = k - 1 => to(j) = to(k - 1)
              OBVIOUS
            <6>5. to(k - 1) \in 0 .. n
              BY <2>1
            <6> QED BY <6>1, <6>2, <6>3, <6>4, <6>5
          <5> QED BY <2>1, <3>1, <3>2, <5>1
        <4>3. CASE k <= j
          <5>1. to(k) <= to(j)
            <6>1. k = j \/ k < j
              BY <4>3
            <6>2. to(j) \in 0 .. n /\ j \in 0 .. c /\ k \in 0 .. c
              BY <1>6, <1>3
            <6>3. k < j => to(k) < to(j)
              BY <1>4, <6>2
            <6>4. k = j => to(k) = to(j)
              OBVIOUS
            <6>5. to(k) \in 0 .. n
              BY <2>1
            <6> QED BY <6>1, <6>2, <6>3, <6>4, <6>5
          <5> QED BY <2>1, <3>1, <3>2, <5>1
        <4> QED BY <4>1, <4>2, <4>3
      <3>3. i \notin P
        BY <1>5, <3>1, <3>2
      <3> QED BY <1>0, <3>1, <3>3
    <2>3. to(k) - 1 \in 0 .. n /\ to(k - 1) <= to(k) - 1
      BY <2>1
    <2> QED BY <1>14, <2>1, <2>2, <2>3
  <1>9. f[to(c)] = f[n]
    <2>1. to(c) \in 0 .. n
      BY <1>3, <1>7
    <2>2. ASSUME NEW i \in to(c) + 1 .. n
          PROVE  s[i] = 0
      <3>1. i \in 1 .. n /\ to(c) < i
        BY <2>1
      <3>2. ASSUME NEW j \in 1 .. c, to(j) = i
            PROVE  FALSE
        <4>1. j = c \/ j < c
          OBVIOUS
        <4>2. to(j) <= to(c)
          <5>1. CASE j = c
            BY <2>1, <5>1
          <5>2. CASE j < c
            <6>1. j \in 0 .. c /\ to(j) \in 0 .. n
              BY <1>3, <1>6
            <6>2. to(j) < to(c)
              BY <1>4, <1>7, <5>2, <6>1
            <6> QED BY <2>1, <6>1, <6>2
          <5> QED BY <4>1, <5>1, <5>2
        <4> QED BY <2>1, <3>1, <3>2, <4>2
      <3>3. i \notin P
        BY <1>5, <3>1, <3>2
      <3> QED BY <1>0, <3>1, <3>3
    <2>3. n \in 0 .. n /\ to(c) <= n
      BY <2>1
    <2> QED BY <1>14, <2>1, <2>2, <2>3
  <1>10. Sums(g, t, c)
    <2>1. g \in [0 .. c -> Int]
      BY <1>1, <1>3 DEF Sums
    <2>2. g[0] = 0
      BY <1>1, <1>7 DEF Sums
    <2>3. ASSUME NEW k \in 1 .. c
          PROVE  g[k] = g[k - 1] + t[k]
      <3>1. g[k] = f[to(k)] /\ g[k - 1] = f[to(k - 1)]
        BY <1>6
      <3>2. f[at[k]] = f[at[k] - 1] + s[at[k]]
        BY <1>1, <1>2 DEF Sums
      <3> HIDE DEF g
      <3> QED BY <1>0, <1>6, <1>8, <3>1, <3>2
    <2> HIDE DEF g
    <2> QED BY <2>1, <2>2, <2>3 DEF Sums
  <1>11. g[c] = f[n]
    BY <1>7, <1>9
  <1> HIDE DEF g
  <1>12. Total(t) = g[c]
    BY <1>10, TotalIsSum
  <1>13. Total(s) = f[n]
    BY <1>1, TotalIsSum
  <1> QED BY <1>11, <1>12, <1>13

\* Multiplication keeps an order.
LEMMA Times ==
  ASSUME NEW k \in Nat, NEW x \in Int, NEW y \in Int, x <= y
  PROVE  k * x <= k * y
  <1>1. k * (y - x) >= 0
    OBVIOUS
  <1>2. k * (y - x) = k * y - k * x
    OBVIOUS
  <1>3. k * x \in Int /\ k * y \in Int
    OBVIOUS
  <1> QED BY <1>1, <1>2, <1>3

\* What rounding twice and dropping what is not a whole lot makes of a share: S
\* times it, and less than two of its units more or, but for a lot, less.
LEMMA ShareBounds ==
  ASSUME NEW d \in Nat, NEW q \in Nat, NEW T \in Nat \ {0}, NEW l \in Nat \ {0},
         NEW S \in Nat \ {0},
         NEW A \in Int, 2 * (T * A - d * S) <= T, 2 * (d * S - T * A) <= T,
         NEW B \in Int, 2 * (l * B - A * q) <= l, 2 * (A * q - l * B) <= l,
         NEW f \in Int, S * f <= B, B < S * f + S
  PROVE  /\ f \in Nat
         /\ 2 * (S * ((l * f) * T)) <= 2 * (S * (d * q)) + T * (q + l)
         /\ 2 * (S * (d * q)) < 2 * (S * ((l * f) * T)) + 2 * (S * (T * l)) + T * (q + l)
  <1> DEFINE Z == (l * f) * T
  <1>0. /\ q \in Int /\ T \in Int /\ l \in Int /\ S \in Int /\ d \in Int
        /\ T * A \in Int /\ d * S \in Int /\ l * B \in Int /\ A * q \in Int /\ S * f \in Int
        /\ Z \in Int /\ d * q \in Int /\ T * l \in Nat /\ T * q \in Nat
        /\ S * Z \in Int /\ S * (d * q) \in Int /\ q * (T * A) \in Int /\ S * (T * l) \in Int
    OBVIOUS
  <1>1. f \in Nat
    <2>1. A >= 0
      <3> SUFFICES ASSUME A <= -1
                   PROVE  FALSE
        OBVIOUS
      <3>1. T * A <= T * (-1)
        BY Times
      <3>2. d * S >= 0
        OBVIOUS
      <3> QED BY <1>0, <3>1, <3>2
    <2>2. B >= 0
      <3> SUFFICES ASSUME B <= -1
                   PROVE  FALSE
        OBVIOUS
      <3>1. l * B <= l * (-1)
        BY Times
      <3>2. A * q >= 0
        BY <2>1
      <3> QED BY <1>0, <3>1, <3>2
    <2> SUFFICES ASSUME f <= -1
                 PROVE  FALSE
      OBVIOUS
    <2>3. S * f <= S * (-1)
      BY Times
    <2> QED BY <1>0, <2>2, <2>3
  <1>2. 2 * (S * Z) <= 2 * (S * (d * q)) + T * (q + l)
    <2>2. (T * l) * (S * f) <= (T * l) * B
      BY <1>0, Times
    <2>3. (T * l) * (S * f) = S * Z
      OBVIOUS
    <2>4. T * (2 * (l * B) - 2 * (A * q)) <= T * l
      <3>1. 2 * (l * B) - 2 * (A * q) <= l
        BY <1>0
      <3> QED BY <1>0, <3>1, Times
    <2>5. T * (2 * (l * B) - 2 * (A * q)) = 2 * ((T * l) * B) - 2 * (q * (T * A))
      OBVIOUS
    <2>6. q * (2 * (T * A) - 2 * (d * S)) <= q * T
      <3>1. 2 * (T * A) - 2 * (d * S) <= T
        BY <1>0
      <3> QED BY <1>0, <3>1, Times
    <2>7. q * (2 * (T * A) - 2 * (d * S)) = 2 * (q * (T * A)) - 2 * (S * (d * q))
      OBVIOUS
    <2>8. T * (q + l) = T * q + T * l /\ q * T = T * q /\ (T * l) * B \in Int
      OBVIOUS
    <2> HIDE DEF Z
    <2> QED BY <1>0, <2>2, <2>3, <2>4, <2>5, <2>6, <2>7, <2>8
  <1>3. 2 * (S * (d * q)) < 2 * (S * Z) + 2 * (S * (T * l)) + T * (q + l)
    <2>2. (T * l) * (B + 1) <= (T * l) * (S * f + S)
      <3>1. B + 1 <= S * f + S /\ B + 1 \in Int /\ S * f + S \in Int
        BY <1>0
      <3> QED BY <1>0, <3>1, Times
    <2>3. (T * l) * (S * f + S) = S * Z + S * (T * l)
      OBVIOUS
    <2>9. (T * l) * (B + 1) = (T * l) * B + T * l /\ T * l > 0
      OBVIOUS
    <2>4. T * (2 * (A * q) - 2 * (l * B)) <= T * l
      <3>1. 2 * (A * q) - 2 * (l * B) <= l
        BY <1>0
      <3> QED BY <1>0, <3>1, Times
    <2>5. T * (2 * (A * q) - 2 * (l * B)) = 2 * (q * (T * A)) - 2 * ((T * l) * B)
      OBVIOUS
    <2>6. q * (2 * (d * S) - 2 * (T * A)) <= q * T
      <3>1. 2 * (d * S) - 2 * (T * A) <= T
        BY <1>0
      <3> QED BY <1>0, <3>1, Times
    <2>7. q * (2 * (d * S) - 2 * (T * A)) = 2 * (S * (d * q)) - 2 * (q * (T * A))
      OBVIOUS
    <2>8. T * (q + l) = T * q + T * l /\ q * T = T * q /\ (T * l) * B \in Int
      OBVIOUS
    <2> HIDE DEF Z
    <2> QED BY <1>0, <2>2, <2>3, <2>4, <2>5, <2>6, <2>7, <2>8, <2>9
  <1> QED BY <1>1, <1>2, <1>3

\* Where the error is less than two units of S for all, it is less than one of a
\* portion.
LEMMA LessThanUnit ==
  ASSUME NEW S \in Nat \ {0}, NEW T \in Nat \ {0}, NEW e \in Nat, e < 2 * S,
         NEW x \in Int, NEW y \in Int, 2 * (S * x) <= 2 * (S * y) + T * e
  PROVE  x < y + T
  <1> SUFFICES ASSUME y + T <= x
               PROVE  FALSE
    OBVIOUS
  <1>1. S * (y + T) <= S * x
    BY Times
  <1>2. S * (y + T) = S * y + S * T /\ S * y \in Int /\ S * T \in Int /\ S * x \in Int
    OBVIOUS
  <1>3. T * e <= T * (2 * S - 1)
    BY Times
  <1>4. T * (2 * S - 1) = 2 * (S * T) - T /\ T * e \in Int
    OBVIOUS
  <1> QED BY <1>1, <1>2, <1>3, <1>4

-----------------------------------------------------------------------------
\* One venue's portion

\* A multiple leaves no remainder.
LEMMA WholeLots ==
  ASSUME NEW l \in Nat \ {0}, NEW f \in Nat
  PROVE  (l * f) % l = 0
  <1> DEFINE r == (l * f) % l
             g == (l * f) \div l
  <1>0. l * f \in Int
    OBVIOUS
  <1>1. r \in 0 .. l - 1 /\ g \in Int /\ l * f = l * g + r
    <2>1. \A x \in Int : x % l \in 0 .. l - 1 /\ x \div l \in Int /\ x = l * (x \div l) + (x % l)
      OBVIOUS
    <2> QED BY <1>0, <2>1
  <1> HIDE DEF r, g
  <1>2. l * (f - g) = r
    BY <1>1
  <1>3. ~(f - g >= 1)
    <2> SUFFICES ASSUME f - g >= 1
                 PROVE  FALSE
      OBVIOUS
    <2>1. l * 1 <= l * (f - g)
      BY <1>1, Times
    <2> QED BY <1>1, <1>2, <2>1
  <1>4. ~(f - g <= -1)
    <2> SUFFICES ASSUME f - g <= -1
                 PROVE  FALSE
      OBVIOUS
    <2>1. l * (f - g) <= l * (-1)
      BY <1>1, Times
    <2> QED BY <1>1, <1>2, <2>1
  <1>5. f - g = 0
    BY <1>1, <1>3, <1>4
  <1>6. l * 0 = 0
    OBVIOUS
  <1> QED BY <1>2, <1>5, <1>6 DEF r

\* A portion p of q for the depth d of T is almost its share.
Near(p, d, T, q, l) == 2 * (Scale * (p * T)) <= 2 * (Scale * (d * q)) + T * (q + l)

\* It is whole lots, the share rounded up at most, and no more than a lot and a
\* unit less.
Fits(p, d, T, q, l) ==
  /\ p \in Nat /\ (p < l => p = 0) /\ p % l = 0
  /\ Near(p, d, T, q, l)
  /\ p > 0 => (p - 1) * T < d * q
  /\ d * q - p * T < (l + 1) * T

\* The portion that the splitter computes fits, if division is precise enough.
LEMMA PortionFits ==
  ASSUME NEW d \in Nat, NEW q \in Nat \ {0}, NEW T \in Nat \ {0}, NEW l \in Nat \ {0},
         Scale \in Nat \ {0}, q + l < 2 * Scale
  PROVE  Fits(Portion(d, T, q, l), d, T, q, l)
  <1> DEFINE A == Rounded(d * Scale, T)
             B == Rounded(A * q, l)
             f == B \div Scale
  <1>1. A \in Int /\ 2 * (T * A - d * Scale) <= T /\ 2 * (d * Scale - T * A) <= T
    <2>1. d * Scale \in Int /\ T \in Int /\ T > 0
      OBVIOUS
    <2> QED BY <2>1, RoundedClose
  <1> HIDE DEF A
  <1>2. B \in Int /\ 2 * (l * B - A * q) <= l /\ 2 * (A * q - l * B) <= l
    <2>1. A * q \in Int /\ l \in Int /\ l > 0
      BY <1>1
    <2> QED BY <2>1, RoundedClose
  <1> HIDE DEF B
  <1>3. f \in Int /\ Scale * f <= B /\ B < Scale * f + Scale
    BY <1>2, Quotient
  <1> HIDE DEF f
  <1>4. /\ f \in Nat
        /\ 2 * (Scale * ((l * f) * T)) <= 2 * (Scale * (d * q)) + T * (q + l)
        /\ 2 * (Scale * (d * q)) < 2 * (Scale * ((l * f) * T)) + 2 * (Scale * (T * l)) + T * (q + l)
    BY <1>1, <1>2, <1>3, ShareBounds
  <1>5. Portion(d, T, q, l) = l * f
    BY DEF Portion, Rounded, Rounded, A, B, f
  <1>6. l * f \in Nat /\ (l * f) % l = 0
    BY <1>4, WholeLots
  <1>7. l * f < l => l * f = 0
    <2> SUFFICES ASSUME l * f < l, f >= 1
                 PROVE  FALSE
      BY <1>4
    <2>1. l * 1 <= l * f
      BY <1>4, Times
    <2> QED BY <1>6, <2>1
  <1> DEFINE p == l * f
             Z == p * T
             D == d * q
  <1>8. Z \in Int /\ D \in Int /\ T * l \in Int /\ q + l \in Nat /\ Z + T * l \in Int
    BY <1>4
  <1>9. Z < D + T
    <2>1. 2 * (Scale * Z) <= 2 * (Scale * D) + T * (q + l)
      BY <1>4
    <2> HIDE DEF Z, D, p
    <2> QED BY <1>8, <2>1, LessThanUnit
  <1>10. D < Z + T * l + T
    <2>1. 2 * (Scale * D) <= 2 * (Scale * Z) + 2 * (Scale * (T * l)) + T * (q + l)
      <3> DEFINE u == 2 * (Scale * D)
                 v == 2 * (Scale * Z) + 2 * (Scale * (T * l)) + T * (q + l)
      <3>1. u < v /\ u \in Int /\ v \in Int
        BY <1>4
      <3> HIDE DEF u, v
      <3>2. u <= v
        BY <3>1
      <3> QED BY <3>2 DEF u, v
    <2> HIDE DEF Z, D, p
    <2>2. Scale * (Z + T * l) = Scale * Z + Scale * (T * l)
          /\ Scale * Z \in Int /\ Scale * (T * l) \in Int
      BY <1>8
    <2>3. 2 * (Scale * D) <= 2 * (Scale * (Z + T * l)) + T * (q + l)
      BY <2>1, <2>2
    <2>4. D < (Z + T * l) + T
      BY <1>8, <2>3, LessThanUnit
    <2> QED BY <1>8, <2>4
  <1>11. p \in Nat /\ (p < l => p = 0) /\ p % l = 0 /\ Near(p, d, T, q, l)
    BY <1>4, <1>6, <1>7 DEF Near
  <1>12. (p - 1) * T < d * q
    <2>1. (p - 1) * T = Z - T
      <3> HIDE DEF p
      <3> QED BY <1>11
    <2> QED BY <1>8, <1>9, <2>1
  <1>13. d * q - p * T < (l + 1) * T
    <2>1. (l + 1) * T = T * l + T
      OBVIOUS
    <2> QED BY <1>8, <1>10, <2>1
  <1>14. Fits(p, d, T, q, l)
    <2> HIDE DEF p, Z, D
    <2> QED BY <1>11, <1>12, <1>13 DEF Fits
  <1> QED BY <1>5, <1>14

-----------------------------------------------------------------------------
\* Allocations

Alloc == [venue : Venues, qty : Int]

\* x has the quantities of a.
QtyOf(x, a, m) == x \in [1 .. m -> Int] /\ \A k \in 1 .. m : x[k] = a[k].qty

\* What allocations hand out is the sum of their quantities.
LEMMA AllocatedIsSum ==
  ASSUME NEW m \in Nat, NEW a \in [1 .. m -> Alloc], NEW x, QtyOf(x, a, m)
  PROVE  Allocated(a) = Total(x) /\ Total(x) \in Int
  <1>1. x = [k \in DOMAIN a |-> a[k].qty] /\ x \in [1 .. m -> Int]
    BY DEF QtyOf
  <1>2. Allocated(a) = Total(x)
    BY <1>1 DEF Allocated
  <1>3. PICK f : Sums(f, x, m)
    BY <1>1, SumsExist
  <1>4. Total(x) = f[m]
    BY <1>1, <1>3, TotalIsSum
  <1>5. f[m] \in Int
    <2>1. m \in 0 .. m
      OBVIOUS
    <2> QED BY <1>3, <2>1 DEF Sums
  <1> QED BY <1>2, <1>4, <1>5

\* What one venue is handed.
HandedTo(a, m, v, x) ==
  \/ \E k \in 1 .. m : a[k].venue = v /\ a[k].qty = x
  \/ x = 0 /\ \A k \in 1 .. m : a[k].venue # v

OncePerVenue(a, m) == \A j, k \in 1 .. m : a[j].venue = a[k].venue => j = k

\* What is kept of one venue's allocations sums to what it is handed.
LEMMA OneVenue ==
  ASSUME NEW m \in Nat, NEW a \in [1 .. m -> Alloc], OncePerVenue(a, m),
         NEW v, NEW x \in Int, HandedTo(a, m, v, x)
  PROVE  Allocated(Kept(a, {k \in DOMAIN a : a[k].venue = v})) = x
  <1> DEFINE P == {k \in 1 .. m : a[k].venue = v}
             kept == Kept(a, P)
             c == Cardinality(P)
  <1>0. DOMAIN a = 1 .. m /\ P \in SUBSET (1 .. m)
    OBVIOUS
  <1>1. /\ c \in 0 .. m /\ (P = {} <=> c = 0)
        /\ InOrder(kept, a, P)
    <2> HIDE DEF P
    <2> QED BY <1>0, KeptInOrder
  <1> HIDE DEF kept
  <1>2. kept \in [1 .. c -> {a[i] : i \in P}]
    BY <1>1 DEF InOrder
  <1>3. {a[i] : i \in P} \subseteq Alloc
    OBVIOUS
  <1> DEFINE y == [k \in 1 .. c |-> kept[k].qty]
  <1>4. c \in Nat /\ kept \in [1 .. c -> Alloc] /\ y \in [1 .. c -> Int]
    <2> HIDE DEF P, c
    <2>1. c \in Nat /\ kept \in [1 .. c -> Alloc]
      BY <1>1, <1>2, <1>3
    <2>2. \A k \in 1 .. c : kept[k].qty \in Int
      BY <2>1 DEF Alloc
    <2> QED BY <2>1, <2>2
  <1>5. Allocated(kept) = Total(y)
    <2> HIDE DEF c
    <2>1. \A k \in 1 .. c : y[k] = kept[k].qty
      OBVIOUS
    <2> HIDE DEF y
    <2>2. QtyOf(y, kept, c)
      BY <1>4, <2>1 DEF QtyOf
    <2> QED BY <1>4, <2>2, AllocatedIsSum
  <1>6. CASE \E k \in 1 .. m : a[k].venue = v /\ a[k].qty = x
    <2>1. PICK k \in 1 .. m : a[k].venue = v /\ a[k].qty = x
      BY <1>6
    <2>2. P = {k}
      BY <2>1 DEF OncePerVenue
    <2>3. c = 1
      BY <2>2, FS_Singleton
    <2> HIDE DEF P, c
    <2>4. y[1] = x /\ 1 \in 1 .. 1
      <3>1. kept[1] = a[k]
        BY <1>2, <2>2, <2>3
      <3> QED BY <2>1, <2>3, <3>1
    <2> HIDE DEF y
    <2> DEFINE f == [j \in 0 .. 1 |-> IF j = 0 THEN 0 ELSE x]
    <2>5. Sums(f, y, 1)
      <3>1. \A j \in 1 .. 1 : j = 1
        OBVIOUS
      <3>2. f \in [0 .. 1 -> Int] /\ f[0] = 0 /\ f[1] = x
        OBVIOUS
      <3> HIDE DEF f
      <3>3. f[1] = f[1 - 1] + y[1]
        BY <2>4, <3>2
      <3> QED BY <3>1, <3>2, <3>3 DEF Sums
    <2>6. f[1] = x
      OBVIOUS
    <2> HIDE DEF f
    <2>7. Total(y) = x
      BY <1>4, <2>3, <2>5, <2>6, TotalIsSum
    <2> QED BY <1>0, <1>5, <2>7 DEF kept, P
  <1>7. CASE x = 0 /\ \A k \in 1 .. m : a[k].venue # v
    <2>1. P = {}
      BY <1>7
    <2>2. c = 0
      BY <1>1, <2>1
    <2> HIDE DEF P, c, y
    <2> DEFINE f == [j \in 0 .. 0 |-> 0]
    <2>3. Sums(f, y, 0)
      BY DEF Sums
    <2>4. f[0] = 0
      OBVIOUS
    <2> HIDE DEF f
    <2>5. Total(y) = 0
      BY <1>4, <2>2, <2>3, <2>4, TotalIsSum
    <2> QED BY <1>0, <1>5, <1>7, <2>5 DEF kept, P
  <1> QED BY <1>6, <1>7 DEF HandedTo

\* The allocations a, to each venue at most once, leave whoever is not the best
\* of the ranking r its portion.
Spread(a, m, r, n, p) ==
  /\ a \in [1 .. m -> Alloc]
  /\ OncePerVenue(a, m)
  /\ \A k \in 1 .. m : a[k].qty > 0
  /\ \A i \in 2 .. n : HandedTo(a, m, r[i], p[i])

\* The best venue comes first or is left out.
BestFirst(a, m, best) == \A k \in 2 .. m : a[k].venue # best

\* a are the allocations of s that reach a lot, and s the portions p of the
\* ranking r, none of them less than a lot.
Trimmed(a, s, r, n, p, l) ==
  /\ p \in [1 .. n -> Int] /\ s \in [1 .. n -> Alloc]
  /\ \A i \in 1 .. n : (p[i] < l => p[i] = 0) /\ s[i].venue = r[i] /\ s[i].qty = p[i]
  /\ a = Kept(s, {i \in 1 .. n : s[i].qty >= l})

\* Then a spreads all of the portions.
SpreadAll(a, m, r, n, p) ==
  /\ Spread(a, m, r, n, p) /\ BestFirst(a, m, r[1])
  /\ Allocated(a) = Total(p)

\* Dropping portions of less than a lot drops nothing.
LEMMA TrimmedSpread ==
  ASSUME NEW n \in Nat \ {0}, NEW r, Different(r, n), NEW p, NEW l \in Nat \ {0},
         NEW s, NEW a, Trimmed(a, s, r, n, p, l)
  PROVE  \E m \in Nat : SpreadAll(a, m, r, n, p)
  <1> DEFINE K == {i \in 1 .. n : s[i].qty >= l}
             m == Cardinality(K)
  <1> /\ p \in [1 .. n -> Int] /\ s \in [1 .. n -> Alloc]
      /\ \A i \in 1 .. n : p[i] < l => p[i] = 0
      /\ \A i \in 1 .. n : s[i].venue = r[i] /\ s[i].qty = p[i]
    BY DEF Trimmed
  <1>18. a = Kept(s, K)
    BY DEF Trimmed
  <1>0. n \in Nat /\ K \in SUBSET (1 .. n) /\ r \in [1 .. n -> Venues]
        /\ \A i, j \in 1 .. n : r[i] = r[j] => i = j
    BY DEF Different
  <1>1. m \in 0 .. n /\ InOrder(a, s, K)
    <2> HIDE DEF K
    <2> QED BY <1>0, <1>18, KeptInOrder
  <1>2. m \in Nat
    BY ONLY <1>1, n \in Nat \ {0}
  <1>3. PICK at \in [1 .. m -> K] :
          /\ \A k \in 1 .. m : a[k] = s[at[k]]
          /\ \A i \in K : \E k \in 1 .. m : at[k] = i
          /\ \A j, k \in 1 .. m : j < k => at[j] < at[k]
    BY <1>1 DEF InOrder
  <1>4. a \in [1 .. m -> {s[i] : i \in K}]
    BY <1>1 DEF InOrder
  <1>5. {s[i] : i \in K} \subseteq Alloc
    OBVIOUS
  <1>6. \A i \in K : i \in 1 .. n /\ p[i] >= l
    OBVIOUS
  <1>7. \A i \in (1 .. n) \ K : p[i] = 0
    <2> TAKE i \in (1 .. n) \ K
    <2>1. p[i] \in Int /\ ~(p[i] >= l)
      OBVIOUS
    <2> QED BY <2>1
  <1> HIDE DEF K, m
  <1>8. a \in [1 .. m -> Alloc]
    BY <1>4, <1>5
  <1>9. \A k \in 1 .. m : at[k] \in K /\ at[k] \in 1 .. n
    BY <1>3, <1>6
  <1>10. \A k \in 1 .. m : a[k].venue = r[at[k]] /\ a[k].qty = p[at[k]]
    BY <1>3, <1>9
  <1>11. \A j, k \in 1 .. m : at[j] = at[k] => j = k
    <2> SUFFICES ASSUME NEW j \in 1 .. m, NEW k \in 1 .. m, at[j] = at[k], j # k
                 PROVE  FALSE
      OBVIOUS
    <2>1. j < k \/ k < j
      BY <1>2
    <2>2. at[j] \in 1 .. n /\ at[k] \in 1 .. n
      BY <1>9
    <2>3. ~(at[j] < at[k]) /\ ~(at[k] < at[j])
      BY <2>2
    <2> QED BY <1>3, <2>1, <2>3
  <1>12. OncePerVenue(a, m)
    <2> SUFFICES ASSUME NEW j \in 1 .. m, NEW k \in 1 .. m, a[j].venue = a[k].venue
                 PROVE  j = k
      BY DEF OncePerVenue
    <2>1. at[j] \in 1 .. n /\ at[k] \in 1 .. n /\ r[at[j]] = r[at[k]]
      BY <1>9, <1>10
    <2> QED BY <1>0, <1>11, <2>1
  <1>13. \A k \in 1 .. m : a[k].qty > 0
    <2> TAKE k \in 1 .. m
    <2>1. p[at[k]] >= l /\ p[at[k]] \in Int
      BY <1>6, <1>9
    <2> QED BY <1>10, <2>1
  <1>14. ASSUME NEW i \in 1 .. n
         PROVE  HandedTo(a, m, r[i], p[i])
    <2>1. CASE i \in K
      <3>1. PICK k \in 1 .. m : at[k] = i
        BY <1>3, <2>1
      <3> QED BY <1>10, <3>1 DEF HandedTo
    <2>2. CASE i \notin K
      <3>1. p[i] = 0
        BY <1>7, <2>2
      <3>2. \A k \in 1 .. m : a[k].venue # r[i]
        BY <1>0, <1>9, <1>10, <2>2
      <3> QED BY <3>1, <3>2 DEF HandedTo
    <2> QED BY <2>1, <2>2
  <1>15. BestFirst(a, m, r[1])
    <2> SUFFICES ASSUME NEW k \in 2 .. m, a[k].venue = r[1]
                 PROVE  FALSE
      BY DEF BestFirst
    <2>1. k \in 1 .. m /\ 1 \in 1 .. m /\ 1 < k /\ 1 \in 1 .. n
      BY <1>2
    <2>2. at[k] = 1
      BY <1>0, <1>9, <1>10, <2>1
    <2>3. at[1] < at[k] /\ at[1] \in 1 .. n
      BY <1>3, <1>9, <2>1
    <2> QED BY <2>2, <2>3
  <1>16. Allocated(a) = Total(p)
    <2> DEFINE t == [k \in 1 .. m |-> a[k].qty]
    <2>1. \A k \in 1 .. m : t[k] = a[k].qty /\ t[k] = p[at[k]]
      BY <1>10
    <2>2. t \in [1 .. m -> Int]
      BY <1>8 DEF Alloc
    <2> HIDE DEF t
    <2>5. QtyOf(t, a, m)
      BY <2>1, <2>2 DEF QtyOf
    <2>3. Allocated(a) = Total(t)
      BY <1>2, <1>8, <2>5, AllocatedIsSum
    <2>4. Total(t) = Total(p)
      <3>1. n \in Nat /\ p \in [1 .. n -> Int] /\ K \in SUBSET (1 .. n)
        BY <1>0
      <3>2. KeptOf(t, m, at, p, n, K)
        BY <1>2, <1>3, <1>7, <2>1, <2>2, <3>1 DEF KeptOf
      <3> QED BY <3>2, KeptTotal
    <2> QED BY <2>3, <2>4
  <1>17. Spread(a, m, r, n, p)
    <2>1. \A i \in 2 .. n : i \in 1 .. n
      OBVIOUS
    <2> QED BY <1>8, <1>12, <1>13, <1>14, <2>1 DEF Spread
  <1> QED BY <1>2, <1>15, <1>16, <1>17 DEF SpreadAll

\* The best venue takes what is left over as well.
LEMMA ToppedUp ==
  ASSUME NEW n \in Nat, NEW r, Different(r, n), 1 \in 1 .. n,
         NEW p \in [1 .. n -> Int], NEW m \in Nat \ {0}, NEW a, Spread(a, m, r, n, p),
         a[1].venue = r[1], NEW rest \in Nat \ {0},
         NEW b, b = [a EXCEPT ![1] = [venue |-> r[1], qty |-> a[1].qty + rest]]
  PROVE  Spread(b, m, r, n, p) /\ Allocated(b) = Allocated(a) + rest
  <1>0. a \in [1 .. m -> Alloc] /\ 1 \in 1 .. m /\ m \in Nat /\ r[1] \in Venues
    BY DEF Spread, Different
  <1>1. a[1].qty \in Int /\ a[1].qty > 0
    BY <1>0 DEF Spread, Alloc
  <1>2. b \in [1 .. m -> Alloc]
    <2>1. [venue |-> r[1], qty |-> a[1].qty + rest] \in Alloc
      BY <1>0, <1>1 DEF Alloc
    <2> QED BY <1>0, <2>1
  <1>3. /\ b[1].venue = r[1] /\ b[1].qty = a[1].qty + rest
        /\ \A k \in 1 .. m : k # 1 => b[k] = a[k]
    BY <1>0
  <1>4. \A k \in 1 .. m : b[k].venue = a[k].venue
    BY <1>0, <1>3
  <1>5. \A k \in 1 .. m : b[k].qty > 0
    <2> TAKE k \in 1 .. m
    <2>1. a[k].qty > 0
      BY DEF Spread
    <2> QED BY <1>1, <1>3, <2>1
  <1>6. OncePerVenue(b, m)
    BY <1>4 DEF Spread, OncePerVenue
  <1>7. ASSUME NEW i \in 2 .. n
        PROVE  HandedTo(b, m, r[i], p[i])
    <2>1. HandedTo(a, m, r[i], p[i])
      BY DEF Spread
    <2>2. r[i] # r[1]
      <3>1. i \in 1 .. n /\ i # 1
        OBVIOUS
      <3> QED BY <3>1 DEF Different
    <2>3. \A k \in 1 .. m : a[k].venue = r[i] => b[k] = a[k]
      BY <1>3, <2>2
    <2> QED BY <1>4, <2>1, <2>3 DEF HandedTo
  <1>8. Allocated(b) = Allocated(a) + rest
    <2> DEFINE x == [k \in 1 .. m |-> a[k].qty]
               y == [k \in 1 .. m |-> b[k].qty]
    <2>1. x \in [1 .. m -> Int] /\ (\A k \in 1 .. m : x[k] = a[k].qty) /\ QtyOf(x, a, m)
      BY <1>0 DEF Alloc, QtyOf
    <2>2. y \in [1 .. m -> Int] /\ (\A k \in 1 .. m : y[k] = b[k].qty) /\ QtyOf(y, b, m)
      BY <1>2 DEF Alloc, QtyOf
    <2> HIDE DEF x, y
    <2>3. PICK f : Sums(f, x, m)
      BY <1>0, <2>1, SumsExist
    <2> DEFINE g == [k \in 0 .. m |-> IF k = 0 THEN 0 ELSE f[k] + rest]
    <2>4. Sums(g, y, m)
      <3>1. f \in [0 .. m -> Int] /\ f[0] = 0 /\ \A k \in 1 .. m : f[k] = f[k - 1] + x[k]
        BY <2>3 DEF Sums
      <3>2. \A k \in 0 .. m : g[k] \in Int
        BY <3>1
      <3>3. g \in [0 .. m -> Int] /\ g[0] = 0
        BY <3>2
      <3>4. ASSUME NEW k \in 1 .. m
            PROVE  g[k] = g[k - 1] + y[k]
        <4>1. /\ k \in 0 .. m /\ k - 1 \in 0 .. m /\ k # 0
              /\ f[k] = f[k - 1] + x[k] /\ f[k - 1] \in Int /\ x[k] \in Int
          BY <2>1, <3>1
        <4>2. g[k] = f[k] + rest /\ g[k - 1] = IF k = 1 THEN 0 ELSE f[k - 1] + rest
          BY <4>1
        <4> HIDE DEF g
        <4>3. CASE k = 1
          BY <1>3, <2>1, <2>2, <3>1, <4>1, <4>2, <4>3
        <4>4. CASE k # 1
          <5>1. y[k] = x[k]
            <6>1. b[k] = a[k]
              BY <1>3, <4>4
            <6>2. y[k] = b[k].qty /\ x[k] = a[k].qty
              BY <2>1, <2>2
            <6> QED BY <6>1, <6>2, Zenon
          <5> QED BY <4>1, <4>2, <4>4, <5>1
        <4> QED BY <4>3, <4>4
      <3> HIDE DEF g
      <3> QED BY <3>3, <3>4 DEF Sums
    <2>5. g[m] = f[m] + rest
      BY <1>0
    <2> HIDE DEF g
    <2>6. Total(x) = f[m]
      BY <1>0, <2>1, <2>3, TotalIsSum
    <2>7. Total(y) = g[m]
      BY <1>0, <2>2, <2>4, TotalIsSum
    <2>8. Allocated(a) = Total(x)
      BY <1>0, <2>1, AllocatedIsSum
    <2>9. Allocated(b) = Total(y)
      BY <1>0, <1>2, <2>2, AllocatedIsSum
    <2> QED BY <2>5, <2>6, <2>7, <2>8, <2>9
  <1> QED BY <1>2, <1>5, <1>6, <1>7, <1>8 DEF Spread

\* b is a behind one more allocation.
InFront(b, best, rest, a) == b = <<Allocate(best, rest)>> \o a

\* The allocations b hand out rest more than a, by one allocation more.
OneMore(b, a, m, r, n, p, rest) ==
  Spread(b, m + 1, r, n, p) /\ Allocated(b) = Allocated(a) + rest

\* A best venue that had no lot comes in front.
LEMMA Prepended ==
  ASSUME NEW n \in Nat, NEW r, Different(r, n), 1 \in 1 .. n,
         NEW p \in [1 .. n -> Int], NEW m \in Nat, NEW a, Spread(a, m, r, n, p),
         ~\E k \in 1 .. m : a[k].venue = r[1], NEW rest \in Nat \ {0},
         NEW b, InFront(b, r[1], rest, a)
  PROVE  OneMore(b, a, m, r, n, p, rest)
  <1>0. a \in [1 .. m -> Alloc] /\ r[1] \in Venues
    BY DEF Spread, Different
  <1>1. /\ b \in [1 .. m + 1 -> Alloc]
        /\ b[1].venue = r[1] /\ b[1].qty = rest
        /\ \A k \in 1 .. m : b[k + 1] = a[k]
    <2> DEFINE first == Allocate(r[1], rest)
    <2>1. first \in Alloc /\ first.venue = r[1] /\ first.qty = rest
      BY <1>0 DEF Alloc, Allocate
    <2> HIDE DEF first
    <2>2. a \in Seq(Alloc) /\ Len(a) = m
      BY <1>0, IsSequence
    <2>3. <<first>> \in Seq(Alloc) /\ Len(<<first>>) = 1 /\ <<first>>[1] = first
      BY <2>1
    <2>4. b = <<first>> \o a
      BY DEF first, InFront
    <2> DEFINE one == <<first>>
    <2> HIDE DEF one
    <2>9. /\ one \o a \in Seq(Alloc) /\ Len(one \o a) = Len(one) + Len(a)
          /\ \A i \in 1 .. Len(one) + Len(a) :
               (one \o a)[i] = IF i <= Len(one) THEN one[i] ELSE a[i - Len(one)]
      BY <2>2, <2>3, ConcatProperties DEF one
    <2>5. /\ b \in Seq(Alloc) /\ Len(b) = 1 + m
          /\ \A i \in 1 .. 1 + m : b[i] = IF i <= 1 THEN <<first>>[i] ELSE a[i - 1]
      BY <2>2, <2>3, <2>4, <2>9 DEF one
    <2>6. b \in [1 .. m + 1 -> Alloc]
      <3>1. b \in [1 .. Len(b) -> Alloc]
        BY <2>5, LenProperties
      <3>2. Len(b) = m + 1
        BY <2>5
      <3> QED BY <3>1, <3>2
    <2>7. b[1] = first
      BY <2>3, <2>5
    <2>8. ASSUME NEW k \in 1 .. m
          PROVE  b[k + 1] = a[k]
      <3>1. k + 1 \in 1 .. 1 + m /\ ~(k + 1 <= 1) /\ (k + 1) - 1 = k
        OBVIOUS
      <3> QED BY <2>5, <3>1
    <2> QED BY <2>1, <2>6, <2>7, <2>8
  <1>2. ASSUME NEW k \in 1 .. m + 1, k # 1
        PROVE  k - 1 \in 1 .. m /\ b[k] = a[k - 1]
    <2>1. k - 1 \in 1 .. m /\ (k - 1) + 1 = k
      BY <1>2
    <2> QED BY <1>1, <2>1
  <1>3. \A k \in 1 .. m + 1 : b[k].qty > 0
    <2> TAKE k \in 1 .. m + 1
    <2>1. CASE k = 1
      BY <1>1, <2>1
    <2>2. CASE k # 1
      BY <1>2, <2>2 DEF Spread
    <2> QED BY <2>1, <2>2
  <1>4. OncePerVenue(b, m + 1)
    <2> SUFFICES ASSUME NEW j \in 1 .. m + 1, NEW k \in 1 .. m + 1, b[j].venue = b[k].venue, j # k
                 PROVE  FALSE
      BY DEF OncePerVenue
    <2>1. CASE j = 1
      BY <1>1, <1>2, <2>1
    <2>2. CASE k = 1
      BY <1>1, <1>2, <2>2
    <2>3. CASE j # 1 /\ k # 1
      <3>1. a[j - 1].venue = a[k - 1].venue /\ j - 1 \in 1 .. m /\ k - 1 \in 1 .. m
        BY <1>2, <2>3
      <3>2. j - 1 = k - 1
        BY <3>1 DEF Spread, OncePerVenue
      <3> QED BY <3>2
    <2> QED BY <2>1, <2>2, <2>3
  <1>5. ASSUME NEW i \in 2 .. n
        PROVE  HandedTo(b, m + 1, r[i], p[i])
    <2>1. HandedTo(a, m, r[i], p[i])
      BY DEF Spread
    <2>2. r[i] # r[1]
      <3>1. i \in 1 .. n /\ i # 1
        OBVIOUS
      <3> QED BY <3>1 DEF Different
    <2>3. CASE \E k \in 1 .. m : a[k].venue = r[i] /\ a[k].qty = p[i]
      <3>1. PICK k \in 1 .. m : a[k].venue = r[i] /\ a[k].qty = p[i]
        BY <2>3
      <3>2. k + 1 \in 1 .. m + 1 /\ b[k + 1] = a[k]
        BY <1>1
      <3> QED BY <3>1, <3>2 DEF HandedTo
    <2>4. CASE p[i] = 0 /\ \A k \in 1 .. m : a[k].venue # r[i]
      <3>1. \A k \in 1 .. m + 1 : b[k].venue # r[i]
        <4> TAKE k \in 1 .. m + 1
        <4>1. k = 1 => b[k].venue = r[1]
          BY <1>1
        <4>2. k # 1 => k - 1 \in 1 .. m /\ b[k] = a[k - 1]
          BY <1>2
        <4> QED BY <2>2, <2>4, <4>1, <4>2
      <3> QED BY <2>4, <3>1 DEF HandedTo
    <2> QED BY <2>1, <2>3, <2>4 DEF HandedTo
  <1>6. Allocated(b) = Allocated(a) + rest
    <2> DEFINE x == [k \in 1 .. m |-> a[k].qty]
               y == [k \in 1 .. m + 1 |-> b[k].qty]
    <2>1. x \in [1 .. m -> Int] /\ (\A k \in 1 .. m : x[k] = a[k].qty) /\ QtyOf(x, a, m)
      BY <1>0 DEF Alloc, QtyOf
    <2>2. y \in [1 .. m + 1 -> Int] /\ (\A k \in 1 .. m + 1 : y[k] = b[k].qty) /\ QtyOf(y, b, m + 1)
      BY <1>1 DEF Alloc, QtyOf
    <2> HIDE DEF x, y
    <2>3. PICK f : Sums(f, x, m)
      BY <2>1, SumsExist
    <2> DEFINE g == [k \in 0 .. m + 1 |-> IF k = 0 THEN 0 ELSE f[k - 1] + rest]
    <2>4. Sums(g, y, m + 1)
      <3>1. f \in [0 .. m -> Int] /\ f[0] = 0 /\ \A k \in 1 .. m : f[k] = f[k - 1] + x[k]
        BY <2>3 DEF Sums
      <3>2. \A k \in 0 .. m + 1 : g[k] \in Int
        <4> TAKE k \in 0 .. m + 1
        <4>1. k # 0 => k - 1 \in 0 .. m
          OBVIOUS
        <4> QED BY <3>1, <4>1
      <3>3. g \in [0 .. m + 1 -> Int] /\ g[0] = 0
        BY <3>2
      <3>4. ASSUME NEW k \in 1 .. m + 1
            PROVE  g[k] = g[k - 1] + y[k]
        <4>1. k \in 0 .. m + 1 /\ k - 1 \in 0 .. m + 1 /\ k # 0
          OBVIOUS
        <4>2. g[k] = f[k - 1] + rest /\ g[k - 1] = IF k = 1 THEN 0 ELSE f[(k - 1) - 1] + rest
          BY <4>1
        <4> HIDE DEF g
        <4>3. CASE k = 1
          BY <1>1, <2>2, <3>1, <4>2, <4>3
        <4>4. CASE k # 1
          <5>1. k - 1 \in 1 .. m /\ b[k] = a[k - 1]
            BY <1>2, <4>4
          <5>2. y[k] = x[k - 1]
            BY <2>1, <2>2, <5>1
          <5>3. f[k - 1] = f[(k - 1) - 1] + x[k - 1] /\ f[(k - 1) - 1] \in Int /\ x[k - 1] \in Int
            BY <2>1, <3>1, <5>1
          <5> QED BY <4>2, <4>4, <5>2, <5>3
        <4> QED BY <4>3, <4>4
      <3> HIDE DEF g
      <3> QED BY <3>3, <3>4 DEF Sums
    <2>5. g[m + 1] = f[m] + rest
      <3>1. m + 1 \in 0 .. m + 1 /\ m + 1 # 0 /\ (m + 1) - 1 = m
        OBVIOUS
      <3>2. \A k \in 0 .. m + 1 : k # 0 => g[k] = f[k - 1] + rest
        OBVIOUS
      <3> HIDE DEF g
      <3> QED BY <3>1, <3>2
    <2> HIDE DEF g
    <2>6. Total(x) = f[m]
      BY <2>1, <2>3, TotalIsSum
    <2>7. Total(y) = g[m + 1]
      BY <2>2, <2>4, TotalIsSum
    <2>8. Allocated(a) = Total(x)
      BY <1>0, <2>1, AllocatedIsSum
    <2>9. Allocated(b) = Total(y)
      <3>1. m + 1 \in Nat
        OBVIOUS
      <3> QED BY <1>1, <2>2, <3>1, AllocatedIsSum
    <2> QED BY <2>5, <2>6, <2>7, <2>8, <2>9
  <1> QED BY <1>1, <1>3, <1>4, <1>5, <1>6 DEF Spread, OneMore

-----------------------------------------------------------------------------
\* The whole order

\* The portions p are what the splitter computes.
Fitting(p, r, n, d, T, q, l) ==
  /\ p \in [1 .. n -> Int]
  /\ \A i \in 1 .. n : Fits(p[i], d[r[i]], T, q, l)

\* b is a with the rest for the best venue of the ranking r.
WithRest(b, a, r, rest) == b = ToBest(a, r[1], rest)

\* The allocations b hand out rest more than a.
RestSpread(b, a, k, r, n, p, rest) ==
  Spread(b, k, r, n, p) /\ Allocated(b) = Allocated(a) + rest

\* What is left of the order goes to the best venue, wherever it stands.
LEMMA RestToBest ==
  ASSUME NEW n \in Nat, NEW r, Different(r, n), 1 \in 1 .. n,
         NEW p \in [1 .. n -> Int], NEW m \in Nat, NEW a, Spread(a, m, r, n, p),
         BestFirst(a, m, r[1]), NEW rest \in Nat \ {0}, NEW c, WithRest(c, a, r, rest)
  PROVE  \E k \in Nat : RestSpread(c, a, k, r, n, p, rest)
  <1>4. c = ToBest(a, r[1], rest)
    BY DEF WithRest
  <1>1. a \in [1 .. m -> Alloc] /\ (a # <<>> <=> m # 0)
    <2>1. a \in [1 .. m -> Alloc]
      BY DEF Spread
    <2> QED BY <2>1, IsSequence
  <1>2. CASE a # <<>> /\ a[1].venue = r[1]
    <2> DEFINE b == [a EXCEPT ![1] = [venue |-> r[1], qty |-> a[1].qty + rest]]
    <2>0. m \in Nat \ {0} /\ 1 \in 1 .. m
      BY <1>1, <1>2
    <2>1. ToBest(a, r[1], rest) = b
      <3>1. a[1] \in Alloc /\ DOMAIN a = 1 .. m
        BY <1>1, <2>0
      <3>2. [a[1] EXCEPT !.qty = @ + rest] = [venue |-> r[1], qty |-> a[1].qty + rest]
        BY <1>2, <3>1 DEF Alloc
      <3>3. ToBest(a, r[1], rest) = [a EXCEPT ![1].qty = @ + rest]
        BY <1>2 DEF ToBest
      <3>4. [a EXCEPT ![1].qty = @ + rest] = [a EXCEPT ![1] = [a[1] EXCEPT !.qty = @ + rest]]
        BY <2>0, <3>1
      <3> QED BY <3>2, <3>3, <3>4
    <2> HIDE DEF b
    <2>2. Spread(b, m, r, n, p) /\ Allocated(b) = Allocated(a) + rest
      BY <1>2, <2>0, ToppedUp DEF b
    <2> QED BY <1>4, <2>1, <2>2 DEF RestSpread
  <1>3. CASE ~(a # <<>> /\ a[1].venue = r[1])
    <2> DEFINE b == <<Allocate(r[1], rest)>> \o a
    <2>1. ToBest(a, r[1], rest) = b
      BY <1>3 DEF ToBest
    <2>2. ~\E k \in 1 .. m : a[k].venue = r[1]
      <3> SUFFICES ASSUME NEW k \in 1 .. m, a[k].venue = r[1]
                   PROVE  FALSE
        OBVIOUS
      <3>1. m # 0 /\ (k = 1 \/ k \in 2 .. m)
        OBVIOUS
      <3> QED BY <1>1, <1>3, <3>1 DEF BestFirst
    <2>4. InFront(b, r[1], rest, a)
      BY DEF InFront
    <2> HIDE DEF b
    <2>3. OneMore(b, a, m, r, n, p, rest)
      BY <2>2, <2>4, Prepended
    <2> QED BY <1>4, <2>1, <2>3 DEF OneMore, RestSpread
  <1> QED BY <1>2, <1>3

\* The sums of naturals are naturals.
LEMMA TotalIsNat ==
  ASSUME NEW n \in Nat, NEW t \in [1 .. n -> Nat]
  PROVE  Total(t) \in Nat
  <1> DEFINE z == [k \in 1 .. n |-> 0]
             f == [k \in 0 .. n |-> 0]
  <1>0. t \in [1 .. n -> Int] /\ n \in 0 .. n
    OBVIOUS
  <1>1. PICK g : Sums(g, t, n)
    BY <1>0, SumsExist
  <1>2. z \in [1 .. n -> Int] /\ Sums(f, z, n) /\ f[n] = 0
    BY <1>0 DEF Sums
  <1>3. \A i \in 1 .. n : AtMost(z[i], 1, t[i], 1)
    BY DEF AtMost
  <1> HIDE DEF z, f
  <1>4. AtMost(f[n], 1, g[n], 1)
    <2>1. 1 \in Int
      OBVIOUS
    <2> QED BY <1>0, <1>1, <1>2, <1>3, <2>1, SumsBounded
  <1>5. g[n] \in Int
    BY <1>0, <1>1 DEF Sums
  <1>6. g[n] \in Nat
    BY <1>2, <1>4, <1>5 DEF AtMost
  <1> QED BY <1>0, <1>1, <1>6, TotalIsSum

\* The portions are together no more than the order, if what each may have too
\* much is less than a unit for all of them.
LEMMA PortionsFit ==
  ASSUME NEW n \in Nat, NEW p \in [1 .. n -> Int], NEW t \in [1 .. n -> Nat],
         NEW T \in Nat \ {0}, T = Total(t), NEW q \in Nat, NEW l \in Nat, Scale \in Nat \ {0},
         n * (q + l) < 2 * Scale, \A i \in 1 .. n : Near(p[i], t[i], T, q, l)
  PROVE  Total(p) \in Int /\ Total(p) <= q
  <1> DEFINE b == 2 * (Scale * q)
             c == T * (q + l)
             x == 2 * (Scale * T)
             z == [i \in 1 .. n |-> t[i] * b + c]
  <1>0. /\ t \in [1 .. n -> Int] /\ n \in 0 .. n /\ T \in Int /\ q \in Int
        /\ b \in Nat /\ c \in Nat /\ x \in Nat /\ q + l \in Nat
    OBVIOUS
  <1>1. PICK f : Sums(f, p, n)
    BY SumsExist
  <1>2. PICK g : Sums(g, t, n)
    BY <1>0, SumsExist
  <1> DEFINE h == [k \in 0 .. n |-> g[k] * b + k * c]
  <1>3. \A i \in 1 .. n : AtMost(p[i], x, z[i], 1)
    <2> TAKE i \in 1 .. n
    <2>1. p[i] \in Int /\ t[i] \in Int
      OBVIOUS
    <2>2. p[i] * x = 2 * (Scale * (p[i] * T)) /\ t[i] * b = 2 * (Scale * (t[i] * q))
      <3>1. \A u \in Int : u * (2 * (Scale * T)) = 2 * (Scale * (u * T))
        OBVIOUS
      <3>2. \A u \in Int : u * (2 * (Scale * q)) = 2 * (Scale * (u * q))
        OBVIOUS
      <3> QED BY <2>1, <3>1, <3>2
    <2>3. 2 * (Scale * (p[i] * T)) <= 2 * (Scale * (t[i] * q)) + T * (q + l)
      BY DEF Near
    <2>4. p[i] * x <= t[i] * b + c
      BY <2>2, <2>3
    <2>5. z[i] * 1 = t[i] * b + c
      <3>1. t[i] * b \in Int
        BY <1>0, <2>1
      <3> HIDE DEF b, c
      <3>2. t[i] * b + c \in Int /\ z[i] = t[i] * b + c
        BY <1>0, <3>1
      <3> QED BY <3>2
    <2> QED BY <2>4, <2>5 DEF AtMost
  <1> HIDE DEF b, c, x
  <1>4. z \in [1 .. n -> Int]
    <2> SUFFICES ASSUME NEW i \in 1 .. n
                 PROVE  t[i] * b + c \in Int
      OBVIOUS
    <2> QED BY <1>0
  <1>5. Sums(h, z, n)
    <2>1. g \in [0 .. n -> Int] /\ g[0] = 0 /\ \A k \in 1 .. n : g[k] = g[k - 1] + t[k]
      BY <1>2 DEF Sums
    <2>2. h \in [0 .. n -> Int]
      <3> SUFFICES ASSUME NEW k \in 0 .. n
                   PROVE  g[k] * b + k * c \in Int
        OBVIOUS
      <3> QED BY <1>0, <2>1
    <2>3. h[0] = 0
      <3>1. 0 \in 0 .. n /\ 0 * b = 0 /\ 0 * c = 0
        BY <1>0
      <3> QED BY <2>1, <3>1
    <2>4. ASSUME NEW k \in 1 .. n
          PROVE  h[k] = h[k - 1] + z[k]
      <3>1. k \in 0 .. n /\ k - 1 \in 0 .. n /\ k \in Int
        OBVIOUS
      <3>2. g[k] = g[k - 1] + t[k] /\ g[k - 1] \in Int /\ t[k] \in Int
        BY <1>0, <2>1, <3>1
      <3>3. h[k] = g[k] * b + k * c /\ h[k - 1] = g[k - 1] * b + (k - 1) * c
            /\ z[k] = t[k] * b + c
        BY <3>1
      <3>4. (g[k - 1] + t[k]) * b = g[k - 1] * b + t[k] * b /\ (k - 1) * c = k * c - c
            /\ g[k - 1] * b \in Int /\ t[k] * b \in Int /\ k * c \in Int
        <4>1. \A i, j \in Int : (i + j) * b = i * b + j * b /\ (i - 1) * c = i * c - c
                                /\ i * b \in Int /\ i * c \in Int
          BY <1>0
        <4> QED BY <3>1, <3>2, <4>1
      <3> DEFINE u == g[k - 1] * b
                 v == t[k] * b
                 w == k * c
      <3>5. h[k] = (u + v) + w /\ h[k - 1] = u + (w - c) /\ z[k] = v + c
        BY <3>2, <3>3, <3>4
      <3>6. u \in Int /\ v \in Int /\ w \in Int /\ c \in Int
        BY <1>0, <3>4
      <3> HIDE DEF h, z, u, v, w
      <3> QED BY <3>5, <3>6
    <2> HIDE DEF h, z
    <2> QED BY <2>2, <2>3, <2>4 DEF Sums
  <1>6. h[n] = g[n] * b + n * c
    BY <1>0
  <1> HIDE DEF h, z
  <1>7. AtMost(f[n], x, h[n], 1)
    <2>1. x \in Int /\ 1 \in Int
      BY <1>0
    <2> QED BY <1>1, <1>3, <1>4, <1>5, <2>1, SumsBounded
  <1>8. Total(p) = f[n] /\ T = g[n]
    BY <1>0, <1>1, <1>2, TotalIsSum
  <1>9. f[n] \in Int
    BY <1>0, <1>1 DEF Sums
  <1>10. f[n] * x <= T * b + n * c
    <2>1. T * b + n * c \in Int
      BY <1>0
    <2>2. h[n] = T * b + n * c
      BY <1>6, <1>8
    <2>3. f[n] * x <= h[n] * 1
      BY <1>7 DEF AtMost
    <2> QED BY <2>1, <2>2, <2>3
  <1>11. f[n] <= q
    <2> SUFFICES ASSUME q + 1 <= f[n]
                 PROVE  FALSE
      BY <1>0, <1>9
    <2>1. x * (q + 1) <= x * f[n]
      <3>1. q + 1 \in Int
        OBVIOUS
      <3> QED BY <1>0, <1>9, <3>1, Times
    <2>2. x * (q + 1) = T * b + 2 * (T * Scale) /\ T * b \in Int /\ T * Scale \in Int
      <3>1. T * Scale \in Int /\ Scale * q \in Int /\ T * (Scale * q) \in Int
        OBVIOUS
      <3>2. x * (q + 1) = 2 * ((Scale * T) * q) + 2 * (Scale * T)
        BY DEF x
      <3>3. (Scale * T) * q = T * (Scale * q) /\ Scale * T = T * Scale
        OBVIOUS
      <3>4. T * b = 2 * (T * (Scale * q))
        BY <3>1 DEF b
      <3>5. T * b \in Int
        BY <1>0
      <3> QED BY <3>1, <3>2, <3>3, <3>4, <3>5
    <2>3. n * c = T * (n * (q + l)) /\ n * (q + l) \in Int
      BY <1>0 DEF c
    <2>4. T * (n * (q + l)) <= T * (2 * Scale - 1)
      <3>1. n * (q + l) <= 2 * Scale - 1 /\ 2 * Scale - 1 \in Int
        BY <2>3
      <3> QED BY <2>3, <3>1, Times
    <2>5. T * (2 * Scale - 1) = 2 * (T * Scale) - T
      OBVIOUS
    <2>6. x * f[n] = f[n] * x /\ f[n] * x \in Int
      BY ONLY <1>0, <1>9
    <2>7. T * (n * (q + l)) \in Int
      BY <2>3
    <2> DEFINE u == T * (n * (q + l))
               v == T * b
               w == T * Scale
               y == f[n] * x
    <2>8. v + 2 * w <= y /\ y <= v + u /\ u <= 2 * w - T
      BY <1>10, <2>1, <2>2, <2>3, <2>4, <2>5, <2>6
    <2>9. u \in Int /\ v \in Int /\ w \in Int /\ y \in Int /\ T \in Nat \ {0}
      BY <2>2, <2>6, <2>7
    <2> HIDE DEF u, v, w, y
    <2> QED BY ONLY <2>8, <2>9
  <1> QED BY <1>8, <1>9, <1>11

\* A split of q into a, as the invariant has it.
Shared(a, m, r, n, d, T, q, l) ==
  /\ a \in [1 .. m -> Alloc] /\ OncePerVenue(a, m)
  /\ Allocated(a) = q
  /\ \A k \in 1 .. m : a[k].qty > 0
  /\ \A i \in 2 .. n : \E x \in Int :
       /\ HandedTo(a, m, r[i], x) /\ x % l = 0 /\ (x > 0 => (x - 1) * T < d[r[i]] * q)
       /\ m > 1 => d[r[i]] * q - x * T < (l + 1) * T

\* Allocations and a rest that are together the order split it.
LEMMA SpreadShares ==
  ASSUME NEW n \in Nat, NEW r, NEW d, NEW T, NEW q, NEW l \in Nat \ {0},
         NEW p, Fitting(p, r, n, d, T, q, l),
         NEW m \in Nat, NEW a, Spread(a, m, r, n, p), Allocated(a) = q
  PROVE  Shared(a, m, r, n, d, T, q, l)
  <1>1. ASSUME NEW i \in 2 .. n
        PROVE  \E x \in Int :
                 /\ HandedTo(a, m, r[i], x) /\ x % l = 0 /\ (x > 0 => (x - 1) * T < d[r[i]] * q)
                 /\ m > 1 => d[r[i]] * q - x * T < (l + 1) * T
    <2>1. i \in 1 .. n /\ HandedTo(a, m, r[i], p[i])
      BY DEF Spread
    <2>2. Fits(p[i], d[r[i]], T, q, l)
      BY <2>1 DEF Fitting
    <2>3. p[i] \in Int /\ p[i] % l = 0 /\ (p[i] > 0 => (p[i] - 1) * T < d[r[i]] * q)
          /\ d[r[i]] * q - p[i] * T < (l + 1) * T
      BY <2>2 DEF Fits
    <2> QED BY <2>1, <2>3
  <1> QED BY <1>1 DEF Spread, Shared

\* An order that one venue takes whole is split.
LEMMA WholeShares ==
  ASSUME NEW n \in Nat, NEW r, Different(r, n), 1 \in 1 .. n,
         NEW d, \A i \in 1 .. n : d[r[i]] \in Nat, NEW T \in Nat, NEW q \in Nat \ {0},
         NEW l \in Nat \ {0}
  PROVE  Shared(<<Allocate(r[1], q)>>, 1, r, n, d, T, q, l)
  <1> DEFINE one == Allocate(r[1], q)
             a == <<one>>
             x == [k \in 1 .. 1 |-> q]
             f == [j \in 0 .. 1 |-> IF j = 0 THEN 0 ELSE q]
  <1>1. one \in Alloc /\ one.venue = r[1] /\ one.qty = q
    BY DEF Different, Alloc, Allocate
  <1> HIDE DEF one
  <1>2. \A k \in 1 .. 1 : k = 1
    OBVIOUS
  <1>3. a[1] = one /\ DOMAIN a = 1 .. 1
    OBVIOUS
  <1>4. a \in [1 .. 1 -> Alloc]
    BY <1>1
  <1>5. f \in [0 .. 1 -> Int] /\ f[0] = 0 /\ f[1] = q
    OBVIOUS
  <1>6. x \in [1 .. 1 -> Int] /\ x[1] = q
    OBVIOUS
  <1>9. 1 \in 1 .. 1 /\ 1 \in Nat
    OBVIOUS
  <1> HIDE DEF f, x, a
  <1>7. Sums(f, x, 1)
    <2>1. f[1] = f[1 - 1] + x[1]
      BY <1>5, <1>6
    <2> QED BY <1>2, <1>5, <2>1 DEF Sums
  <1>8. Allocated(a) = q
    <2>1. QtyOf(x, a, 1)
      BY <1>1, <1>2, <1>3, <1>6 DEF QtyOf
    <2>2. Allocated(a) = Total(x)
      BY <1>4, <1>9, <2>1, AllocatedIsSum
    <2>3. Total(x) = f[1]
      BY <1>6, <1>7, <1>9, TotalIsSum
    <2> QED BY <1>5, <2>2, <2>3
  <1>10. ASSUME NEW i \in 2 .. n
         PROVE  \E y \in Int :
                  /\ HandedTo(a, 1, r[i], y) /\ y % l = 0 /\ (y > 0 => (y - 1) * T < d[r[i]] * q)
                  /\ 1 > 1 => d[r[i]] * q - y * T < (l + 1) * T
    <2>1. i \in 1 .. n /\ i # 1
      OBVIOUS
    <2>2. r[i] # r[1]
      BY <2>1 DEF Different
    <2>3. HandedTo(a, 1, r[i], 0)
      BY <1>1, <1>2, <1>3, <2>2 DEF HandedTo
    <2>4. 0 % l = 0 /\ ~(0 > 0) /\ ~(1 > 1) /\ 0 \in Int
      OBVIOUS
    <2> QED BY <2>3, <2>4
  <1>11. OncePerVenue(a, 1)
    BY <1>2 DEF OncePerVenue
  <1>12. \A k \in 1 .. 1 : a[k].qty > 0
    BY <1>1, <1>2, <1>3
  <1>13. Shared(a, 1, r, n, d, T, q, l)
    BY <1>4, <1>8, <1>10, <1>11, <1>12 DEF Shared
  <1> QED BY <1>13 DEF a, one

\* So is one that is divided by depth.
Division(a, r, n, d, T, q, l) ==
  LET s      == [k \in 1 .. n |-> Allocate(r[k], Portion(d[r[k]], T, q, l))]
      allocs == Kept(s, {k \in 1 .. n : s[k].qty >= l})
      rest   == q - Allocated(allocs)
  IN a = IF rest > 0 THEN ToBest(allocs, r[1], rest) ELSE allocs

\* Division by depth splits the order.
LEMMA DividedShares ==
  ASSUME NEW n \in Nat \ {0}, NEW r, Different(r, n), NEW d, \A i \in 1 .. n : d[r[i]] \in Nat,
         NEW T \in Nat \ {0}, T = TotalDepth(r, d), NEW q \in Nat \ {0},
         NEW l \in Nat \ {0}, Scale \in Nat \ {0}, n * (q + l) < 2 * Scale,
         NEW a, Division(a, r, n, d, T, q, l)
  PROVE  \E m \in Nat : Shared(a, m, r, n, d, T, q, l)
  <1> DEFINE t == [k \in 1 .. n |-> d[r[k]]]
             p == [k \in 1 .. n |-> Portion(d[r[k]], T, q, l)]
             s == [k \in 1 .. n |-> Allocate(r[k], Portion(d[r[k]], T, q, l))]
             allocs == Kept(s, {k \in 1 .. n : s[k].qty >= l})
             rest == q - Allocated(allocs)
  <1>0. n \in Nat /\ 1 \in 1 .. n /\ T \in Int /\ T \in Nat /\ q \in Nat /\ r \in [1 .. n -> Venues]
    BY DEF Different
  <1>1. a = IF rest > 0 THEN ToBest(allocs, r[1], rest) ELSE allocs
    BY DEF Division
  <1>2. t \in [1 .. n -> Nat] /\ \A k \in 1 .. n : t[k] = d[r[k]]
    OBVIOUS
  <1>3. T = Total(t)
    <2>1. t = [k \in DOMAIN r |-> d[r[k]]]
      BY <1>0
    <2> HIDE DEF t
    <2> QED BY <2>1 DEF TotalDepth
  <1>4. \A i \in 1 .. n : p[i] = Portion(d[r[i]], T, q, l)
    OBVIOUS
  <1>5. \A i \in 1 .. n : s[i] = Allocate(r[i], p[i])
    OBVIOUS
  <1>6. p = [i \in 1 .. n |-> p[i]] /\ s = [i \in 1 .. n |-> s[i]]
    OBVIOUS
  <1> HIDE DEF t, p
  <1>7. ASSUME NEW i \in 1 .. n
        PROVE  Fits(p[i], d[r[i]], T, q, l)
    <2>1. d[r[i]] \in Nat
      OBVIOUS
    <2>2. q + l < 2 * Scale
      <3>1. (q + l) * 1 <= (q + l) * n
        <4>1. q + l \in Nat /\ 1 \in Int /\ n \in Int /\ 1 <= n
          OBVIOUS
        <4> QED BY <4>1, Times
      <3>2. (q + l) * n = n * (q + l) /\ n * (q + l) \in Int
        OBVIOUS
      <3> QED BY <3>1, <3>2
    <2>3. Fits(Portion(d[r[i]], T, q, l), d[r[i]], T, q, l)
      BY <2>1, <2>2, PortionFits
    <2> QED BY <1>4, <2>3
  <1>8. ASSUME NEW i \in 1 .. n
        PROVE  p[i] \in Int /\ (p[i] < l => p[i] = 0)
    BY <1>7 DEF Fits
  <1>9. p \in [1 .. n -> Int]
    BY <1>6, <1>8
  <1>10. Fitting(p, r, n, d, T, q, l)
    BY <1>7, <1>9 DEF Fitting
  <1>11. \A i \in 1 .. n : Near(p[i], t[i], T, q, l)
    BY <1>2, <1>7 DEF Fits
  <1>12. Total(p) \in Int /\ Total(p) <= q
    BY <1>0, <1>2, <1>3, <1>9, <1>11, PortionsFit
  <1> HIDE DEF s
  <1>13. ASSUME NEW i \in 1 .. n
         PROVE  s[i].venue = r[i] /\ s[i].qty = p[i] /\ s[i] \in Alloc
    <2>1. r[i] \in Venues /\ p[i] \in Int
      BY <1>0, <1>8
    <2>2. s[i] = [venue |-> r[i], qty |-> p[i]]
      BY <1>5 DEF Allocate
    <2> QED BY <2>1, <2>2 DEF Alloc
  <1>14. s \in [1 .. n -> Alloc]
    BY <1>6, <1>13
  <1>15. PICK m \in Nat : /\ Spread(allocs, m, r, n, p) /\ BestFirst(allocs, m, r[1])
                          /\ Allocated(allocs) = Total(p)
    <2>1. Trimmed(allocs, s, r, n, p, l)
      BY <1>8, <1>9, <1>13, <1>14 DEF Trimmed
    <2> HIDE DEF allocs
    <2>2. \E m \in Nat : SpreadAll(allocs, m, r, n, p)
      BY <2>1, TrimmedSpread
    <2> QED BY <2>2 DEF SpreadAll
  <1> HIDE DEF allocs
  <1>16. rest \in Int /\ rest >= 0 /\ Allocated(allocs) + rest = q
    BY <1>12, <1>15
  <1> HIDE DEF rest
  <1>17. CASE rest > 0
    <2>1. rest \in Nat \ {0}
      BY <1>16, <1>17
    <2>2. a = ToBest(allocs, r[1], rest)
      BY <1>1, <1>17
    <2>3. PICK k \in Nat : Spread(a, k, r, n, p)
                           /\ Allocated(a) = Allocated(allocs) + rest
      <3>1. WithRest(a, allocs, r, rest)
        BY <2>2 DEF WithRest
      <3>2. \E k \in Nat : RestSpread(a, allocs, k, r, n, p, rest)
        BY <1>0, <1>9, <1>15, <2>1, <3>1, RestToBest
      <3> QED BY <3>2 DEF RestSpread
    <2>4. Allocated(a) = q
      BY <1>16, <2>3
    <2>5. Shared(a, k, r, n, d, T, q, l)
      BY <1>0, <1>10, <2>3, <2>4, SpreadShares
    <2> QED BY <2>5
  <1>18. CASE ~(rest > 0)
    <2>1. a = allocs /\ rest = 0
      BY <1>1, <1>16, <1>18
    <2>2. Allocated(a) = q
      BY <1>12, <1>15, <1>16, <2>1
    <2>3. Spread(a, m, r, n, p)
      BY <1>15, <2>1
    <2>4. Shared(a, m, r, n, d, T, q, l)
      BY <1>0, <1>10, <2>2, <2>3, SpreadShares
    <2> QED BY <2>4
  <1> QED BY <1>17, <1>18

\* What the invariant asks of a split that succeeds, and of a split.
SharedOut(a, r, d, T, q, l) ==
  /\ a # Panic /\ Allocated(a) = q
  /\ \A k \in DOMAIN a : a[k].qty > 0
  /\ Cardinality(VenuesOf(a)) = Len(a)
  /\ \A v \in ToSet(Tail(r)) :
       LET h     == Allocated(Kept(a, {k \in DOMAIN a : a[k].venue = v}))
           share == d[v] * q
       IN /\ h % l = 0 /\ (h > 0 => (h - 1) * T < share)
          /\ Len(a) > 1 => share - h * T < (l + 1) * T

SplitSound(s) ==
  s.ranked # <<>> =>
    LET total == TotalDepth(s.ranked, s.depth) IN
    \/ s.answer = Panic /\ total = 0
    \/ SharedOut(s.answer, s.ranked, s.depth, total, s.qty, s.lot)

\* The invariant, in these terms.
LEMMA SplitConservesSplits ==
  /\ SplitConserves <=> (asked.call = "split" => SplitSound(asked))
  /\ SplitConserves' <=> (asked'.call = "split" => SplitSound(asked'))
  BY DEF SplitConserves, SplitSound, SharedOut

\* Who shares an order as above splits it as the invariant asks.
LEMMA SharedIsOut ==
  ASSUME NEW n \in Nat \ {0}, NEW r, Different(r, n), NEW d, NEW T, NEW q, NEW l,
         NEW m \in Nat, NEW a, Shared(a, m, r, n, d, T, q, l)
  PROVE  SharedOut(a, r, d, T, q, l)
  <1>0. a \in [1 .. m -> Alloc] /\ OncePerVenue(a, m)
    BY DEF Shared
  <1>1. Len(a) = m /\ DOMAIN a = 1 .. m
    BY <1>0, IsSequence
  <1>2. a # Panic
    <2> SUFFICES ASSUME a = Panic
                 PROVE  FALSE
      OBVIOUS
    <2>1. a = <<Allocate("none", 0)>>
      BY DEF Panic, None
    <2> DEFINE one == Allocate("none", 0)
    <2>2. one.qty = 0
      BY DEF Allocate
    <2> HIDE DEF one
    <2>3. a[1] = one /\ 1 \in DOMAIN a
      BY <2>1 DEF one
    <2>4. a[1].qty > 0
      BY <1>1, <2>3 DEF Shared
    <2> QED BY <2>2, <2>3, <2>4
  <1>3. Cardinality(VenuesOf(a)) = Len(a)
    <2> DEFINE V == VenuesOf(a)
               w == [k \in 1 .. m |-> a[k].venue]
    <2>1. V = {a[k].venue : k \in 1 .. m}
      BY <1>1 DEF VenuesOf
    <2>2. w \in [1 .. m -> V] /\ \A x \in V : \E k \in 1 .. m : w[k] = x
      BY <2>1
    <2>3. \A j, k \in 1 .. m : w[j] = w[k] => j = k
      BY <1>0 DEF OncePerVenue
    <2> HIDE DEF V, w
    <2>4. Cardinality(V) = m
      BY <2>2, <2>3, DistinctCount
    <2> QED BY <1>1, <2>4 DEF V
  <1>4. ASSUME NEW v \in ToSet(Tail(r))
        PROVE  \E i \in 2 .. n : v = r[i]
    <2>1. r \in Seq(Venues) /\ Len(r) = n /\ r # <<>>
      BY IsSequence DEF Different
    <2>2. Tail(r) \in Seq(Venues) /\ Len(Tail(r)) = n - 1
          /\ \A k \in 1 .. n - 1 : Tail(r)[k] = r[k + 1]
      BY <2>1, HeadTailProperties
    <2>3. DOMAIN Tail(r) = 1 .. n - 1
      BY <2>2, LenProperties
    <2>4. PICK k \in 1 .. n - 1 : v = Tail(r)[k]
      BY <2>3 DEF ToSet
    <2>5. k + 1 \in 2 .. n
      OBVIOUS
    <2> QED BY <2>2, <2>4, <2>5
  <1>5. ASSUME NEW v \in ToSet(Tail(r))
        PROVE  LET h     == Allocated(Kept(a, {k \in DOMAIN a : a[k].venue = v}))
                   share == d[v] * q
               IN /\ h % l = 0 /\ (h > 0 => (h - 1) * T < share)
                  /\ Len(a) > 1 => share - h * T < (l + 1) * T
    <2>1. PICK i \in 2 .. n : v = r[i]
      BY <1>4
    <2>2. PICK x \in Int : /\ HandedTo(a, m, v, x) /\ x % l = 0 /\ (x > 0 => (x - 1) * T < d[v] * q)
                           /\ m > 1 => d[v] * q - x * T < (l + 1) * T
      BY <2>1 DEF Shared
    <2>3. Allocated(Kept(a, {k \in DOMAIN a : a[k].venue = v})) = x
      BY <1>0, <2>2, OneVenue
    <2> QED BY <1>1, <2>2, <2>3
  <1>6. (\A k \in 1 .. m : a[k].qty > 0) /\ Allocated(a) = q
    BY DEF Shared
  <1> QED BY <1>1, <1>2, <1>3, <1>5, <1>6 DEF SharedOut

\* The splitter's answer, whatever it is asked.
LEMMA SplitAnswers ==
  ASSUME NEW q \in OrderSizes, NEW r \in Lists, NEW l \in LotSizes,
         NEW d \in [ToSet(r) -> Depths], Split(q, r, d, l)
  PROVE  asked'.call = "split" /\ SplitSound(asked')
  <1> DEFINE a == SplitOrder(q, r, d, l)
             T == TotalDepth(r, d)
  <1>1. /\ asked'.call = "split" /\ asked'.qty = q /\ asked'.ranked = r
        /\ asked'.depth = d /\ asked'.lot = l /\ asked'.answer = a
    BY DEF Split
  <1>2. PICK n \in Nat : n <= Cardinality(Venues) /\ Different(r, n)
    BY ListsAreDifferent
  <1>3. r \in [1 .. n -> Venues] /\ Len(r) = n /\ DOMAIN r = 1 .. n /\ (r = <<>> <=> n = 0)
    BY <1>2, IsSequence DEF Different
  <1>4. /\ q \in Nat \ {0} /\ l \in Nat \ {0} /\ Scale \in Nat \ {0} /\ Depths \subseteq Nat
        /\ n * (q + l) < 2 * Scale
    <2>1. /\ q \in Nat \ {0} /\ l \in Nat \ {0} /\ Scale \in Nat \ {0} /\ Depths \subseteq Nat
          /\ Cardinality(Venues) * (q + l) < 2 * Scale /\ Cardinality(Venues) \in Nat
      BY RoutingAssumption, PreciseDivision, FS_CardinalityType
    <2> DEFINE c == Cardinality(Venues)
    <2>2. c \in Nat /\ n <= c /\ c * (q + l) < 2 * Scale
      BY <1>2, <2>1
    <2> HIDE DEF c
    <2>3. (q + l) * n <= (q + l) * c
      <3>1. q + l \in Nat /\ n \in Int /\ c \in Int
        BY <2>1, <2>2
      <3> QED BY <2>2, <3>1, Times
    <2>4. /\ (q + l) * n = n * (q + l) /\ (q + l) * c = c * (q + l)
          /\ n * (q + l) \in Int /\ c * (q + l) \in Int
      BY <2>1, <2>2
    <2> QED BY <2>1, <2>2, <2>3, <2>4
  <1>5. \A i \in 1 .. n : d[r[i]] \in Nat
    <2> TAKE i \in 1 .. n
    <2>1. r[i] \in ToSet(r)
      BY <1>3 DEF ToSet
    <2> QED BY <1>4, <2>1
  <1>6. T \in Nat
    <2> DEFINE t == [k \in 1 .. n |-> d[r[k]]]
    <2>1. t \in [1 .. n -> Nat]
      BY <1>5
    <2>2. t = [k \in DOMAIN r |-> d[r[k]]]
      BY <1>3
    <2> HIDE DEF t
    <2>3. T = Total(t)
      BY <2>2 DEF TotalDepth
    <2> QED BY <2>1, <2>3, TotalIsNat
  <1>7. ASSUME n # 0
        PROVE  (a = Panic /\ T = 0) \/ SharedOut(a, r, d, T, q, l)
    <2>0. n \in Nat \ {0} /\ 1 \in 1 .. n /\ r # <<>>
      BY <1>3, <1>7
    <2>1. CASE Len(r) = 1 \/ 2 * q <= d[r[1]]
      <3>1. a = <<Allocate(r[1], q)>>
        BY <2>0, <2>1 DEF SplitOrder
      <3> HIDE DEF a, T
      <3>2. Shared(a, 1, r, n, d, T, q, l)
        BY <1>2, <1>4, <1>5, <1>6, <2>0, <3>1, WholeShares
      <3>3. 1 \in Nat
        OBVIOUS
      <3> QED BY <1>2, <2>0, <3>2, <3>3, SharedIsOut
    <2>2. CASE ~(Len(r) = 1 \/ 2 * q <= d[r[1]]) /\ T = 0
      <3>1. a = Panic
        BY <2>0, <2>2 DEF SplitOrder
      <3> QED BY <2>2, <3>1
    <2>3. CASE ~(Len(r) = 1 \/ 2 * q <= d[r[1]]) /\ T # 0
      <3>1. Division(a, r, n, d, T, q, l)
        <4> DEFINE s == [k \in 1 .. n |-> Allocate(r[k], Portion(d[r[k]], T, q, l))]
                   K == {k \in 1 .. n : s[k].qty >= l}
                   allocs == Kept(s, K)
                   rest == q - Allocated(allocs)
        <4>1. DOMAIN s = 1 .. n /\ DOMAIN r = 1 .. n
          BY <1>3
        <4>2. a = IF rest > 0 THEN ToBest(allocs, r[1], rest) ELSE allocs
          BY <2>0, <2>3, <4>1 DEF SplitOrder
        <4> QED BY <4>2 DEF Division
      <3>2. T \in Nat \ {0} /\ T = TotalDepth(r, d)
        BY <1>6, <2>3
      <3> HIDE DEF a, T
      <3>3. PICK m \in Nat : Shared(a, m, r, n, d, T, q, l)
        BY <1>2, <1>4, <1>5, <2>0, <3>1, <3>2, DividedShares
      <3> QED BY <1>2, <2>0, <3>3, SharedIsOut
    <2> QED BY <2>1, <2>2, <2>3
  <1> HIDE DEF a
  <1> QED BY <1>1, <1>3, <1>7 DEF SplitSound

\* A split hands out the whole order and no more, in positive quantities, to
\* each venue at most once; whoever is not the best venue has whole lots, its
\* share of the depth rounded up to a unit at most and no more than a lot and a
\* unit less than its share; and it fails only where no venue has any depth: for
\* any depths, and for any orders and lots that are small, times the number of
\* venues, beside the precision of decimal division.
THEOREM RouterSplits == RouterSpec => []SplitConserves
  <1>1. RouterInit => SplitConserves
    <2> SUFFICES ASSUME RouterInit
                 PROVE  SplitConserves
      OBVIOUS
    <2>1. asked.call = "none"
      BY DEF RouterInit, None
    <2> QED BY <2>1, SplitConservesSplits
  <1>2. SplitConserves /\ [RouterNext]_routerVars => SplitConserves'
    <2> SUFFICES ASSUME SplitConserves, [RouterNext]_routerVars
                 PROVE  SplitConserves'
      OBVIOUS
    <2>1. CASE UNCHANGED asked
      BY <2>1, SplitConservesSplits
    <2>2. CASE Ask
      <3>1. ASSUME NEW name, NEW order, NEW l, NEW quote, NEW scores,
                   Route(name, order, l, quote, scores)
            PROVE  asked'.call = "route"
        BY <3>1 DEF Route
      <3>2. ASSUME NEW side, NEW l, NEW fresh, NEW quote, Compare(side, l, fresh, quote)
            PROVE  asked'.call = "compare"
        BY <3>2 DEF Compare
      <3>3. ASSUME NEW q \in OrderSizes, NEW r \in Lists, NEW l \in LotSizes,
                   NEW d \in [ToSet(r) -> Depths], Split(q, r, d, l)
            PROVE  SplitSound(asked')
        BY <3>3, SplitAnswers
      <3>4. asked'.call \in {"route", "compare"} \/ SplitSound(asked')
        BY <2>2, <3>1, <3>2, <3>3 DEF Ask
      <3> QED BY <3>4, SplitConservesSplits
    <2> QED BY <2>1, <2>2 DEF RouterNext, routerVars, Register, SetDefault
  <1> QED BY <1>1, <1>2, PTL DEF RouterSpec
==============================================================================
