# A verification project for SynapseOMS

SynapseOMS is an order management system: a Go **gateway** takes orders over REST, checks them
with a Python **risk engine**, routes them to trading venues, and books the fills the venues
report; a React **dashboard** shows the result. This directory holds TLA+ specifications of the
parts of it where many goroutines, tables and outside systems must agree, the TLC models that
check them on small instances, and TLAPS proofs that hold for every instance.

Run everything in this directory (these are the runs `PROJECT.json` lists; "Further runs" in section 4
has some more):

    tlc -workers 2 -config PipelineFaults.cfg MCOrderPipeline.tla     # about 20 s
    tlc -workers 2 -config PipelineCalm.cfg   MCOrderPipeline.tla     # about 140 s
    tlc -workers 2 -config Binance.cfg     MCBinanceAdapter.tla       # about 40 s
    tlc -workers 2 -config Alpaca.cfg      MCAlpacaAdapter.tla        # about 30 s
    tlc -workers 2 -config Simulated.cfg   MCSimulatedExchange.tla    # about 70 s
    tlc -workers 2 -config Credentials.cfg MCCredentials.tla          # about 10 s
    tlc -workers 2 -config Hub.cfg         MCHub.tla                  # about 60 s
    tlc -workers 2 -config Routing.cfg     MCRouting.tla              # about 30 s
    tlc -workers 2 -config Positions.cfg   MCPositions.tla            # about 130 s

    # each of these ends in a counterexample after some seconds
    tlc -config PipelineLateAccept.cfg MCOrderPipeline.tla
    tlc -config PipelinePricing.cfg    MCOrderPipeline.tla
    tlc -config PipelineCancel.cfg     MCOrderPipeline.tla

    tlapm OrderPipelineProofs.tla                                     # about 5 minutes
    tlapm VenueRequestsProofs.tla                                     # the others: a minute or two each
    tlapm BinanceProofs.tla
    tlapm AlpacaProofs.tla
    tlapm SimulatedExchangeProofs.tla
    tlapm PositionsProofs.tla
    tlapm CredentialsProofs.tla
    tlapm HubProofs.tla

## 1. Inventory of the system

Paths are below `src/gateway/internal/` unless they say otherwise.

| Part | State it keeps | Operations | Talks to | What makes it correct |
|---|---|---|---|---|
| Order record (`domain/order.go`) | status, quantity, filled quantity, venue | `ApplyTransition`, `ApplyFill`, under a mutex | - | the status machine; status and filled quantity agree |
| Order pipeline (`pipeline/pipeline.go`) | `orderMap`; channels `intake`, `riskOut`, one `dispatchCh` per venue | `Submit`; goroutines: 32 risk workers, 1 router, 1 dispatcher and 1 fill collector per venue | store, risk client, router, adapters, Kafka, WebSocket hub | nothing booked that no venue executed; nothing at a venue that is not on record; no order forgotten; events in order |
| Position pricer (`pipeline/pricer.go`) | none | `OnMarketData`, one call per tick | store | a price update changes only the price |
| REST (`rest/`) | none; venue handler: `mdCancels` | submit, cancel, list; connect and disconnect venues; credentials | pipeline, store, adapters | what the client is told is what happens |
| Venue adapters (`adapter/...`) | connection status, fill channel of 1000, order id maps | `Connect`, `Disconnect`, `SubmitOrder`, `CancelOrder`, `FillFeed` | venues | every execution delivered once, under the gateway's order id |
| Simulated exchange (`adapter/simulated`) | price walks, books of limit orders | `ProcessOrder`, sweep every 50 ms | collector, through the fill channel | each order filled at most once; no deadlock on a full channel |
| Crossing engine (`crossing/engine.go`) | resting orders per instrument | `AddOrder`, `TryCross` | pipeline | both sides of a cross are booked |
| Router (`router/`) | strategies | `Route`, strategies, `SplitOrder` | - | allocations add up to the order and name usable venues |
| Store (`store/`, PostgreSQL) | tables `orders`, `fills`, `positions`, ... | single-statement reads and writes, no transactions across calls | - | rows agree with each other |
| Credential vault (`credential/`) | encrypted rows, one passphrase in memory | `Store`, `Retrieve`, `RotatePassphrase` | store | every row can be read with the current passphrase |
| WebSocket hub (`ws/hub.go`) | clients; one pending position update | broadcast, throttled | dashboard | every client sees the last value of every position |
| Bar aggregator (`marketdata/`) | one bar per instrument | `Ingest`, `Flush` | hub | each period is completed once |
| Risk client, Kafka (`grpc/`, `kafka/`) | - | `CheckPreTradeRisk` (100 ms), publish, consume alerts | risk engine | - |
| Risk engine (`src/risk-engine`) | portfolio (positions, cash, unsettled cash), settlement records, consumer position | apply fill, hydrate, check an order, settle | Kafka, PostgreSQL, gRPC | the portfolio counts every fill exactly once |
| Analytics, AI services, dashboard | views and statistics | - | REST, WebSocket | outside these models |

How they interact: a REST handler calls `Submit`, which inserts the row and pushes the order
on a channel; from there on the order moves from goroutine to goroutine, and each of them
changes the shared `*domain.Order`, writes its row and publishes events. A venue reports fills
on the channel of its adapter; the collector of that venue changes the same order objects and
the position row. The pricer changes the position row too. Kafka carries the lifecycle events to
the risk engine, which keeps a second copy of the positions.

What is hard about it: the dispatcher and the collector work on the same order at the same time,
each store call can fail separately and most failures end the work on that order or fill, venues
connect and disconnect at any moment, several goroutines read a row and write it back whole, and a
restart loses everything that is not in a table. `PROJECT.json` lists each hazard at its line,
with the properties that cover it or a note why none does.

## 2. Plan

Written, in this order:

1. **The order pipeline**: `Order`, `OrderLifecycle`, `OrderPipeline` and `OrderPipelineProofs`.
2. **The venues**: `VenueRequests` (the REST handlers that connect and disconnect), which
   `BinanceAdapter`, `AlpacaAdapter` and `SimulatedExchange` extend each with what their
   `Connect` and `Disconnect` do; `FillStream`, the abstract contract of `FillFeed()`, which the two
   streaming adapters implement.
3. **The two books**: `Positions`, the sell gate, the row and the risk engine's portfolio.
4. **Shared services**: `Credentials`, the vault; `Hub`, the WebSocket hub; `Routing`, the router.
   `Decimals` has what `Routing` and `Positions` share, the sides and decimal division; so that one
   module can prove about both, the actions of `Routing` are `RouterInit` and `RouterNext`.

Abstract specifications: `OrderLifecycle` for the orders table, `FillStream` for a fill feed. Where
the code keeps a promise only for some histories, the module has a history variable that names
them (`late`, `orderly`, `overtaken`, `raced`, `lost`, `straddled`, `disturbed`, `owed`), and the
property says what holds in all the others. Where a document or a test promises those histories
too, a run of its own shows how the code breaks the promise.

Proved (section 5): every safety invariant the passing runs check, and the three refinements. Each
component has its proofs in a module of its own, but for the router, whose are with those of
`Positions`, the other place where decimals are rounded; what the three venue modules have in
common is proved once, in `VenueRequestsProofs`. No module declares a RECURSIVE operator, so all can
be proved about.

To model, if the code comes to use it or time allows: the bar aggregator, the crossing engine, the
pre-trade limits and the settlement tracker of the risk engine.

## 3. Modules and the code

**`Order`** is the order record: `ValidTransitions` is the table `validTransitions`;
`CanTransition` and `Transition` are `ApplyTransition`, whose callers ignore the error or give
up; `CanFill` and `ApplyFill` are the two error returns and the effect of `ApplyFill`. Prices and
the average price are left out, quantities are naturals.

**`OrderLifecycle`** is the contract of a row of the orders table as a polling client sees it:
created New, given a venue while it is New, then only forward through the statuses, with filled
quantity that never shrinks. Of an order in doubt (`doubtful`), which a venue may have although the
gateway was told it has not, it promises less: a `Revise` may take a counted fill back, but the row
still does not pass between filled and rejected. `Later` differs from `ValidTransitions` on purpose: a row may skip
statuses, because memory moves on before the row is written, and partial fills repeat.

**`OrderPipeline`** is the gateway around those records.

| Variable | In the code |
|---|---|
| `order`, `tracked` | the `*domain.Order` objects, the keys of `orderMap` |
| `stage` | where the pipeline holds the order: a channel (`intake`, `riskOut`, `queued`) or a goroutine (`submitted` in the HTTP handler, `checking` in a risk worker, `routed` and `cleared` in the router before and after the venue check, `acked`, `calling`, `rejArgs`, `rejSave` in a dispatcher), or that it holds it no longer |
| `arg` | arguments of an `UpdateOrder` call read without the order's mutex |
| `first`, `smart` | `p.venues[0]`; whether the router's order came without a venue |
| `ready` | venues whose adapter says Connected |
| `rows`, `fills`, `pos` | the three tables; a position row is the set of fills its quantity counts, so that a lost or invented fill is visible |
| `book`, `feed` | what a venue knows of an order, the adapter's fill channel |
| `coll`, `pricer` | the local variables of fill collector and pricer, one each per venue |
| `topic` | the events published for each order |
| `canceled` | orders whose DELETE request was answered with 200 |
| `late` | not in the code: orders whose `SubmitOrder` failed although the venue has them |

Actions follow the code's calls. A store call is a step of its own wherever another goroutine
can touch the same data before the next call: `processFill` is `TakeFill` (lookup and
`ApplyFill`), `SaveFill`, `SaveOrder`, `ReadPosition`, `SavePosition`; the dispatcher is
`Acknowledge`, `SaveAck`, the call itself (`VenueAccept` is the venue's side of it), `SubmitOk`
or `SubmitError`, `ReadStatusArg`, `SaveRejected`; the pricer is `ReadForPrice`, `SavePrice`.
Where nobody else can act in between, calls share a step: `Submit` (the order is not in any
channel yet) and `Reject` (the order is at no venue). A failing call is in `Faults`. It ends the
work as in the code: some errors are ignored, some lead to `stuck`, some free the collector.

`VenueFill` is an execution that is reported: with a full channel it waits, as the simulated
exchange does. `LoseFill` is one that is not, which happens to the streaming adapters (`Lossy`):
they drop a fill on a full channel, and their connection may be down.

`SubmitError` is an error of `SubmitOrder`, before the venue has the order or after: the adapters for
Binance and Alpaca send a request that can time out when it has done its work. The simulated
exchange (`InProcess`) returns its errors before it takes an order. `SubmitError` rejects the order
in memory and reads the filled quantity, `ReadStatusArg` the status, because `UpdateOrder`
evaluates its arguments in this order without the mutex while a collector may apply a fill.
`Restart` empties memory and channels: the goroutines leave at their next select, main does not
read the orders table, and an exchange simulated in the process (`InProcess`) forgets its orders.

**`MCOrderPipeline`** adds the symmetry of orders; the other MC modules give their constants the
values of one small instance. **`OrderPipelineProofs`**, **`VenueRequestsProofs`**,
**`BinanceProofs`**, **`AlpacaProofs`**, **`SimulatedExchangeProofs`**, **`CredentialsProofs`**,
**`HubProofs`** and **`PositionsProofs`** hold the inductive invariants and the theorems of the
module each is named after.

**`VenueRequests`** is `rest/handler_venue.go`. Each request has its own goroutine; `pc[r]` is what
it does next. `mdCancels` is a map nobody locks: each access is a step (`DisconnectArrives` looks
the cancel function up and calls it, `ForgetCancel` deletes the entry, `RegisterCancel` writes
one), so that requests can meet between them. `Connected` and `Subscribed` are the handler's
reactions to the adapter's answers, which the adapter's module uses in its own actions. `orderly`
records whether clients so far connected a disconnected venue, disconnected a connected one and
waited for answers: nothing in the code asks them to.

**`BinanceAdapter`**: `Connect`, `Disconnect` and `SubscribeMarketData` hold `a.mu` from beginning to
end and are one action each. Feeds are named by the request that made them, `userFeed` and
`marketFeed` are the adapter's pointers, `loops` its keep-alive goroutines. `ReadLoop` is one
iteration of the user feed's loop, `SocketBreaks` its end: it does not come back, the status stays
Connected, and no code reconnects (the tip at `src/docs/write-adapter.md:276` asks for it).
`CancelTry` is one round of the loop over all symbols in the random order of a Go map; two orders of
the model have the same number on different symbols.

**`AlpacaAdapter`**: `Connect` is five actions, one per stretch between two accesses of `a.mu`;
`holder` is the `Disconnect` that keeps the lock while it waits for the goroutines of both feeds.
A goroutine goes through `dial`, `read`, `close`, `ended`, and asks `Canceled` only between events.
`ContextEnded` is the context of the connect request, which net/http cancels as soon as the request
is answered (`adapter.go:164`): a feed lives no longer than its request and one message. `OrderID` is
the order id that `mapToFill` puts on a fill, `named` the ids on the fills delivered so far.

**`FillStream`** says what a fill collector may expect of `FillFeed()`: each open stream hears of an
execution once, and each message becomes at most one fill. `Stream == INSTANCE FillStream WITH ...`
in both adapters maps open sockets to `open` and the content of their inboxes to `due`.

**`SimulatedExchange`**: a sweep is `ReadPrice`, `LockBook`, `Match` for each order, `UnlockBook`,
with `mutex`, `todo` and `kept` the lock and the two halves of the loop; `Match` waits for room in
the channel with the lock held. `ticking` is the ticker that all walkers share, `StopEngine` the
signal that is lost when nobody waits for it. `overtaken` records a `Start` that came before the
walker it replaces had ended, which then stops the new ticker.

**`Credentials`**: one action per statement of `Store`, `Delete`, `Retrieve` and `RotatePassphrase`,
any of which may fail. A row is a credential and the passphrase that opens it; encryption is exactly
this pairing. `raced`, `straddled` and `disturbed` name the histories the code does not survive.

**`Hub`**: `Broadcast` to the registered clients under the hub's lock, `NotifyNow`, `NotifyLater` and
`TimerFires` are the throttle, `UpdatePosition` the write whose result is announced in a later step
(so that two announcements may change places). A position is its version. `owed` is the set of
clients and instruments for which the hub has not yet lost or overtaken the last version; when an
update goes out directly and another version of the same instrument waits, the client is no longer
owed that instrument, because the timer will send the waiting one last.

**`Routing`**: the strategies, the comparator and `SplitOrder` are functions of an order, candidates
and quotes; `strategies` and `default` are the registry, `asked` the last question with its answer.
Decimal division is rounded to `1 / Scale`. The sort is the stable one of `sort.SliceStable`, by
what it computes: an element's place is one more than the number of those that come before it
(`Before`), so that sorting needs no recursion. `Kept` drops elements the same way.

**`Positions`**: `CreateOrder` is the sell gate; `TakeFill`, `ReadRow`, `WriteFill` and `AnnounceFill`
are the collector's steps through `processFill`, `ReadPrice` and `WritePrice` the pricer's, so that
each can overwrite the other's row; `ApplyFill` and `UpdateMarketPrice` are `domain/position.go`.
Any of the calls on the way may fail: `DropFill` stands for a `CreateFill` or an `UpdateOrder` that
does (the order has counted the fill, the row never does), a failing `GetPosition` means "no row",
a failing `UpsertPosition` writes nothing. To the row a restart of the gateway between two of these
steps is the same as a failing call. `Publish` is Kafka between the two processes, and
`StartEngine`, `Reconnect` and `Consume` are the Python side; the engine starts at any moment, also
between a row's write and the fill's publication. The row carries two fields that are no columns, the number of
fills in it and what they brought in (`n`, `cash`), which every overwriting takes along; the
properties compare the columns with them. `lost` records that a fill was dropped or the row
overwritten. The gate of the code adds up the rows of all venues; here there is one.

Definitions whose comment starts with "Mutant:" are plausible wrong versions of the definition
that follows them. No specification uses them; each shows that one property can fail.

## 4. What the runs check

`PipelineFaults.cfg` - one order that may fill in three pieces at one remote venue, every store and
Kafka call may fail, `SubmitOrder` may fail before or after the venue took the order, fills may be
lost on the way (`LoseFill`), the pricer is active, the gateway restarts up to twice. 511 thousand
states. It checks:

- `OrdersWellFormed`: status and filled quantity agree in every order object, although dispatcher and
  collector change it at the same time after a late failure of `SubmitOrder`; and in every row, except
  after such a failure: `UpdateOrder` reads the object without its lock, and the row may then combine
  two moments;
- `NoPhantomFills`: a position counts only persisted fills, and those are executions of the venue;
- `VenueOrdersOnRecord`: a venue never holds an order whose row is New or names another venue;
- `RejectedNeverBooked`: an order that memory, row or an event calls rejected has no fill in the books
  and none in a collector's hands, even when the venue has it and executes it: of the dispatcher's
  rejection and the collector's first fill, the one that gets the order's lock first keeps the other out;
- `TrackedFillsApply`: a fill of a tracked order is never turned away, unless the order was rejected
  by a late failure;
- `TerminalEventIsLast`: nothing follows `order_rejected`, nor `order_filled` but after a late failure;
- `RowsFollowLifecycle`: the orders table implements `OrderLifecycle`, whatever fails.

`PipelineCalm.cfg` - two orders, a venue in the process and a remote one, whose `SubmitOrder` may fail
late, no other failing call, channels of one place, one risk worker, venues that come and go. 314
thousand states, with fairness:

- `BooksAgreeWhenIdle`: when a venue's channel and collector are empty its position counts every fill
  on record, and rows and position show what the venue executed, of every order but those in `late`;
- `AcceptedOrdersDecided`: an order that entered the pipeline is rejected or reaches a dispatcher;
- `ReportedFillsBooked`: every fill that was reported under the gateway's order id reaches the
  position, unless its order was rejected by a late failure. Alpaca reports under its own id, see
  `AlpacaIds.cfg` below.

Three runs end in a counterexample, each where a document, a comment or a test of the repository
promises more than the code does:

- `PipelineLateAccept.cfg`, `RejectedNeverAtVenue`: a `SubmitOrder` that failed after the venue took the
  order leaves a rejected order at the venue (`pipeline.go:631-640`), while `order.proto:32` says
  that the venue or the risk check rejected it.
- `PipelinePricing.cfg`, `PricingKeepsQuantity`: the pricer reads the position, the collector
  books a fill, the pricer writes the old quantity back (`pricer.go:36-44`).
- `PipelineCancel.cfg`, `CanceledOrdersStop`: a cancel request changes a copy, is answered with
  "canceled", and the venue goes on (`handler_order.go:318`).

`Binance.cfg` - two connects, two disconnects, one order that trades once and one that rests at the
venue and is canceled; they share a number on different symbols. 922 thousand states:

- `AtMostOnceInOrder`: for clients that act in order no execution is delivered twice. A second
  `Connect` on a connected venue is not refused and leaves two read loops: outside `orderly` the
  property fails;
- `NoPanicInOrder`: for such clients no `Disconnect` closes a channel twice;
- `QuietWhenDisconnected`: after their `Disconnect` no socket, keep-alive loop or subscription is left;
- `FillsFollowStream`: whatever clients do, the read loops implement `FillStream`.

`Alpaca.cfg` - two connects, a disconnect, an order that fills twice. 211 thousand states:

- `AtMostOneLateFill`: a trade feed outlives its request by at most one message, although the
  venue is Connected all the while;
- `NoCrashInOrder`, `KeyVerifiedInOrder`: for clients that act in order no nil feed is started, none
  twice, and orders are sent with a credential Alpaca has accepted;
- `FillsFollowStream`: as above, across reconnections;
- `DisconnectReturns`: `Disconnect` returns although it waits for goroutines with the lock held.

`Simulated.cfg` - two connects, a disconnect, a limit and a market order, two prices, a channel of
one place. 619 thousand states:

- `LimitOrdersConserved`: a limit order is in the book, or filled once, or canceled, and only one of
  them, although every connection adds a sweep loop that never ends;
- `FrozenOnlyIfOvertaken`: for clients in order the price of a connected exchange moves, except after
  a `Connect` that overtook a walker;
- `CrossedOrderFills`: an order the price has reached is filled, canceled, or the price leaves.

`Credentials.cfg` - three stores, a delete, a retrieve, two rotations from the first passphrase. 670
thousand states:

- `RowsAreLatest`: a row is the last credential stored, unless the venue was written between the
  read and the write of a rotation, which puts the old one back;
- `ReadableUnlessDisturbed`: between rotations every row opens, unless a rotation stopped half-way
  (it cannot be repeated then: the rows it has changed no longer open), two overlapped, or a store
  went across one.

`Hub.cfg` - a client of positions and one of orders, two notifiers, two instruments with two updates
each, a channel of one place. 206 thousand states:

- `NoSendOnClosed`: no broadcast, also not the timer's, sends on a channel `unregister` closed;
- `LastUpdateShown`: a client that has received everything shows the last version, unless `owed` says
  how it was lost: a full channel, another instrument in the only waiting place, a timer that
  sends what is older, callers out of order;
- `PendingIsSent`: a waiting update does not wait for ever;
- `GoneClientsLeave`: a client whose connection broke leaves the map, and both pumps end.

`Routing.cfg` - every question about at most three venues with four different offers. 1.50 million
states, most of them an answer:

- `DecisionsSound`: whoever decides, allocations name candidates, a preferred venue gets all, and no
  other candidate beats the first; the comparator drops no fresh venue and sorts by price;
- `SplitConserves`: a split adds up and gives each venue its share of the depth, in whole lots, no more
  than the share rounded up to a unit, no less than a lot and a unit below it; the best venue gets
  the rest. Without any depth the code divides by zero, which is accepted as its answer there.

`Positions.cfg` - two requests, three fills at two prices, a pricer; each call on a fill's way may fail, a
publication may be lost or repeated, and the risk engine starts at any moment and then restarts or
reconnects once. 8.9 million states:

- `PnlConserved`: realised and unrealised profit are what the fills in the row brought in and what is
  held is worth, up to rounding, through short positions and through zero, also when the row was
  overwritten. It says nothing of how profit divides into the two: see `PositionsCross.cfg` below;
- `ShortOnlyAfterRace`: a position becomes short only after two sell orders were under way together,
  or after the row has lost a fill, be it to the pricer, to a failing call, or to a `GetPosition`
  whose error is taken for "no row". With two requests only the second happens, for the first needs
  a buy and two sells: that is in `PositionsRequests.cfg` below, and in the theorem;
- `EngineAgrees`: a portfolio that has read the whole log of the fills that were written, each event
  once, holds the row's quantity and has paid what was paid, unless the row was overwritten, a held
  row was loaded at the engine's start, the log was read again, or a sale was passed over that the
  portfolio could not cover.

**Further runs.** They are kept for those who work on the part in question. Two check the same
properties on other instances, and pass:

- `PipelineShared.cfg`: `NoPhantomFills`, `RejectedNeverBooked`, `TrackedFillsApply` and `RowsFollowLifecycle`
  with two orders that share the venue, its collector, its channel and its position, four store
  calls that may fail and one restart. 1.5 million states.
- `PositionsRequests.cfg`: `PnlConserved` and `ShortOnlyAfterRace` with three requests and four fills,
  without the risk engine. 2.9 million states.

The others end in counterexamples. They show defects that take few steps and little interleaving, or
that are in code no production code calls yet:

- `PipelineSmartRoute.cfg`, `SmartOrdersFindVenue`: candidates include disconnected venues and
  all cost the same, so an order without preference goes to the first registered venue, and is
  rejected if that one is disconnected (`pipeline.go:522`).
- `AlpacaIds.cfg`, `FillsNameOrders`: the order id on the first fill is the one Alpaca gave the order
  (`ws_feed.go:576`), under which `orderMap` has nothing: `processFill` drops every fill of that venue.
- `BinanceCancel.cfg`, `OnlyItsOrderCanceled`: the adapter does not know the symbol of an order and
  tries its number with one symbol after the other (`adapter.go:309-344`); it cancels another order
  that has this number on another symbol, and reports success. Only tests call `CancelOrder`.
- `CredentialsAtomic.cfg`, `RotationAllOrNothing`, and `CredentialsRace.cfg`, `RotationUndoesNothing`:
  `src/docs/connect-venue.md:85` calls a rotation atomic, but a statement may fail between two rows, and
  a credential stored between the read and the write of a row is undone. Only tests call
  `RotatePassphrase`.
- `PositionsLoad.cfg`, `LoadedEngineAgrees`: the docstring of `hydrate.py` (lines 3-4) loads positions
  because "the Kafka consumer only processes *new* events"; it reads from offset 0
  (`consumer.py:123`), and what was loaded is counted twice.
- `PositionsRead.cfg`, `RowKeepsFills`: "Position doesn't exist yet" (`pipeline.go:721`) is what the code
  makes of any error, and a position is replaced by one fill.
- `PositionsCross.cfg`, `CrossingStartsAnew`: a test expects a short position to start at the price of its
  fill (`position_test.go:109-125`); one that is reached across zero keeps the long one's average.

**Bounds.** Two orders are the fewest that compete for a worker, a channel, a dispatcher, a
collector and a position row; the code treats orders alike and relates at most two at a time. The
run with every fault has one order, with quantity 3 for two partial fills and a last one, and two
restarts, the second after what the first left behind; that two orders do not disturb each other
there is what `PipelineShared.cfg` and the theorems show. Quantity 0 exercises the
guard of `Submit`. Capacities of 1 make every channel full as soon as a second
element comes, which 10 000 places would need 10 001 orders for; the feed of the faults run holds
all three fills, so that the collector can lag behind the venue. One venue in these runs,
since venues share nothing but the router; the calm run has two. An execution is on a channel once
at most: what the pipeline does with a fill that a venue delivers twice is not in these
runs. Each violation run is the smallest instance that shows its trace.

Two connects and a disconnect are the fewest with a connection on top of another, one after another,
and a disconnect that meets either. Binance has a second disconnect because closing twice takes two.
In `Simulated.cfg` two prices are reached and not reached. `Routing.cfg` has offers that tie on
price, on price and latency, and not at all; depths 0 to 4 include no depth and more than twice an
order. Two rotations and three passphrases are needed for overlapping rotations; two of the three
stores meet at one venue. Two updates of each of two instruments let two versions of one change
places while the other instrument takes the waiting place. Three fills open and close a
position, or raise it twice at different prices, and leave room for one that is lost or overwritten;
`MaxConnects` = 2 is a restart or a reconnection. At
most one publication is lost or repeated, because after it `LogWhole` is false and `EngineAgrees`
says nothing. The cycle of the instrument is T2, the one in which cash and commitments differ; the
T0 branches of `Booked` are not reached.

**Deadlock.** TLC's deadlock check is on in the runs of the pipeline, but venues can always connect
and disconnect there, so it says little; that goroutines do not block each other for ever is what
liveness properties say. It is off in the other runs: their requests, orders, fills and updates
are finite sets that run out. Blocking is the subject of `DisconnectReturns`, `CrossedOrderFills`,
`PendingIsSent` and `GoneClientsLeave` there.

**Fairness.** It is weak fairness everywhere: the Go scheduler does not starve a runnable goroutine.

- `OrderPipeline`: each goroutine's next step for each order or venue; channels are first in, first
  out, and each call returns (risk check: 100 ms deadline; adapters' HTTP clients have timeouts; the
  store answers or fails). Nothing is assumed of clients, venues or the connection of venues, and
  nothing of `Enqueue`, since a client may always go away.
- `AlpacaAdapter`: the goroutines of requests and feeds (`Ping` has the HTTP client's timeout), and one
  assumption about the venue: it closes a connection that no ping keeps open. `Disconnect` rests on
  it, because `ReadMessage` has no deadline; nothing is assumed to arrive on a connection.
- `SimulatedExchange`: the sweep loops have a ticker, collectors take fills while the gateway runs.
- `Hub`: time passes, a due timer fires, pumps run; a dead connection is noticed because of the pong
  and write deadlines (`ws/server.go:12-27` and both pumps).

## 5. What is proved

Every theorem has the form `Spec => []P` or `Spec => AbstractSpec` and holds for all values of the
constants that satisfy the module's ASSUME: any sets of orders, venues, clients, requests, any
quantities and prices, any capacities, any set of failing calls, any number of restarts. Where a
theorem needs more, the table says it.

| Module | Theorem | States | Needs besides |
|---|---|---|---|
| `OrderPipelineProofs` | `TypeCorrectness`, `VenueOrdersRecorded`, `Invariance` | `TypeOK`, `VenueOrdersOnRecord`, `IInv` | |
| | `FillsInvariance`, `NothingInvented` | `FillsInv`, `NoPhantomFills` | |
| | `RejectionInvariance`, `RejectedStaysUnbooked` | `RejectionInv`, `RejectedNeverBooked` | |
| | `BooksInvariance`, `RecordsAgree`, `NoTrackedFillDropped`, `NothingAfterTheEnd` | `BooksInv`, `OrdersWellFormed`, `TrackedFillsApply`, `TerminalEventIsLast` | |
| | `TableFollowsLifecycle` | `RowsFollowLifecycle`: refinement of `OrderLifecycle` | |
| | `BooksAgree` | `BooksAgreeWhenIdle` | `NothingFails` |
| `BinanceProofs` | `BinanceInvariance`, `BinanceTypes`, `AtMostOneFill`, `NoPanic`, `QuietAfterDisconnect` | `BinanceInv`, `TypeOK`, `AtMostOnceInOrder`, `NoPanicInOrder`, `QuietWhenDisconnected` | |
| | `FillsFollow` | `FillsFollowStream`: refinement of `FillStream` | |
| `AlpacaProofs` | `AlpacaInvariance`, `AlpacaTypes`, `OneLateFill`, `OrderlyClientsAreSafe`, `ConnectedIsVerified` | `AlpacaInv`, `TypeOK`, `AtMostOneLateFill`, `NoCrashInOrder`, `KeyVerifiedInOrder` | |
| | `FillsFollow` | `FillsFollowStream`: refinement of `FillStream` | |
| `SimulatedExchangeProofs` | `ExchangeInvariance`, `ExchangeTypes`, `LimitOrdersSurvive`, `TickerSurvives` | `ExchangeInv`, `TypeOK`, `LimitOrdersConserved`, `FrozenOnlyIfOvertaken` | |
| `CredentialsProofs` | `CredentialInvariance`, `CredentialTypes`, `LatestCredentialKept`, `NobodyLockedOut` | `CredentialInv`, `TypeOK`, `RowsAreLatest`, `ReadableUnlessDisturbed` | |
| `HubProofs` | `HubInvariance`, `HubTypes`, `ClosedChannelsStaySilent`, `DashboardsCatchUp` | `HubInv`, `TypeOK`, `NoSendOnClosed`, `LastUpdateShown` | |
| `PositionsProofs` | `PositionsInvariance`, `ShortNeedsRace`, `PortfolioAgrees` | `PositionsInv`, `ShortOnlyAfterRace`, `EngineAgrees` | |
| | `ProfitConserved` | `PnlConserved` | there is a largest quantity |
| | `RouterDecides` | `DecisionsSound` of `Routing` | |
| | `RouterSplits` | `SplitConserves` of `Routing` | `PreciseDivision` |

**The assumptions.** No theorem of the pipeline but `BooksAgree` assumes that a call succeeds, nor that
a `SubmitOrder` that failed did not reach the venue. What a late failure of `SubmitOrder` breaks is
in the statements instead, as an exception for the orders in `late`.

`NothingFails` says that there are no lost fills, no pricers, no restart, and no
failing call but `CreateOrder` (the client is refused), `Publish` (an event is lost) and `SubmitOrder`,
late or not. Each part excludes a way in which the code does lose a fill: a position that could not be
written is not written again, and a pricer puts an old quantity back (`PipelinePricing.cfg`).

`ProfitConserved` bounds an error that is half a rounding unit for each
share of each fill, so it needs a largest fill. `CredentialAssumption` says that a request is of
one kind only.

**The order pipeline.** The inductive invariant of the first theorems is `IInv`,
that is `TypeOK /\ PipelineInv`. `TypeOK` alone is not inductive: `ReadPosition` reads the position of the venue of the
collector's order, which is a venue only because fills come from venues that hold the order
(`FillInv`), and the order of a fill is still the one sent there (`OrderInv`). `VenueOrdersOnRecord`
is not inductive either: when the venue accepts, the row must already be past New at the right
venue, which follows from the stage (`calling`) and from `SaveAck`; and a later write of the row by
the dispatcher must not undo it, which needs the arguments of that write to be past New (`rejSave`).
`FillsInv` is about quantities only and holds whatever fails. `ReportInv` says that saved fills, the
fill in the collector's hands and those on the channel are executions of the venue, and `FilledInv`
that what the venue has left fits in what the order in memory lacks. To keep the second when the
collector applies a fill, the fills of one order on the channel must fit too, and a sum over a
channel is recursive. `PlacedInv` avoids it: each fill on the channel has a place in the quantity of
its order (a witness `w`), after what is filled, before what the venue has left, and two fills of
one order do not overlap. Places never move, so a step that puts a fill on the channel or takes one
from it keeps all the others.

`RejectedNeverBooked` is a race decided by the order's lock. `RejectInv` says that of an order at a
venue the object in memory knows the winner: it is Rejected if anything calls it rejected (row,
event, arguments on their way), and shows a fill if anything of it is booked or in a collector's
hands. No status leads from one to the other. A restart forgets the object, but also whoever could
still write the loser.

`BooksInv` is `FillsInv` with the records. Two goroutines write a row with arguments read at
different moments, so `StageInv` and `RecordInv` say for each stage of the dispatcher which status
and quantity memory, row and arguments may have, and `ExecutionInv` that the row lags behind memory
by no less than the fill in the collector's hands. `LateInv` is what is left of that for an order in
`late`: row and arguments follow the winner, with a quantity no larger than memory's. With
`FilledInv` and `PlacedInv` this gives `TrackedFillsApply`: `ApplyFill` refuses no fill of an order
it knows, unless it is rejected and in `late`. `EventsInv` adds that an order
with a terminal event is closed: no dispatcher and no collector has a step left that publishes. Of a
late order only `order_rejected` counts as terminal, since its dispatcher still announces what status
the collector gave it.

`BooksAgreeWhenIdle` compares sums and a cardinality, both recursive. `AgreeInv` has the running
totals of an order along the channel as a witness (`TotalInv`): they begin with what is filled in
memory and end with what the venue has executed, so that on an empty channel the two are equal,
and the row is memory but for a fill in the collector's hands (`RowInv`). `ReportedInv` and
`OneFillInv` say that each execution has become one fill, in one place: saved, in the collector's
hands, or on the channel once. `PositionInv` says that the position counts the saved fills but for
the one in hand. When all is idle, the fills of an order are then numbered from 1 to the number of
its executions, one each, and this bijection gives the cardinality.

**The venues.** `VenueRequestsProofs` shows what `orderly` means while requests are under way: at
most one of them is past its first step (`OneAtATime`). `BinanceInv` and `AlpacaInv` add what such
clients may rely on between the steps of a request (`OrderlyInv`) and, whatever clients do, that a
message is in a connection's inbox once and is about an execution that was made (`MessagesInv`),
which is what the step simulation of `FillStream` rests on. That refinement counts streams and
messages, so `FiniteInv` goes along: at any time finitely many are open or under way, however many
connect requests there may be. For Binance and clients in order a trade
is reported on one stream only (`SingleInv`). `AtMostOneLateFill` needs `LateInv`: a context ends
after the request is answered, and the goroutine that then sits in `read` leaves at its next event.
`ExchangeInv` follows each limit order through the two halves of each sweep loop (`BookInv`,
`PlacesInv`): only the loop that holds the mutex may have taken orders out of the book; `TickerInv`
says that, unless a `Start` overtook a walker, a ticker that is stopped or about to be belongs to a
connection that is gone or going.

**The vault.** `RowsAreLatest` is about a row that a rotation read earlier and writes back, so
`InHandInv` says what a rotation holds; `RotationInv` splits the listing into rows already under the
new passphrase and rows still under the old one, which `HalfWay` leaves behind if the rotation
stops.

**The hub.** `LastUpdateShown` speaks of a client with an empty channel, after any number of
messages. `HubInv` says where the last version of a position is as long as the hub owes it: in a
notifier's hands, in the waiting place, or the newest the client has on its channel or on its
screen, with no older one of the same instrument left to overtake it. The message that counts on a
channel is the last of its instrument, found with the least-number principle (`LeastNatural`, from
the library's theorem that the naturals are well-founded).

**The two books.** Collector and pricer write rows they read earlier, so `RowsInv` says what is in their
hands: a row that has fewer fills than the table's, which will make `lost` true when it is written,
or one that has exactly those, and the collector's own. `GateInv`: until two sells are under way at
once or a fill is lost, the only sell there is, what the collector has taken of it included, fits in
the position. `EngineAgrees` compares the row with a portfolio built from
the log, and the log's sums are recursive: `EngineInv` has two functions, the running sums `held`
and `paid` over the log, as witnesses. They end with what was announced of the row, which between
the write of a row and the publication is the row without the last fill (`Announced`); each
publication extends them by one. `LogInv` says that the log is not ahead of that. `CostInv` bounds
the rounding error of the average price, of the table's row and of both rows in hand, which
`PnlConserved` needs when fills turn the position.

**The router.** The two theorems are about one call each, so what they need of the state is little:
the registry names strategies (`Registry`). The work is in the functions. `SortedSorts` shows that
places computed by counting are a permutation that respects the order, and keeps equals as they
were, for every strict weak order; `KeptInOrder` is the same for a filter. `BestPriceDecides` and
`DecisionsOfAnswers` take the rest from there, strategy by strategy.

`RouterSplits` has three parts. `ShareBounds` is arithmetic: a share that is rounded twice and cut to
whole lots exceeds the share by less than its two roundings, and is at most a lot less; `LessThanUnit`
adds the roundings of all venues up to less than a unit, so that the sum of the portions, a whole
number, is no more than the order. The sums are recursive functions, for
which `SumsExist` and `TotalIsSum` give the running sums as a witness, by the least natural at which
they would fail; `SumsBounded` adds up the portions, and `KeptTotal` shows that dropping portions of
nothing changes no sum. `Spread` is what a list of allocations promises to everyone but the best
venue, and both ways of giving the rest to the best venue keep it (`ToppedUp`, `Prepended`).

`PreciseDivision` is an assumption of `Routing` that TLC evaluates on its instance: order and lot, in
the smallest unit that amounts have, times the number of venues, are less than twice `Scale`.
Without it the roundings of all venues together could reach a unit, and the portions exceed the
order. Depths are not restricted. In the code `Scale` is 10^16, the precision of `decimal.Div`:
with amounts of eight decimals it covers orders of up to 2 * 10^8 whole coins divided by the number of
venues.

TLC checked each inductive invariant on the instance of its run before it was proved.

Model-checked only:

- liveness (`AcceptedOrdersDecided`, `ReportedFillsBooked`, `DisconnectReturns`, `CrossedOrderFills`,
  `PendingIsSent`, `GoneClientsLeave`): fairness and ENABLED are beyond the prover.

## 6. What is not modelled

- `routeLegacy` runs only without a router or when `Route` fails, which it does not for the
  candidates of `buildVenueCandidates`; main always injects the router.
- Splitting over venues: candidates have the whole quantity as depth, so there is one allocation.
- Crossing: the branch runs only if the book holds a resting order, and `AddOrder` is called by
  tests only.
- Unregistered venues: `CheckVenueReady` lets a venue pass that nobody registered, and
  venue-preference then falls back to best price; such orders behave like orders without a
  preference from the router on.
- Asset classes: every modelled venue can trade every modelled instrument; one instrument, so
  that a venue has one position row.
- In `OrderPipeline`: prices, fees, profit, order sides and types. Profit, average cost and sides are
  the subject of `Positions`, WebSocket messages of `Hub`.
- The venues' own limits: an adapter may reject any order (`SubmitError`) and fills in any pieces.
- `QueryOrder` and `UnsubscribeMarketData` of all adapters: only tests call them. The keep-alive
  request of Binance, and market data except that it keeps a loop awake. `VenueStatusChan` has no sender.
- Fills that arrive twice in `OrderPipeline`: two read loops of Binance deliver an execution twice when a
  client connects a connected venue, which `BinanceAdapter` has (outside `orderly`). `ApplyFill` would
  count the second in the order object before `CreateFill` fails on its primary key; that
  `TrackedFillsApply` holds of such a fill too is not claimed.
- The tokenized-asset adapter: no gateway starts it.
- Data races as such: that the runtime may abort on concurrent accesses of `mdCancels`, and a torn
  read of the manager's passphrase string. The one last tick a price walker may take of an old ticker.
- In `Routing`: the comparator's statistics (spread, basis points), reasons in text, and how the ML
  sidecar scores; its answer is any ranking of at most two venues. `SplitOrder`, the comparator and
  the ML strategy have no caller in production yet.
- In `Positions`: the unsettled quantity of a row, settlements, market prices and net asset value of
  the portfolio; what the pre-trade checks decide. With cycle T2 a buy never debits the cash that
  a sale credits (`portfolio.py:116-134`): the model has it, no property speaks of cash alone.
  The types of `Positions` are part of `PositionsInv`, which is proved; no run checks them. `Routing` has no
  type invariant: its properties compute with every variable, so a value out of its type would end
  the run with an error.
- Bar aggregator: a bar per instrument and period; the hub only forwards it. Settlement tracker: a
  list swept by date. Anomaly alerts: read from a topic and forwarded (`Hub`'s `NotifyOther`).
- Analytics, AI services, dashboard and deployment: see the components in `PROJECT.json`.
