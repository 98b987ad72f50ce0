---------------------------- MODULE OrderPipeline ----------------------------
(***************************************************************************)
(* The gateway's order pipeline (gateway/internal/pipeline): Submit, the   *)
(* pool of risk-check workers, the router, one dispatcher and one fill     *)
(* collector per venue, and the position pricer.  Around it stand the      *)
(* PostgreSQL tables, the Kafka topic and the venues themselves.           *)
(*                                                                         *)
(* Each goroutine holds at most one order or fill at a time, so the place  *)
(* of an order in the pipeline is one value, stage[o]; the order in which  *)
(* a Go channel hands out its elements is left open.  Every store call is  *)
(* an action of its own wherever another goroutine can act before the next *)
(* one, and any call named in Faults may fail.                             *)
(***************************************************************************)
EXTENDS Order, Sequences, FiniteSets

CONSTANTS
  Orders,       \* order ids that Submit may assign
  Quantities,   \* order quantities clients ask for
  Cancelers,    \* orders whose clients may ask to cancel them
  RiskPool,     \* number of risk workers           (32 in the code)
  ChanSize,     \* capacity of each order channel   (10 000 in the code)
  FeedSize,     \* capacity of a venue's fill channel (1 000 in the code)
  FailOpen,     \* failOpenRisk: a risk engine error approves the order
  Faults,       \* the store and Kafka calls that may fail
  Lossy,        \* venues that report over a stream, which may lose a fill
  NoFill,       \* the fill of an idle collector
  InProcess,    \* venues simulated inside the gateway process
  Pricers,      \* venues whose market data reaches the position pricer
  MaxRestarts   \* bound on the restarts of the gateway

Calls == {"CreateOrder", "UpdateOrder", "CreateFill", "GetPosition",
          "UpsertPosition", "Publish"}

ASSUME PipelineAssumption ==
  /\ Venues # {}
  /\ Quantities \subseteq Nat
  /\ Cancelers \subseteq Orders
  /\ RiskPool \in Nat \ {0}
  /\ ChanSize \in Nat \ {0}
  /\ FeedSize \in Nat \ {0}
  /\ FailOpen \in BOOLEAN
  /\ Faults \subseteq Calls
  /\ Lossy \subseteq Venues
  /\ InProcess \subseteq Venues
  /\ Pricers \subseteq Venues
  /\ MaxRestarts \in Nat

VARIABLES
  order,     \* the *domain.Order objects in memory
  tracked,   \* the keys of orderMap
  stage,     \* where the pipeline holds each order
  arg,       \* arguments read for an UpdateOrder call that is under way
  first,     \* the venue registered first, p.venues[0]
  smart,     \* the order in the router's hands came without a venue
  ready,     \* the venues whose adapter reports Connected
  rows,      \* the orders table
  fills,     \* the fills table
  pos,       \* the positions table: the fills each row's quantity counts
  book,      \* what each venue knows of each order
  feed,      \* the adapters' fill channels
  coll,      \* the fill collectors, one per venue
  pricer,    \* the position pricers, one per venue
  topic,     \* the Kafka order-lifecycle events of each order
  canceled,  \* orders whose cancel request was answered with 200 "canceled"
  restarts,  \* restarts so far
  late       \* history: orders whose SubmitOrder failed although (an HTTP
             \*   timeout, say) the venue had taken them

memory == <<order, tracked, stage, arg>>
tables == <<rows, fills, pos>>
vars   == <<order, tracked, stage, arg, first, smart, ready, rows, fills,
            pos, book, feed, coll, pricer, topic, canceled, restarts, late>>

Fill  == [order : Orders, n : Nat, qty : Nat]

Stages == {"none", "refused", "submitted", "abandoned", "intake", "checking",
           "riskOut", "routed", "cleared", "queued", "acked", "calling",
           "rejArgs", "rejSave", "done", "stuck", "gone"}

Events == {"order_created", "order_acknowledged", "order_filled",
           "order_canceled", "order_rejected", "fill_received"}

TypeOK ==
  /\ order \in [Orders -> OrderRecord]
  /\ tracked \subseteq Orders
  /\ stage \in [Orders -> Stages]
  /\ arg \in [Orders -> [status : Statuses \cup {"None"}, filled : Nat]]
  /\ first \in Venues
  /\ smart \in BOOLEAN
  /\ ready \subseteq Venues
  /\ rows \in [Orders -> OrderRecord]
  /\ fills \subseteq Fill
  /\ pos \in [Venues -> SUBSET Fill]
  /\ book \in [Orders -> [at : Venues \cup {NoVenue}, left : Nat, n : Nat]]
  /\ feed \in [Venues -> Seq(Fill)]
  /\ coll \in [Venues -> [pc : {"idle", "fill", "order", "read", "write"},
                          fill : Fill \cup {NoFill}, row : SUBSET Fill]]
  /\ pricer \in [Venues -> [busy : BOOLEAN, row : SUBSET Fill]]
  /\ topic \in [Orders -> Seq(Events)]
  /\ canceled \subseteq Orders
  /\ restarts \in Nat
  /\ late \subseteq Orders

NoArg     == [status |-> "None", filled |-> 0]
Unknown   == [at |-> NoVenue, left |-> 0, n |-> 0]
Idle      == [pc |-> "idle", fill |-> NoFill, row |-> {}]
NotPricing == [busy |-> FALSE, row |-> {}]

Init ==
  /\ order = [o \in Orders |-> NoOrder]
  /\ tracked = {}
  /\ stage = [o \in Orders |-> "none"]
  /\ arg = [o \in Orders |-> NoArg]
  /\ first \in Venues
  /\ smart = FALSE
  /\ ready = {}
  /\ rows = [o \in Orders |-> NoOrder]
  /\ fills = {}
  /\ pos = [v \in Venues |-> {}]
  /\ book = [o \in Orders |-> Unknown]
  /\ feed = [v \in Venues |-> <<>>]
  /\ coll = [v \in Venues |-> Idle]
  /\ pricer = [v \in Venues |-> NotPricing]
  /\ topic = [o \in Orders |-> <<>>]
  /\ canceled = {}
  /\ restarts = 0
  /\ late = {}

-----------------------------------------------------------------------------
\* Helpers

\* The outcomes of a store or Kafka call: success, and failure if it may fail.
Result(call) == IF call \in Faults THEN {TRUE, FALSE} ELSE {TRUE}

In(s) == {o \in Orders : stage[o] = s}

MoveTo(o, s) == stage' = [stage EXCEPT ![o] = s]

\* Room in the intake or the riskOut channel, and in a venue's dispatch channel.
Room(s) == Cardinality(In(s)) < ChanSize
RoomAt(v) == Cardinality({o \in In("queued") : order[o].venue = v}) < ChanSize

\* Mutant: one case is missing, and the default is the status itself.
EventsOfWithDefault(status) ==
  CASE status = "New"          -> <<"order_created">>
    [] status = "Acknowledged" -> <<"order_acknowledged">>
    [] status = "Filled"       -> <<"order_filled">>
    [] OTHER                   -> <<status>>

\* orderStatusToEventType: partial fills have no event of their own.
EventsOf(status) ==
  CASE status = "New"          -> <<"order_created">>
    [] status = "Acknowledged" -> <<"order_acknowledged">>
    [] status = "Filled"       -> <<"order_filled">>
    [] status = "Canceled"     -> <<"order_canceled">>
    [] status = "Rejected"     -> <<"order_rejected">>
    [] OTHER                   -> <<>>

\* notifyOrderUpdate for an order whose status is s.
Notify(o, s) ==
  \E sent \in Result("Publish") :
     topic' = IF sent THEN [topic EXCEPT ![o] = @ \o EventsOf(s)] ELSE topic

\* The three calls every rejection makes before the order reaches a venue:
\* ApplyTransition, UpdateOrder (its error ignored) and notifyOrderUpdate.
Reject(o) ==
  LET ord == Transition(order[o], "Rejected") IN
  /\ order' = [order EXCEPT ![o] = ord]
  /\ \E saved \in Result("UpdateOrder") :
        rows' = IF saved THEN [rows EXCEPT ![o] = ord] ELSE rows
  /\ Notify(o, ord.status)
  /\ MoveTo(o, "done")

-----------------------------------------------------------------------------
\* REST handlers and Pipeline.Submit

\* The venue the client names must not be disconnected; without one, some
\* venue must be connected.
VenueAvailable(v) == IF v = NoVenue THEN ready # {} ELSE v \in ready

\* Submit up to and including CreateOrder and the insertion into orderMap.
Submit(o, q, v) ==
  /\ stage[o] = "none"
  /\ q > 0
  /\ VenueAvailable(v)
  /\ order' = [order EXCEPT ![o] = NewOrder(q, v)]
  /\ rows' = [rows EXCEPT ![o] = NewOrder(q, v)]
  /\ tracked' = tracked \cup {o}
  /\ MoveTo(o, "submitted")
  /\ UNCHANGED <<arg, first, smart, ready, fills, pos, book, feed, coll, pricer,
                 topic, canceled, restarts, late>>

\* CreateOrder fails: the client gets an error and nothing is kept.
SubmitRefused(o, q, v) ==
  /\ stage[o] = "none"
  /\ q > 0
  /\ VenueAvailable(v)
  /\ "CreateOrder" \in Faults
  /\ MoveTo(o, "refused")
  /\ UNCHANGED <<order, tracked, arg, first, smart, ready, tables, book, feed, coll,
                 pricer, topic, canceled, restarts, late>>

\* The select at the end of Submit: the order enters intake ...
Enqueue(o) ==
  /\ stage[o] = "submitted"
  /\ Room("intake")
  /\ MoveTo(o, "intake")
  /\ UNCHANGED <<order, tracked, arg, first, smart, ready, tables, book, feed, coll,
                 pricer, topic, canceled, restarts, late>>

\* ... or the request's context ends first and the client gets an error.
Abandon(o) ==
  /\ stage[o] = "submitted"
  /\ MoveTo(o, "abandoned")
  /\ UNCHANGED <<order, tracked, arg, first, smart, ready, tables, book, feed, coll,
                 pricer, topic, canceled, restarts, late>>

\* DELETE /orders/{id}: ApplyTransition on a copy read from the store, then 200.
Cancel(o) ==
  /\ o \in Cancelers
  /\ CanTransition(rows[o], "Canceled")
  /\ canceled' = canceled \cup {o}
  /\ UNCHANGED <<memory, first, smart, ready, tables, book, feed, coll, pricer, topic,
                 restarts, late>>

-----------------------------------------------------------------------------
\* Risk-check workers

TakeForRisk(o) ==
  /\ stage[o] = "intake"
  /\ Cardinality(In("checking")) < RiskPool
  /\ MoveTo(o, "checking")
  /\ UNCHANGED <<order, tracked, arg, first, smart, ready, tables, book, feed, coll,
                 pricer, topic, canceled, restarts, late>>

\* CheckPreTradeRisk answers, or fails (its deadline is 100 ms); failOpenRisk
\* decides what a failure means.
Replies == {"approved", "rejected", "error"}
Approves(reply) == reply = "approved" \/ (reply = "error" /\ FailOpen)

RiskPass(o) ==
  /\ stage[o] = "checking"
  /\ \E reply \in Replies : Approves(reply)
  /\ Room("riskOut")
  /\ MoveTo(o, "riskOut")
  /\ UNCHANGED <<order, tracked, arg, first, smart, ready, tables, book, feed, coll,
                 pricer, topic, canceled, restarts, late>>

RiskReject(o) ==
  /\ stage[o] = "checking"
  /\ \E reply \in Replies : ~Approves(reply)
  /\ Reject(o)
  /\ UNCHANGED <<tracked, arg, first, smart, ready, fills, pos, book, feed, coll,
                 pricer, canceled, restarts, late>>

-----------------------------------------------------------------------------
\* Router goroutine

\* routeSmart with every candidate at the same price and full depth, as
\* buildVenueCandidates makes them: venue-preference keeps the client's venue,
\* and the stable sort of best-price leaves the first registered venue first.
Target(o) == IF order[o].venue = NoVenue THEN first ELSE order[o].venue

\* The router assigns the venue and persists it; on an error it returns.
Route(o) ==
  /\ stage[o] = "riskOut"
  /\ In("routed") \cup In("cleared") = {}
  /\ order' = [order EXCEPT ![o].venue = Target(o)]
  /\ \E saved \in Result("UpdateOrder") :
        /\ rows' = IF saved THEN [rows EXCEPT ![o] = order'[o]] ELSE rows
        /\ MoveTo(o, IF saved THEN "routed" ELSE "stuck")
        /\ smart' = (saved /\ order[o].venue = NoVenue)
  /\ UNCHANGED <<tracked, arg, first, ready, fills, pos, book, feed, coll,
                 pricer, topic, canceled, restarts, late>>

\* dispatchToVenue finds the venue disconnected.
RejectDisconnected(o) ==
  /\ stage[o] = "routed"
  /\ order[o].venue \notin ready
  /\ Reject(o)
  /\ smart' = FALSE
  /\ UNCHANGED <<tracked, arg, first, ready, fills, pos, book, feed, coll,
                 pricer, canceled, restarts, late>>

\* dispatchToVenue finds the venue connected ...
PassVenueCheck(o) ==
  /\ stage[o] = "routed"
  /\ order[o].venue \in ready
  /\ MoveTo(o, "cleared")
  /\ smart' = FALSE
  /\ UNCHANGED <<order, tracked, arg, first, ready, tables, book, feed, coll,
                 pricer, topic, canceled, restarts, late>>

\* Mutant: a full dispatch channel drops the order.
DispatchOrDrop(o) ==
  /\ stage[o] = "cleared"
  /\ MoveTo(o, IF RoomAt(order[o].venue) THEN "queued" ELSE "stuck")
  /\ UNCHANGED <<order, tracked, arg, first, smart, ready, tables, book, feed, coll,
                 pricer, topic, canceled, restarts, late>>

\* ... and pushes the order on the venue's channel once it has room, whether
\* or not the venue is still connected then.
Dispatch(o) ==
  /\ stage[o] = "cleared"
  /\ RoomAt(order[o].venue)
  /\ MoveTo(o, "queued")
  /\ UNCHANGED <<order, tracked, arg, first, smart, ready, tables, book, feed, coll,
                 pricer, topic, canceled, restarts, late>>

-----------------------------------------------------------------------------
\* Venue dispatcher

DispatcherStages == {"acked", "calling", "rejArgs", "rejSave"}

DispatcherIdle(v) ==
  \A o \in Orders : stage[o] \in DispatcherStages => order[o].venue # v

\* Mutant: the order is sent to the venue before it is Acknowledged.
AcknowledgeLater(o) ==
  /\ stage[o] = "queued"
  /\ DispatcherIdle(order[o].venue)
  /\ MoveTo(o, "acked")
  /\ UNCHANGED <<order, tracked, arg, first, smart, ready, tables, book, feed, coll,
                 pricer, topic, canceled, restarts, late>>

\* The dispatcher takes an order and moves it to Acknowledged in memory.
Acknowledge(o) ==
  /\ stage[o] = "queued"
  /\ DispatcherIdle(order[o].venue)
  /\ order' = [order EXCEPT ![o] = Transition(@, "Acknowledged")]
  /\ MoveTo(o, IF CanTransition(order[o], "Acknowledged") THEN "acked" ELSE "stuck")
  /\ UNCHANGED <<tracked, arg, first, smart, ready, tables, book, feed, coll, pricer,
                 topic, canceled, restarts, late>>

\* Mutant: the order goes to the venue although it could not be persisted.
SaveAckUnchecked(o) ==
  /\ stage[o] = "acked"
  /\ \E saved \in Result("UpdateOrder") :
        rows' = IF saved THEN [rows EXCEPT ![o] = order[o]] ELSE rows
  /\ Notify(o, order[o].status)
  /\ MoveTo(o, "calling")
  /\ UNCHANGED <<order, tracked, arg, first, smart, ready, fills, pos, book, feed,
                 coll, pricer, canceled, restarts, late>>

\* It persists the acknowledgement and notifies; on an error it gives up.
SaveAck(o) ==
  /\ stage[o] = "acked"
  /\ \E saved \in Result("UpdateOrder") :
        IF saved
        THEN /\ rows' = [rows EXCEPT ![o] = order[o]]
             /\ Notify(o, order[o].status)
             /\ MoveTo(o, "calling")
        ELSE /\ MoveTo(o, "stuck")
             /\ UNCHANGED <<rows, topic>>
  /\ UNCHANGED <<order, tracked, arg, first, smart, ready, fills, pos, book, feed,
                 coll, pricer, canceled, restarts, late>>

\* SubmitOrder returns an acknowledgement of the venue.
SubmitOk(o) ==
  /\ stage[o] = "calling"
  /\ book[o].at # NoVenue
  /\ MoveTo(o, "done")
  /\ UNCHANGED <<order, tracked, arg, first, smart, ready, tables, book, feed, coll,
                 pricer, topic, canceled, restarts, late>>

\* SubmitOrder returns an error: ApplyTransition(Rejected), then UpdateOrder
\* starts reading the order, without its lock, the filled quantity first.  The
\* simulated exchange returns its errors before it takes an order; a request to
\* a remote venue may fail after the venue took it.
SubmitError(o) ==
  /\ stage[o] = "calling"
  /\ book[o].at \notin InProcess
  /\ order' = [order EXCEPT ![o] = Transition(@, "Rejected")]
  /\ arg' = [arg EXCEPT ![o].filled = order[o].filled]
  /\ MoveTo(o, "rejArgs")
  /\ late' = IF book[o].at = NoVenue THEN late ELSE late \cup {o}
  /\ UNCHANGED <<tracked, first, smart, ready, tables, book, feed, coll, pricer,
                 topic, canceled, restarts>>

ReadStatusArg(o) ==
  /\ stage[o] = "rejArgs"
  /\ arg' = [arg EXCEPT ![o].status = order[o].status]
  /\ MoveTo(o, "rejSave")
  /\ UNCHANGED <<order, tracked, first, smart, ready, tables, book, feed, coll,
                 pricer, topic, canceled, restarts, late>>

\* The UPDATE executes (its error is ignored) and the order is notified with
\* its status of this moment.
SaveRejected(o) ==
  /\ stage[o] = "rejSave"
  /\ \E saved \in Result("UpdateOrder") :
        rows' = IF saved
                THEN [rows EXCEPT ![o].status = arg[o].status,
                                  ![o].filled = arg[o].filled]
                ELSE rows
  /\ Notify(o, order[o].status)
  /\ arg' = [arg EXCEPT ![o] = NoArg]
  /\ MoveTo(o, "done")
  /\ UNCHANGED <<order, tracked, first, smart, ready, fills, pos, book, feed, coll,
                 pricer, canceled, restarts, late>>

-----------------------------------------------------------------------------
\* Venues

\* The order of a SubmitOrder call in progress reaches its venue.
VenueAccept(o) ==
  /\ stage[o] = "calling"
  /\ book[o].at = NoVenue
  /\ order[o].venue \in ready
  /\ book' = [book EXCEPT ![o] = [at |-> order[o].venue, left |-> order[o].qty, n |-> 0]]
  /\ UNCHANGED <<memory, first, smart, ready, tables, feed, coll, pricer, topic,
                 canceled, restarts, late>>

\* The venue executes q of the order and the adapter reports the fill; a full
\* channel makes the simulated exchange wait.
VenueFill(o, q) ==
  LET v == book[o].at
      f == [order |-> o, n |-> book[o].n + 1, qty |-> q] IN
  /\ v # NoVenue
  /\ q \in 1 .. book[o].left
  /\ Len(feed[v]) < FeedSize
  /\ feed' = [feed EXCEPT ![v] = Append(@, f)]
  /\ book' = [book EXCEPT ![o] = [at |-> v, left |-> @.left - q, n |-> f.n]]
  /\ UNCHANGED <<memory, first, smart, ready, tables, coll, pricer, topic, canceled,
                 restarts, late>>

\* The venue executes q of the order and no fill arrives: a streaming adapter
\* drops it on a full channel, or its connection is down.
LoseFill(o, q) ==
  LET v == book[o].at IN
  /\ v \in Lossy
  /\ q \in 1 .. book[o].left
  /\ book' = [book EXCEPT ![o] = [at |-> v, left |-> @.left - q, n |-> @.n + 1]]
  /\ UNCHANGED <<memory, first, smart, ready, tables, feed, coll, pricer, topic,
                 canceled, restarts, late>>

Connect(v) ==
  /\ v \notin ready
  /\ ready' = ready \cup {v}
  /\ UNCHANGED <<memory, first, smart, tables, book, feed, coll, pricer, topic,
                 canceled, restarts, late>>

Disconnect(v) ==
  /\ v \in ready
  /\ ready' = ready \ {v}
  /\ UNCHANGED <<memory, first, smart, tables, book, feed, coll, pricer, topic,
                 canceled, restarts, late>>

-----------------------------------------------------------------------------
\* Fill collectors: processFill

\* The fill is applied to the order in memory ...
TakeFill(v) ==
  LET f == Head(feed[v]) IN
  /\ coll[v].pc = "idle"
  /\ feed[v] # <<>>
  /\ f.order \in tracked
  /\ CanFill(order[f.order], f.qty)
  /\ order' = [order EXCEPT ![f.order] = ApplyFill(@, f.qty)]
  /\ feed' = [feed EXCEPT ![v] = Tail(@)]
  /\ coll' = [coll EXCEPT ![v] = [pc |-> "fill", fill |-> f, row |-> {}]]
  /\ UNCHANGED <<tracked, stage, arg, first, smart, ready, tables, book, pricer,
                 topic, canceled, restarts, late>>

\* ... or dropped: unknown order, order not fillable, overfill.
DropFill(v) ==
  LET f == Head(feed[v]) IN
  /\ coll[v].pc = "idle"
  /\ feed[v] # <<>>
  /\ ~(f.order \in tracked /\ CanFill(order[f.order], f.qty))
  /\ feed' = [feed EXCEPT ![v] = Tail(@)]
  /\ UNCHANGED <<memory, first, smart, ready, tables, book, coll, pricer, topic,
                 canceled, restarts, late>>

\* Mutant: the error of CreateFill is logged and ignored.
SaveFillUnchecked(v) ==
  /\ coll[v].pc = "fill"
  /\ \E saved \in Result("CreateFill") :
        fills' = IF saved THEN fills \cup {coll[v].fill} ELSE fills
  /\ coll' = [coll EXCEPT ![v].pc = "order"]
  /\ UNCHANGED <<memory, first, smart, ready, rows, pos, book, feed, pricer, topic,
                 canceled, restarts, late>>

\* CreateFill; the id of a fill is the table's primary key.
SaveFill(v) ==
  /\ coll[v].pc = "fill"
  /\ \E saved \in Result("CreateFill") :
        IF saved /\ coll[v].fill \notin fills
        THEN /\ fills' = fills \cup {coll[v].fill}
             /\ coll' = [coll EXCEPT ![v].pc = "order"]
        ELSE /\ coll' = [coll EXCEPT ![v] = Idle]
             /\ UNCHANGED fills
  /\ UNCHANGED <<memory, first, smart, ready, rows, pos, book, feed, pricer, topic,
                 canceled, restarts, late>>

\* Mutant: UpdateOrder writes the filled quantity and forgets the status.
SaveOrderQuantity(v) ==
  LET o == coll[v].fill.order IN
  /\ coll[v].pc = "order"
  /\ rows' = [rows EXCEPT ![o].filled = order[o].filled]
  /\ coll' = [coll EXCEPT ![v].pc = "read"]
  /\ UNCHANGED <<memory, first, smart, ready, fills, pos, book, feed, pricer, topic,
                 canceled, restarts, late>>

\* UpdateOrder of the filled order.
SaveOrder(v) ==
  LET o == coll[v].fill.order IN
  /\ coll[v].pc = "order"
  /\ \E saved \in Result("UpdateOrder") :
        IF saved
        THEN /\ rows' = [rows EXCEPT ![o] = order[o]]
             /\ coll' = [coll EXCEPT ![v].pc = "read"]
        ELSE /\ coll' = [coll EXCEPT ![v] = Idle]
             /\ UNCHANGED rows
  /\ UNCHANGED <<memory, first, smart, ready, fills, pos, book, feed, pricer, topic,
                 canceled, restarts, late>>

\* GetPosition: any error is taken to mean that there is no row yet.
ReadPosition(v) ==
  LET w == order[coll[v].fill.order].venue IN
  /\ coll[v].pc = "read"
  /\ \E found \in Result("GetPosition") :
        coll' = [coll EXCEPT ![v] = [pc |-> "write", fill |-> @.fill,
                                     row |-> IF found THEN pos[w] ELSE {}]]
  /\ UNCHANGED <<memory, first, smart, ready, tables, book, feed, pricer, topic,
                 canceled, restarts, late>>

\* Mutant: the row starts again from the new fill.
NewRowFromFill(v) == {coll[v].fill}

\* Position.ApplyFill: the row the collector read, with its fill counted.
NewRow(v) == coll[v].row \cup {coll[v].fill}

\* Mutant: the terminal event is published before the fill.
FillEventsReversed(fillSent, endSent, full) ==
  (IF endSent /\ full THEN <<"order_filled">> ELSE <<>>)
    \o (IF fillSent THEN <<"fill_received">> ELSE <<>>)

\* notifyFillEvent: what reaches the topic of its one or two publications.
FillEvents(fillSent, endSent, full) ==
  (IF fillSent THEN <<"fill_received">> ELSE <<>>)
    \o (IF endSent /\ full THEN <<"order_filled">> ELSE <<>>)

\* Mutant: every fill takes the order out of orderMap.
ForgetAtEveryFill(o) == tracked \ {o}

\* The clean-up at the end of processFill.
Forget(o) == IF order[o].status = "Filled" THEN tracked \ {o} ELSE tracked

\* UpsertPosition of the whole row, then notifyFillEvent and the clean-up; on
\* an error neither follows.
SavePosition(v) ==
  LET o == coll[v].fill.order IN
  /\ coll[v].pc = "write"
  /\ coll' = [coll EXCEPT ![v] = Idle]
  /\ \E saved \in Result("UpsertPosition") :
        IF saved
        THEN /\ pos' = [pos EXCEPT ![order[o].venue] = NewRow(v)]
             /\ \E a, b \in Result("Publish") :
                   topic' = [topic EXCEPT
                               ![o] = @ \o FillEvents(a, b, order[o].status = "Filled")]
             /\ tracked' = Forget(o)
        ELSE UNCHANGED <<pos, topic, tracked>>
  /\ UNCHANGED <<order, stage, arg, first, smart, ready, rows, fills, book, feed,
                 pricer, canceled, restarts, late>>

-----------------------------------------------------------------------------
\* Position pricer: OnMarketData

\* GetPosition; without a row there is nothing to update.
ReadForPrice(v) ==
  /\ v \in Pricers
  /\ ~pricer[v].busy
  /\ pos[v] # {}
  /\ pricer' = [pricer EXCEPT ![v] = [busy |-> TRUE, row |-> pos[v]]]
  /\ UNCHANGED <<memory, first, smart, ready, tables, book, feed, coll, topic,
                 canceled, restarts, late>>

\* UpsertPosition of the whole row: the quantity read earlier with a new price.
SavePrice(v) ==
  /\ pricer[v].busy
  /\ \E saved \in Result("UpsertPosition") :
        pos' = IF saved THEN [pos EXCEPT ![v] = pricer[v].row] ELSE pos
  /\ pricer' = [pricer EXCEPT ![v] = NotPricing]
  /\ UNCHANGED <<memory, first, smart, ready, rows, fills, book, feed, coll, topic,
                 canceled, restarts, late>>

-----------------------------------------------------------------------------
\* The gateway stops, gracefully or not, and starts again.  Cancelling the root
\* context ends every goroutine at its next select, so the contents of the
\* channels and orderMap are lost; main does not read the orders table back.
Restart ==
  /\ restarts < MaxRestarts
  /\ restarts' = restarts + 1
  /\ order' = [o \in Orders |-> NoOrder]
  /\ tracked' = {}
  /\ stage' = [o \in Orders |-> IF stage[o] = "none" THEN "none" ELSE "gone"]
  /\ arg' = [o \in Orders |-> NoArg]
  /\ first' \in Venues
  /\ smart' = FALSE
  /\ ready' = {}
  /\ feed' = [v \in Venues |-> <<>>]
  /\ coll' = [v \in Venues |-> Idle]
  /\ pricer' = [v \in Venues |-> NotPricing]
  /\ book' = [o \in Orders |-> IF book[o].at \in InProcess
                               THEN [book[o] EXCEPT !.left = 0] ELSE book[o]]
  /\ UNCHANGED <<tables, topic, canceled, late>>

-----------------------------------------------------------------------------
OrderStep(o) ==
  \/ \E q \in Quantities, v \in Venues \cup {NoVenue} :
        Submit(o, q, v) \/ SubmitRefused(o, q, v)
  \/ Enqueue(o) \/ Abandon(o) \/ Cancel(o)
  \/ TakeForRisk(o) \/ RiskPass(o) \/ RiskReject(o)
  \/ Route(o) \/ RejectDisconnected(o) \/ PassVenueCheck(o) \/ Dispatch(o)
  \/ Acknowledge(o) \/ SaveAck(o) \/ SubmitOk(o) \/ SubmitError(o)
  \/ ReadStatusArg(o) \/ SaveRejected(o)
  \/ VenueAccept(o)
  \/ \E q \in 1 .. book[o].left : VenueFill(o, q) \/ LoseFill(o, q)

VenueStep(v) ==
  \/ Connect(v) \/ Disconnect(v)
  \/ TakeFill(v) \/ DropFill(v) \/ SaveFill(v) \/ SaveOrder(v)
  \/ ReadPosition(v) \/ SavePosition(v)
  \/ ReadForPrice(v) \/ SavePrice(v)

Next == \/ \E o \in Orders : OrderStep(o)
        \/ \E v \in Venues : VenueStep(v)
        \/ Restart

Spec == Init /\ [][Next]_vars

-----------------------------------------------------------------------------
\* Safety

\* An order record agrees with itself: nothing is filled before the first fill,
\* and Filled is exactly "the whole quantity is filled".
WellFormed(ord) ==
  /\ ord.status \in {"None", "New", "Acknowledged", "Rejected"} => ord.filled = 0
  /\ ord.status = "PartiallyFilled" => ord.filled \in 1 .. ord.qty - 1
  /\ ord.status = "Filled" => ord.filled = ord.qty /\ ord.qty > 0

\* Whatever fails, every order object agrees with itself, although after a late
\* failure of SubmitOrder the dispatcher rejects the order that the collector is
\* filling: each change is made under the order's lock.  So does its row, except
\* after such a failure, when UpdateOrder reads the object without that lock.
OrdersWellFormed ==
  \A o \in Orders : /\ WellFormed(order[o])
                    /\ o \notin late => WellFormed(rows[o])

\* Nothing is booked that no venue executed: a position counts only fills of
\* the fills table, and those are executions the venue really made, in the
\* quantity it made them at most (processFill persists the fill first).
NoPhantomFills ==
  /\ \A v \in Venues : pos[v] \subseteq fills
  /\ \A f \in fills : f.n \in 1 .. book[f.order].n
  /\ \A o \in tracked : book[o].at # NoVenue =>
        order[o].filled + book[o].left <= order[o].qty

\* An order that lives at a venue is on record as acknowledged, at that venue:
\* venueDispatch persists before it calls SubmitOrder, so that after a crash
\* the table names every order a venue may still execute.
VenueOrdersOnRecord ==
  \A o \in Orders : book[o].at # NoVenue =>
     /\ rows[o].status \notin {"None", "New"}
     /\ rows[o].venue = book[o].at

\* The gateway calls the order rejected: in memory, in the table, in an event.
CalledRejected(o) ==
  \/ "Rejected" \in {order[o].status, rows[o].status}
  \/ \E i \in DOMAIN topic[o] : topic[o][i] = "order_rejected"

\* An order that the gateway calls rejected has no execution in its books, nor
\* ever gets one, even when a venue has the order and executes it: whichever of
\* the dispatcher's rejection and the collector's fill takes the order's lock
\* first keeps the other from happening.
RejectedNeverBooked ==
  \A o \in Orders : CalledRejected(o) =>
     /\ \A f \in fills : f.order # o
     /\ \A v \in Venues : coll[v].pc # "idle" => coll[v].fill.order # o

\* A rejected order is one that the venue or the risk check turned away: no
\* venue has it.
RejectedNeverAtVenue == \A o \in Orders : CalledRejected(o) => book[o].at = NoVenue

\* The fill collector never has to drop a fill of an order it tracks: the order
\* is acknowledged before the venue can fill it, and the fill fits.  The one
\* exception is an order rejected by a late failure of SubmitOrder.
TrackedFillsApply ==
  \A v \in Venues : feed[v] # <<>> =>
     LET f == Head(feed[v]) IN
     f.order \in tracked =>
        CanFill(order[f.order], f.qty)
          \/ (f.order \in late /\ order[f.order].status = "Rejected")

\* A terminal event is the last one of its order on the order-lifecycle topic;
\* only order_filled, after a late failure of SubmitOrder, may not be.
TerminalEventIsLast ==
  \A o \in Orders : \A i \in DOMAIN topic[o] :
     topic[o][i] = "order_rejected" \/ (topic[o][i] = "order_filled" /\ o \notin late)
       => i = Len(topic[o])

\* The orders table, as REST clients read it, follows the order lifecycle; the
\* row of an order whose SubmitOrder failed late may step back, but is never
\* rejected once it shows a fill, and shows none once it is rejected.
Lifecycle == INSTANCE OrderLifecycle WITH doubtful <- late
RowsFollowLifecycle == Lifecycle!Spec

\* A canceled order stops: once DELETE /orders/{id} was answered with status
\* canceled, no venue executes any more of it and its row does not move to any
\* status but Canceled.
CanceledOrdersStop ==
  [][\A o \in canceled : /\ book'[o].n = book[o].n
                        /\ rows'[o].status \in {rows[o].status, "Canceled"}]_vars

\* A price update leaves the quantity of the position alone: the row the pricer
\* writes counts the same fills as the row it replaces.
PricingKeepsQuantity ==
  [][\A v \in Venues : pricer[v].busy /\ ~pricer'[v].busy => pos'[v] = pos[v]]_vars

\* An order without a venue preference is not turned away for a disconnected
\* venue while another venue is connected.
SmartOrdersFindVenue ==
  [][\A o \in Orders :
       stage[o] = "routed" /\ smart /\ order'[o].status = "Rejected"
         => ready = {}]_vars

-----------------------------------------------------------------------------
\* Without faults

\* The fills that venue v executed.
ExecutedAt(v) ==
  {f \in fills : book[f.order].at = v}

\* When a venue's channel and collector are empty, its position row counts
\* every fill on record, and of every order but those whose SubmitOrder failed
\* late the row and the position show all that the venue executed.
BooksAgreeWhenIdle ==
  \A v \in Venues : feed[v] = <<>> /\ coll[v].pc = "idle" =>
     /\ pos[v] = ExecutedAt(v)
     /\ \A o \in Orders \ late : book[o].at = v =>
           /\ rows[o].filled + book[o].left = rows[o].qty
           /\ Cardinality({f \in pos[v] : f.order = o}) = book[o].n

-----------------------------------------------------------------------------
\* Liveness.  A goroutine that can take a step takes it: the Go scheduler is
\* fair, a channel hands out its elements in order, and every call returns
\* (the store and gRPC calls have deadlines, the adapters' HTTP clients too).

Fairness ==
  /\ \A o \in Orders :
        /\ WF_vars(TakeForRisk(o))
        /\ WF_vars(RiskPass(o) \/ RiskReject(o))
        /\ WF_vars(Route(o))
        /\ WF_vars(RejectDisconnected(o) \/ PassVenueCheck(o))
        /\ WF_vars(Dispatch(o))
        /\ WF_vars(Acknowledge(o))
        /\ WF_vars(SaveAck(o))
        /\ WF_vars(SubmitOk(o) \/ SubmitError(o))
        /\ WF_vars(ReadStatusArg(o))
        /\ WF_vars(SaveRejected(o))
  /\ \A v \in Venues :
        WF_vars(TakeFill(v) \/ DropFill(v) \/ SaveFill(v) \/ SaveOrder(v)
                \/ ReadPosition(v) \/ SavePosition(v))

LiveSpec == Spec /\ Fairness

\* An order the client was told is accepted does not stay New for ever: it is
\* rejected or reaches a venue's dispatcher, however venues come and go.
AcceptedOrdersDecided ==
  \A o \in Orders : stage[o] = "intake" ~> rows[o].status \notin {"None", "New"}

\* Every execution that a venue reports under the gateway's order id (Alpaca
\* reports under its own) ends up in the position of that venue, unless its
\* order was rejected by a late failure of SubmitOrder.
ReportedFillsBooked ==
  \A o \in Orders : \A n \in UNION {1 .. q : q \in Quantities} :
     (\E v \in Venues : \E i \in DOMAIN feed[v] : feed[v][i].order = o /\ feed[v][i].n = n)
       ~> \/ \E v \in Venues : \E f \in pos[v] : f.order = o /\ f.n = n
          \/ o \in late /\ order[o].status = "Rejected"

=============================================================================
