-------------------------- MODULE SimulatedExchange --------------------------
(***************************************************************************)
(* The simulated exchange (gateway/internal/adapter/simulated) with one    *)
(* instrument: its order book, the sweep loops that match limit orders     *)
(* against the price, and the goroutines that walk the price.  A Connect   *)
(* starts one of each; those started by request r are called r.  Nothing   *)
(* ever stops a sweep loop.  The books of several instruments share no     *)
(* more than the channel of fills.                                         *)
(*                                                                         *)
(* A sweep keeps the mutex of the book from reading it to writing it back, *)
(* also while it waits for room in the channel.  The status of the adapter *)
(* and the ticker of the walk are shared without any lock.                 *)
(***************************************************************************)
EXTENDS VenueRequests, SequencesExt

CONSTANTS
  Orders,      \* the orders the pipeline may submit
  Type,        \* "market" or "limit": REST takes no other
  Side,        \* "buy" or "sell"
  Limit,       \* the limit price
  Prices,      \* the prices the walk may take
  FillCap      \* capacity of fillCh (1 000 in the code)

ASSUME SimulatedAssumption ==
  /\ ~Aggregating
  /\ Type \in [Orders -> {"market", "limit"}]
  /\ Side \in [Orders -> {"buy", "sell"}]
  /\ Prices \subseteq Nat \ {0} /\ Limit \in [Orders -> Nat]
  /\ FillCap \in Nat \ {0}

VARIABLES
  price,      \* pw.currentPrice
  ticking,    \* pw.ticker runs
  walk,       \* where each goroutine that walks the price is
  overtaken,  \* a Start has come between a walker's stop signal and its end
  sweepers,   \* the sweep loops that run
  sweep,      \* the price each of them has read for its next sweep
  book,       \* book.orders
  mutex,      \* the sweep that holds book.mu
  todo,       \* the orders that sweep has still to look at
  kept,       \* the orders it leaves in the book
  call,       \* the SubmitOrder call of each order, then its cancellation
  filled,     \* how many fills fillCh was given for an order
  removed,    \* the orders CancelOrder took out of the book
  queued      \* how many fills fillCh holds

walkVars  == <<price, ticking, walk, overtaken>>
sweepVars == <<sweepers, sweep>>
bookVars  == <<book, mutex, todo, kept>>
orderVars == <<call, filled, removed, queued>>
vars == <<status, requestVars, walkVars, sweepVars, bookVars, orderVars>>

Unread == 0

TypeOK ==
  /\ RequestTypes({"setStatus", "clearStatus"})
  /\ price \in Prices
  /\ ticking \in BOOLEAN /\ overtaken \in BOOLEAN
  /\ walk \in [Connects -> {"none", "select", "stopping"}]
  /\ sweepers \subseteq Connects
  /\ sweep \in [Connects -> Prices \cup {Unread}]
  /\ {book, todo, kept} \subseteq Seq(Orders)
  /\ mutex \in Connects \cup {NoRequest}
  /\ call \in [Orders -> {"none", "checked", "acked", "failed", "canceling", "canceled"}]
  /\ filled \in [Orders -> Nat]
  /\ removed \subseteq Orders
  /\ queued \in 0 .. FillCap

Init ==
  /\ RequestInit
  /\ price \in Prices
  /\ ticking = FALSE /\ overtaken = FALSE
  /\ walk = [r \in Connects |-> "none"]
  /\ sweepers = {} /\ sweep = [r \in Connects |-> Unread]
  /\ book = <<>> /\ todo = <<>> /\ kept = <<>>
  /\ mutex = NoRequest
  /\ call = [o \in Orders |-> "none"]
  /\ filled = [o \in Orders |-> 0]
  /\ removed = {}
  /\ queued = 0

-----------------------------------------------------------------------------
(* Connect and Disconnect.                                                 *)

\* Mutant: only the first Start makes a ticker.
NewTickerOnce == ticking' = (ticking \/ sweepers = {})

NewTicker == ticking' = TRUE

\* engine.Start: a ticker, a walker and a sweep loop more.
StartEngine(r) ==
  /\ pc[r] = "connect"
  /\ NewTicker
  /\ overtaken' = (overtaken \/ \E w \in Connects : walk[w] = "stopping")
  /\ walk' = [walk EXCEPT ![r] = "select"]
  /\ sweepers' = sweepers \cup {r}
  /\ Goto(r, "setStatus")
  /\ UNCHANGED <<status, price>>

\* engine.Stop: a signal for whichever walker is waiting for one; it is lost
\* if none is, as when the only one is computing a price.
StopEngine(r) ==
  /\ pc[r] = "disconnect"
  /\ \/ UNCHANGED walk
     \/ \E w \in Connects : walk[w] = "select" /\ walk' = [walk EXCEPT ![w] = "stopping"]
  /\ Goto(r, "clearStatus")
  /\ UNCHANGED <<status, price, ticking, overtaken, sweepers>>

SetStatus(r) ==
  /\ \/ pc[r] = "setStatus" /\ status' = "Connected" /\ Connected(r)
     \/ pc[r] = "clearStatus" /\ status' = "Disconnected" /\ Goto(r, "done")
  /\ UNCHANGED <<walkVars, sweepers>>

ConnectionStep ==
  /\ \/ \E r \in Connects : StartEngine(r)
     \/ \E r \in Disconnects : StopEngine(r)
     \/ \E r \in Requests : SetStatus(r)
  /\ UNCHANGED <<mdCancel, pumps, ended, orderly, sweep, bookVars, orderVars>>

HandlerStep ==
  /\ RequestStep
  /\ UNCHANGED <<status, walkVars, sweepVars, bookVars, orderVars>>

-----------------------------------------------------------------------------
(* The price walk.  Walkers share one ticker, the newest; that one of them *)
(* may take a last tick of the ticker it was waiting on is left out.       *)

WalkMove(w) ==
  /\ walk[w] = "select" /\ ticking
  /\ price' \in Prices
  /\ UNCHANGED <<ticking, walk>>

\* A walker that got the signal stops the ticker that is there by then.
WalkEnds(w) ==
  /\ walk[w] = "stopping"
  /\ ticking' = FALSE
  /\ walk' = [walk EXCEPT ![w] = "none"]
  /\ UNCHANGED price

WalkStep(w) ==
  /\ WalkMove(w) \/ WalkEnds(w)
  /\ UNCHANGED <<status, requestVars, overtaken, sweepVars, bookVars, orderVars>>

-----------------------------------------------------------------------------
(* The sweep loops.                                                        *)

\* Mutant: the price has to be better than the limit.
CrossesStrictly(o, p) == IF Side[o] = "buy" THEN p < Limit[o] ELSE p > Limit[o]

Crosses(o, p) == IF Side[o] = "buy" THEN p <= Limit[o] ELSE p >= Limit[o]

\* Mutant: one fill more than the channel holds.
HasRoomOffByOne == queued <= FillCap

HasRoom == queued < FillCap

\* The price is read before the book is locked.
ReadPrice(s) ==
  /\ s \in sweepers /\ sweep[s] = Unread
  /\ sweep' = [sweep EXCEPT ![s] = price]
  /\ UNCHANGED <<bookVars, filled, queued>>

LockBook(s) ==
  /\ sweep[s] # Unread /\ mutex = NoRequest
  /\ mutex' = s
  /\ todo' = book /\ kept' = <<>>
  /\ UNCHANGED <<sweep, book, filled, queued>>

\* An order the price has reached is filled, the others are kept.
Match(s) ==
  /\ mutex = s /\ todo # <<>>
  /\ LET o == Head(todo) IN
     IF Crosses(o, sweep[s])
     THEN /\ HasRoom
          /\ queued' = queued + 1
          /\ filled' = [filled EXCEPT ![o] = @ + 1]
          /\ UNCHANGED kept
     ELSE kept' = Append(kept, o) /\ UNCHANGED <<queued, filled>>
  /\ todo' = Tail(todo)
  /\ UNCHANGED <<sweep, book, mutex>>

UnlockBook(s) ==
  /\ mutex = s /\ todo = <<>>
  /\ book' = kept /\ kept' = <<>>
  /\ mutex' = NoRequest
  /\ sweep' = [sweep EXCEPT ![s] = Unread]
  /\ UNCHANGED <<todo, filled, queued>>

SweepStep(s) ==
  /\ ReadPrice(s) \/ LockBook(s) \/ Match(s) \/ UnlockBook(s)
  /\ UNCHANGED <<status, requestVars, walkVars, sweepers, call, removed>>

-----------------------------------------------------------------------------
(* Orders.                                                                 *)

SubmitOrder(o) ==
  /\ call[o] = "none"
  /\ call' = [call EXCEPT ![o] = IF status = "Connected" THEN "checked" ELSE "failed"]
  /\ UNCHANGED <<book, filled, removed, queued>>

\* A market order waits for room in the channel and nothing else.
FillMarketOrder(o) ==
  /\ Type[o] = "market" /\ HasRoom
  /\ filled' = [filled EXCEPT ![o] = @ + 1]
  /\ queued' = queued + 1
  /\ UNCHANGED book

\* Mutant: orders enter and leave the book without its mutex.
BookFreeAlways == TRUE

BookFree == mutex = NoRequest

QueueLimitOrder(o) ==
  /\ Type[o] = "limit" /\ BookFree
  /\ book' = Append(book, o)
  /\ UNCHANGED <<filled, queued>>

ProcessOrder(o) ==
  /\ call[o] = "checked"
  /\ \/ FillMarketOrder(o)
     \/ QueueLimitOrder(o)
  /\ call' = [call EXCEPT ![o] = "acked"]
  /\ UNCHANGED removed

\* CancelOrder succeeds whether or not it finds the order.
CancelOrder(o) ==
  /\ call[o] = "acked" /\ status = "Connected"
  /\ call' = [call EXCEPT ![o] = "canceling"]
  /\ UNCHANGED <<book, filled, removed, queued>>

\* An order was submitted once and is in the book at most once.
RemoveOrder(o) ==
  /\ call[o] = "canceling" /\ BookFree
  /\ \/ \E k \in DOMAIN book : book[k] = o /\ book' = RemoveAt(book, k)
     \/ o \notin ToSet(book) /\ UNCHANGED book
  /\ removed' = removed \cup ({o} \cap ToSet(book))
  /\ call' = [call EXCEPT ![o] = "canceled"]
  /\ UNCHANGED <<filled, queued>>

OrderStep(o) ==
  /\ SubmitOrder(o) \/ ProcessOrder(o) \/ CancelOrder(o) \/ RemoveOrder(o)
  /\ UNCHANGED <<status, requestVars, walkVars, sweepVars, mutex, todo, kept>>

\* A fill collector takes a fill.
CollectFill ==
  /\ queued > 0
  /\ queued' = queued - 1
  /\ UNCHANGED <<status, requestVars, walkVars, sweepVars, bookVars, call, filled, removed>>

-----------------------------------------------------------------------------
Next ==
  \/ HandlerStep
  \/ ConnectionStep
  \/ \E w \in Connects : WalkStep(w)
  \/ \E s \in Connects : SweepStep(s)
  \/ \E o \in Orders : OrderStep(o)
  \/ CollectFill

\* The sweeps have tickers, and the collectors take fills for as long as the
\* gateway runs.
Fairness ==
  /\ \A s \in Connects : WF_vars(SweepStep(s))
  /\ WF_vars(CollectFill)

Spec == Init /\ [][Next]_vars /\ Fairness

-----------------------------------------------------------------------------
(* Properties.                                                             *)

\* The orders in the book: while a sweep runs, what it has kept and not seen.
Working == ToSet(IF mutex = NoRequest THEN book ELSE todo \o kept)

\* A limit order is in the book, or was filled once, or was canceled, and only
\* one of these, with any number of sweep loops left over from reconnections
\* and cancellations racing them.
LimitOrdersConserved ==
  \A o \in Orders :
    Type[o] = "limit" /\ call[o] \in {"acked", "canceling", "canceled"} =>
      filled[o] + Cardinality({o} \cap Working) + Cardinality({o} \cap removed) = 1

\* The price of a connected exchange moves: its ticker is stopped only when a
\* Connect overtook a walker on its way out, or requests overlapped.
FrozenOnlyIfOvertaken ==
  status = "Connected" /\ InFlight = {} /\ orderly /\ ~ticking => overtaken

Reached(o) == IF Side[o] = "buy" THEN price <= Limit[o] ELSE price >= Limit[o]

\* A limit order the price has reached is filled unless the price leaves or it
\* is canceled, also when the venue is disconnected, for sweeps go on, and also
\* when a sweep waits for room in the channel with the book locked.
CrossedOrderFills ==
  \A o \in Orders :
    (o \in Working /\ Reached(o)) ~> (o \notin Working \/ ~Reached(o))
=============================================================================
