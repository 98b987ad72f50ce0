--------------------------- MODULE BinanceAdapter ---------------------------
(***************************************************************************)
(* The Binance adapter (gateway/internal/adapter/binance) between the REST *)
(* handlers that connect it, the dispatcher that sends orders, the venue   *)
(* and the fill collector.  A successful part of Connect leaves one feed   *)
(* per stream and one keep-alive loop behind; the feeds and the loop made  *)
(* by request r are called r.  Only the last feed of a kind is remembered  *)
(* by the adapter and can be stopped by it.                                *)
(*                                                                         *)
(* Connect, Disconnect and SubscribeMarketData hold a.mu from beginning to *)
(* end and are one action each; the read loops, SubmitOrder and            *)
(* CancelOrder run beside them.  Market data itself, and messages other    *)
(* than TRADE reports, which the read loop skips, are left out.            *)
(***************************************************************************)
EXTENDS VenueRequests, Sequences

CONSTANTS
  Orders,      \* orders the pipeline may submit
  Number,      \* the orderId Binance gives each: unique per symbol only
  Symbol,      \* the symbol of each order
  Lots,        \* how many trades each order gets at most
  Cancelers,   \* the orders someone may ask to cancel
  Resting,     \* orders a previous run of the gateway left open at the venue
  FillCap      \* capacity of fillCh (1 000 in the code)

Execs == UNION {{o} \X (1 .. Lots[o]) : o \in Orders}

ASSUME BinanceAssumption ==
  /\ Number \in [Orders -> Nat]
  /\ Lots \in [Orders -> Nat] /\ FillCap \in Nat \ {0}
  /\ Cancelers \subseteq Orders /\ Resting \subseteq Orders
  /\ \A o, p \in Orders : Number[o] = Number[p] /\ Symbol[o] = Symbol[p] => o = p

VARIABLES
  userFeed,    \* a.userFeed
  marketFeed,  \* a.marketFeed
  stopped,     \* the feeds whose stopCh is closed, by kind
  socket,      \* the feeds with an open socket, by kind
  inbox,       \* TRADE reports that reached the socket of a user feed
  loops,       \* running keep-alive loops
  cancelLoop,  \* a.cancelKeepAlive: the loop it cancels
  panicked,    \* a Disconnect has panicked
  queued,      \* how many fills a.fillCh holds
  copies,      \* fills sent to fillCh so far, per execution
  call,        \* the SubmitOrder and CancelOrder call of each order
  todo,        \* the symbols a CancelOrder call has not tried
  venue        \* what Binance did with each order, and its trades so far

feedVars  == <<userFeed, marketFeed, stopped, socket, inbox>>
orderVars == <<call, todo, venue>>
vars == <<status, requestVars, feedVars, loops, cancelLoop, panicked, queued,
          copies, orderVars>>

Symbols == {Symbol[o] : o \in Orders}
Kinds   == {"user", "market"}

TypeOK ==
  /\ RequestTypes({})
  /\ {userFeed, marketFeed, cancelLoop} \subseteq Connects \cup {NoRequest}
  /\ stopped \in [Kinds -> SUBSET Connects]
  /\ socket \in [Kinds -> SUBSET Connects]
  /\ inbox \in [Connects -> Seq(Execs)]
  /\ loops \subseteq Connects
  /\ panicked \in BOOLEAN
  /\ queued \in 0 .. FillCap
  /\ copies \in [Execs -> Nat]
  /\ call \in [Orders -> {"none", "sending", "acked", "failed",
                          "canceling", "canceled", "notCanceled"}]
  /\ todo \in [Orders -> SUBSET Symbols]
  /\ venue \in [Orders -> [state : {"unknown", "open", "filled", "canceled"},
                           trades : Nat]]

Init ==
  /\ RequestInit
  /\ userFeed = NoRequest /\ marketFeed = NoRequest
  /\ stopped = [k \in Kinds |-> {}]
  /\ socket = [k \in Kinds |-> {}]
  /\ inbox = [r \in Connects |-> <<>>]
  /\ loops = {} /\ cancelLoop = NoRequest
  /\ panicked = FALSE
  /\ queued = 0
  /\ copies = [e \in Execs |-> 0]
  /\ call = [o \in Orders |-> IF o \in Resting THEN "acked" ELSE "none"]
  /\ todo = [o \in Orders |-> {}]
  /\ venue = [o \in Orders |-> [state |-> IF o \in Resting THEN "open" ELSE "unknown",
                               trades |-> 0]]

-----------------------------------------------------------------------------
(* Connecting and disconnecting.                                           *)

\* Mutant: the feed of an earlier connection is started again.
NewFeedReused(r) == IF userFeed = NoRequest THEN r ELSE userFeed

\* Connect creates a feed each time; the one it replaces is not stopped.
NewFeed(r) == r

\* Mutant: the keep-alive loop is started before the socket is open.
ConnectFailsLate(r) ==
  /\ userFeed' = NewFeed(r)
  /\ loops' = loops \cup {r} /\ cancelLoop' = r
  /\ UNCHANGED <<status, socket>>

\* No listen key: nothing happens.  No socket: the new feed stays without one.
ConnectFails(r) ==
  /\ userFeed' \in {userFeed, NewFeed(r)}
  /\ UNCHANGED <<status, socket, loops, cancelLoop>>

\* Otherwise a keep-alive loop is started, its cancel function replaces the
\* previous one, and the status changes.
ConnectSucceeds(r) ==
  /\ userFeed' = NewFeed(r)
  /\ socket' = [socket EXCEPT !["user"] = @ \cup {NewFeed(r)}]
  /\ loops' = loops \cup {r} /\ cancelLoop' = r
  /\ status' = "Connected"

Connect(r) ==
  /\ pc[r] = "connect"
  /\ \/ ConnectFails(r) /\ Goto(r, "done")
     \/ ConnectSucceeds(r) /\ Connected(r)
  /\ UNCHANGED <<mdCancel, pumps, ended, orderly, marketFeed, stopped, inbox,
                 panicked, queued, copies, orderVars>>

\* SubscribeMarketData, with the handler's reaction: the new feed is in place
\* even if its socket cannot be opened.
SubscribeMarketData(r) ==
  /\ pc[r] = "subscribe"
  /\ \/ /\ status # "Connected"
        /\ Subscribed(r, FALSE)
        /\ UNCHANGED <<marketFeed, socket>>
     \/ /\ status = "Connected"
        /\ marketFeed' = r
        /\ \E ok \in BOOLEAN :
             /\ Subscribed(r, ok)
             /\ socket' = [socket EXCEPT !["market"] = IF ok THEN @ \cup {r} ELSE @]
  /\ UNCHANGED <<status, userFeed, stopped, inbox, loops, cancelLoop, panicked,
                 queued, copies, orderVars>>

\* Stop of the feed that current points to: closing stopCh a second time
\* panics, and then Disconnect goes no further.
StopPanics(kind, current) == current \in stopped[kind]

\* Mutant: only the market feed is stopped.
ClosingMarketOnly(k) == IF k = "user" THEN {} ELSE {marketFeed} \ {NoRequest}

\* The feeds a Disconnect stops: both, or none if the first Stop panics.
Closing(k) ==
  IF StopPanics("user", userFeed) THEN {}
  ELSE {IF k = "user" THEN userFeed ELSE marketFeed} \ {NoRequest}

\* Disconnect: keep-alive, user feed, market feed, status.  The pointers stay.
Disconnect(r) ==
  /\ pc[r] = "disconnect"
  /\ Goto(r, "done")
  /\ loops' = loops \ {cancelLoop}
  /\ stopped' = [k \in Kinds |-> stopped[k] \cup Closing(k)]
  /\ socket' = [k \in Kinds |-> socket[k] \ Closing(k)]
  /\ inbox' = [f \in Connects |-> IF f \in Closing("user") THEN <<>> ELSE inbox[f]]
  /\ IF StopPanics("user", userFeed) \/ StopPanics("market", marketFeed)
     THEN panicked' = TRUE /\ UNCHANGED status
     ELSE status' = "Disconnected" /\ UNCHANGED panicked
  /\ UNCHANGED <<mdCancel, pumps, ended, orderly, userFeed, marketFeed, cancelLoop,
                 queued, copies, orderVars>>

HandlerStep ==
  /\ RequestStep
  /\ UNCHANGED <<status, feedVars, loops, cancelLoop, panicked, queued, copies, orderVars>>

-----------------------------------------------------------------------------
(* The user data stream.                                                   *)

\* Mutant: one fill more than the channel holds.
HasRoomOffByOne == queued <= FillCap

HasRoom == queued < FillCap

\* Mutant: a report that was read is read again.
AfterReadKept(f) == inbox[f]

AfterRead(f) == Tail(inbox[f])

\* A read loop takes the next TRADE report off its socket and sends the fill
\* without waiting: a full channel loses it.
ReadLoop(f) ==
  /\ inbox[f] # <<>>
  /\ inbox' = [inbox EXCEPT ![f] = AfterRead(f)]
  /\ IF HasRoom
     THEN /\ queued' = queued + 1
          /\ copies' = [copies EXCEPT ![Head(inbox[f])] = @ + 1]
     ELSE UNCHANGED <<queued, copies>>
  /\ UNCHANGED <<status, requestVars, userFeed, marketFeed, stopped, socket, loops,
                 cancelLoop, panicked, orderVars>>

\* The connection breaks or its listen key expires: what the socket still
\* holds may be lost, the loop ends for good, the status stays.
SocketBreaks(f) ==
  /\ f \in socket["user"]
  /\ socket' = [socket EXCEPT !["user"] = @ \ {f}]
  /\ \E n \in 0 .. Len(inbox[f]) : inbox' = [inbox EXCEPT ![f] = SubSeq(@, 1, n)]
  /\ UNCHANGED <<status, requestVars, userFeed, marketFeed, stopped, loops,
                 cancelLoop, panicked, queued, copies, orderVars>>

\* A fill collector takes a fill.
CollectFill ==
  /\ queued > 0
  /\ queued' = queued - 1
  /\ UNCHANGED <<status, requestVars, feedVars, loops, cancelLoop, panicked, copies,
                 orderVars>>

-----------------------------------------------------------------------------
(* Orders.                                                                 *)

\* SubmitOrder looks at the status under the lock and sends the request
\* after it has released it.
SubmitOrder(o) ==
  /\ call[o] = "none"
  /\ call' = [call EXCEPT ![o] = IF status = "Connected" THEN "sending" ELSE "failed"]
  /\ UNCHANGED <<status, requestVars, feedVars, loops, cancelLoop, panicked, queued,
                 copies, todo, venue>>

\* The order is accepted or refused, and the answer arrives or is lost.
SubmitAnswer(o) ==
  /\ call[o] = "sending"
  /\ \E accepted, answered \in BOOLEAN :
       /\ call' = [call EXCEPT ![o] = IF accepted /\ answered THEN "acked" ELSE "failed"]
       /\ venue' = [venue EXCEPT ![o].state = IF accepted THEN "open" ELSE @]
  /\ UNCHANGED <<status, requestVars, feedVars, loops, cancelLoop, panicked, queued,
                 copies, todo>>

\* A trade, reported on every open user stream.
VenueTrades(o) ==
  LET n == venue[o].trades + 1 IN
  /\ venue[o].state = "open" /\ n <= Lots[o]
  /\ venue' = [venue EXCEPT ![o] = [state |-> IF n = Lots[o] THEN "filled" ELSE "open",
                                    trades |-> n]]
  /\ inbox' = [f \in Connects |-> IF f \in socket["user"]
                                  THEN Append(inbox[f], <<o, n>>) ELSE inbox[f]]
  /\ UNCHANGED <<status, requestVars, userFeed, marketFeed, stopped, socket,
                 loops, cancelLoop, panicked, queued, copies, call, todo>>

CancelOrder(o) ==
  /\ o \in Cancelers
  /\ call[o] = "acked"
  /\ IF status = "Connected"
     THEN call' = [call EXCEPT ![o] = "canceling"] /\ todo' = [todo EXCEPT ![o] = Symbols]
     ELSE call' = [call EXCEPT ![o] = "notCanceled"] /\ UNCHANGED todo
  /\ UNCHANGED <<status, requestVars, feedVars, loops, cancelLoop, panicked, queued,
                 copies, venue>>

Targets(o, s) ==
  {p \in Orders : Symbol[p] = s /\ Number[p] = Number[o] /\ venue[p].state = "open"}

\* The venue answers 200.
CanceledOK(o, s) == Targets(o, s) # {}

\* The number of the order is tried with one symbol after another, in the
\* random order of a Go map, until an answer says 200.
CancelTry(o) ==
  /\ call[o] = "canceling"
  /\ \/ /\ todo[o] = {}
        /\ call' = [call EXCEPT ![o] = "notCanceled"]
        /\ UNCHANGED <<todo, venue>>
     \/ \E s \in todo[o], arrived, answered \in BOOLEAN :
          /\ venue' = [p \in Orders |->
                         IF arrived /\ p \in Targets(o, s)
                         THEN [venue[p] EXCEPT !.state = "canceled"] ELSE venue[p]]
          /\ IF arrived /\ answered /\ CanceledOK(o, s)
             THEN call' = [call EXCEPT ![o] = "canceled"] /\ todo' = [todo EXCEPT ![o] = {}]
             ELSE todo' = [todo EXCEPT ![o] = @ \ {s}] /\ UNCHANGED call
  /\ UNCHANGED <<status, requestVars, feedVars, loops, cancelLoop, panicked, queued, copies>>

-----------------------------------------------------------------------------
Next ==
  \/ HandlerStep
  \/ \E r \in Connects : Connect(r) \/ SubscribeMarketData(r)
  \/ \E r \in Disconnects : Disconnect(r)
  \/ \E f \in Connects : ReadLoop(f) \/ SocketBreaks(f)
  \/ CollectFill
  \/ \E o \in Orders : SubmitOrder(o) \/ SubmitAnswer(o) \/ VenueTrades(o)
                         \/ CancelOrder(o) \/ CancelTry(o)

Spec == Init /\ [][Next]_vars

-----------------------------------------------------------------------------
(* Properties.                                                             *)

\* How many messages about an execution the user feeds still hold.
Due(e) ==
  Cardinality({f \in Connects : \E i \in DOMAIN inbox[f] : inbox[f][i] = e})

Stream == INSTANCE FillStream WITH
  open <- Cardinality(socket["user"]), due <- [e \in Execs |-> Due(e)], copies <- copies

\* However requests, read loops and broken sockets interleave, an execution
\* is reported at most once per user stream that was open when it happened:
\* the read loops implement the contract of FillFeed().
FillsFollowStream == Stream!Spec

\* For clients that connect a disconnected venue, disconnect a connected one
\* and wait for the answers, every execution becomes at most one fill.  A
\* Connect on top of a live one is not refused and leaves two read loops.
AtMostOnceInOrder == orderly => \A e \in Execs : copies[e] <= 1

\* Stop closes a channel without looking whether it is closed: for clients
\* that act in order, no Disconnect closes one twice.
NoPanicInOrder == orderly => ~panicked

\* Nothing a connection started outlives it: when clients that act in order
\* have disconnected, no socket, keep-alive loop or market-data pump is left.
QuietWhenDisconnected ==
  orderly /\ InFlight = {} /\ status = "Disconnected" =>
    (\A k \in Kinds : socket[k] = {}) /\ loops = {} /\ LivePumps = {}

\* CancelOrder cancels the order it is called for: no order of the venue is
\* canceled while no call for that order is under way.
OnlyItsOrderCanceled ==
  [][\A o \in Orders : venue[o].state # "canceled" /\ venue'[o].state = "canceled"
       => call[o] = "canceling"]_vars
=============================================================================
