---------------------------- MODULE AlpacaAdapter ----------------------------
(***************************************************************************)
(* The Alpaca adapter (gateway/internal/adapter/alpaca): a Connect makes a *)
(* market-data feed and a trade feed, each with a goroutine that dials,    *)
(* reads and dials again until it is told to end.  It is told by Stop, or  *)
(* by the context it was started with; that is the context of the connect  *)
(* request, which net/http cancels as soon as the request is answered.     *)
(* The feeds made by request r are called r.                               *)
(*                                                                         *)
(* a.mu is a lock that only Disconnect holds for longer than a step: it    *)
(* waits for the goroutines of both feeds while it holds it.  Connect      *)
(* starts the feeds without the lock.  Market data itself, pings, and      *)
(* messages other than fills, which the read loop skips, are left out.     *)
(***************************************************************************)
EXTENDS VenueRequests, Sequences

CONSTANTS
  Orders,      \* orders the pipeline may submit
  Lots,        \* how many fills each order gets at most
  AlpacaId     \* the id that Alpaca gives each order, next to the gateway's

Execs == UNION {{o} \X (1 .. Lots[o]) : o \in Orders}
Kinds == {"market", "trade"}

\* SubscribeMarketData changes nothing of the adapter's state.
ASSUME AlpacaAssumption ==
  /\ Lots \in [Orders -> Nat]
  /\ \A o \in Orders : AlpacaId[o] \notin Orders
  /\ ~Aggregating

VARIABLES
  verified,   \* the account endpoint has accepted a.apiKey and a.apiSecret
  current,    \* a.marketFeed and a.tradeFeed
  run,        \* where the goroutine of each feed is
  starter,    \* the request whose context each feed was started with
  stopped,    \* the feeds whose stopCh is closed
  inbox,      \* fill messages that reached the connection of a trade feed
  late,       \* messages a trade feed took after its context had ended
  holder,     \* the Disconnect that holds a.mu
  crashed,    \* a goroutine nobody recovers has panicked
  copies,     \* fills sent to fillCh so far, per execution
  named,      \* the order ids on these fills
  call,       \* the SubmitOrder call of each order
  venue       \* what Alpaca did with each order, and its fills so far

feedVars  == <<current, run, starter, stopped, inbox, late>>
orderVars == <<copies, named, call, venue>>
vars == <<status, requestVars, verified, feedVars, holder, crashed, orderVars>>

AlpacaSteps == {"ping", "feeds", "startMarket", "startTrade", "setStatus",
                "awaitMarket", "awaitTrade"}

TypeOK ==
  /\ RequestTypes(AlpacaSteps)
  /\ verified \in BOOLEAN
  /\ current \in [Kinds -> Connects \cup {NoRequest}]
  /\ run \in [Kinds -> [Connects -> {"new", "dial", "read", "close", "ended"}]]
  /\ starter \in [Kinds -> [Connects -> Connects \cup {NoRequest}]]
  /\ stopped \in [Kinds -> SUBSET Connects]
  /\ inbox \in [Connects -> Seq(Execs)]
  /\ late \in [Connects -> Nat]
  /\ holder \in Disconnects \cup {NoRequest}
  /\ crashed \in BOOLEAN
  /\ copies \in [Execs -> Nat]
  /\ named \subseteq Orders \cup {AlpacaId[o] : o \in Orders}
  /\ call \in [Orders -> {"none", "sending", "acked", "failed"}]
  /\ venue \in [Orders -> [state : {"unknown", "open", "filled", "canceled"},
                           fills : Nat]]

Init ==
  /\ RequestInit
  /\ verified = FALSE
  /\ current = [k \in Kinds |-> NoRequest]
  /\ run = [k \in Kinds |-> [r \in Connects |-> "new"]]
  /\ starter = [k \in Kinds |-> [r \in Connects |-> NoRequest]]
  /\ stopped = [k \in Kinds |-> {}]
  /\ inbox = [r \in Connects |-> <<>>]
  /\ late = [r \in Connects |-> 0]
  /\ holder = NoRequest
  /\ crashed = FALSE
  /\ copies = [e \in Execs |-> 0]
  /\ named = {}
  /\ call = [o \in Orders |-> "none"]
  /\ venue = [o \in Orders |-> [state |-> "unknown", fills |-> 0]]

Unlocked == holder = NoRequest

ContextEnded(kind, f) == starter[kind][f] # NoRequest /\ pc[starter[kind][f]] = "done"

\* Mutant: the context is not looked at.
CanceledStopOnly(kind, f) == f \in stopped[kind]

\* What a goroutine asks at the top of both of its loops.
Canceled(kind, f) == f \in stopped[kind] \/ ContextEnded(kind, f)

-----------------------------------------------------------------------------
(* Connect, one action per stretch between two accesses of a.mu.           *)

\* The credential is in place before it is known to be good, and stays there.
SetKeys(r) ==
  /\ pc[r] = "connect" /\ Unlocked
  /\ verified' = FALSE
  /\ Goto(r, "ping")
  /\ UNCHANGED <<status, mdCancel, pumps, ended, orderly, feedVars, holder,
                 crashed, orderVars>>

\* Mutant: the answer of the account endpoint is ignored.
PingUnchecked(r, ok) == Goto(r, "feeds")

PingAnswered(r, ok) == Goto(r, IF ok THEN "feeds" ELSE "done")

\* Ping uses whatever credential is in place by then.
Ping(r) ==
  /\ pc[r] = "ping" /\ Unlocked
  /\ \E ok \in BOOLEAN :
       /\ verified' = (verified \/ ok)
       /\ PingAnswered(r, ok)
  /\ UNCHANGED <<status, mdCancel, pumps, ended, orderly, feedVars, holder,
                 crashed, orderVars>>

\* The feeds that were there are forgotten, not stopped.
NewFeeds(r) ==
  /\ pc[r] = "feeds" /\ Unlocked
  /\ current' = [k \in Kinds |-> r]
  /\ Goto(r, "startMarket")
  /\ UNCHANGED <<status, mdCancel, pumps, ended, orderly, verified, run, starter,
                 stopped, inbox, late, holder, crashed, orderVars>>

\* Start of a feed that is there and was not started launches its goroutine.
\* A nil feed, or a second goroutine closing done again, ends the process (at
\* once here; the two goroutines would first read one connection).
Launch(kind, r) ==
  LET f == current[kind] IN
  IF f # NoRequest /\ run[kind][f] = "new"
  THEN /\ run' = [run EXCEPT ![kind][f] = IF f \in stopped[kind] THEN "ended" ELSE "dial"]
       /\ starter' = [starter EXCEPT ![kind][f] = r]
       /\ UNCHANGED crashed
  ELSE crashed' = TRUE /\ UNCHANGED <<run, starter>>

\* Mutant: the market feed is started in place of the trade feed.
StartsMarketTwice(step) == "market"

Starts(step) == IF step = "startMarket" THEN "market" ELSE "trade"

\* a.marketFeed.Start and a.tradeFeed.Start, without the lock.
StartFeed(r) ==
  /\ pc[r] \in {"startMarket", "startTrade"}
  /\ Launch(Starts(pc[r]), r)
  /\ Goto(r, IF pc[r] = "startMarket" THEN "startTrade" ELSE "setStatus")
  /\ UNCHANGED <<status, mdCancel, pumps, ended, orderly, verified, current,
                 stopped, inbox, late, holder, orderVars>>

SetStatus(r) ==
  /\ pc[r] = "setStatus" /\ Unlocked
  /\ status' = "Connected"
  /\ Connected(r)
  /\ UNCHANGED <<mdCancel, pumps, ended, orderly, verified, feedVars, holder,
                 crashed, orderVars>>

-----------------------------------------------------------------------------
(* Disconnect: the lock is taken first and given back last.                *)

\* Mutant: Stop is called on a feed that is not there.
StoppingNil(kind) == stopped' = [stopped EXCEPT ![kind] = @ \cup {current[kind]}]

\* Stop: stopCh is closed if it was not.
Stopping(kind) ==
  stopped' = [stopped EXCEPT ![kind] = @ \cup ({current[kind]} \ {NoRequest})]

\* The channel done of the feed is closed, or there is no feed.
Gone(kind) == current[kind] # NoRequest => run[kind][current[kind]] = "ended"

StopMarket(r) ==
  /\ pc[r] = "disconnect" /\ Unlocked
  /\ holder' = r
  /\ Stopping("market")
  /\ Goto(r, "awaitMarket")
  /\ UNCHANGED <<status, current>>

StopTrade(r) ==
  /\ pc[r] = "awaitMarket" /\ Gone("market")
  /\ current' = [current EXCEPT !["market"] = NoRequest]
  /\ Stopping("trade")
  /\ Goto(r, "awaitTrade")
  /\ UNCHANGED <<status, holder>>

Stopped(r) ==
  /\ pc[r] = "awaitTrade" /\ Gone("trade")
  /\ current' = [current EXCEPT !["trade"] = NoRequest]
  /\ status' = "Disconnected"
  /\ holder' = NoRequest
  /\ Goto(r, "done")
  /\ UNCHANGED stopped

Disconnect(r) ==
  /\ StopMarket(r) \/ StopTrade(r) \/ Stopped(r)
  /\ UNCHANGED <<mdCancel, pumps, ended, orderly, verified, run, starter, inbox,
                 late, crashed, orderVars>>

HandlerStep ==
  /\ RequestStep
  /\ UNCHANGED <<status, verified, feedVars, holder, crashed, orderVars>>

-----------------------------------------------------------------------------
(* The goroutine of a feed.  It asks whether it is canceled after every    *)
(* event, before it dials or reads again.                                  *)

GoesOn(kind, f, step, otherwise) ==
  run' = [run EXCEPT ![kind][f] = IF Canceled(kind, f) THEN otherwise ELSE step]

LosesInbox(kind, f) ==
  inbox' = IF kind = "trade" THEN [inbox EXCEPT ![f] = <<>>] ELSE inbox

\* connect: dialing may fail, and does when the context has ended.
Dial(kind, f) ==
  /\ run[kind][f] = "dial"
  /\ \/ GoesOn(kind, f, "dial", "ended")
     \/ ~ContextEnded(kind, f) /\ GoesOn(kind, f, "read", "close")
  /\ UNCHANGED inbox

\* The connection is lost with what was not read from it.
ConnectionEnds(kind, f) ==
  /\ run[kind][f] = "read"
  /\ GoesOn(kind, f, "dial", "ended")
  /\ LosesInbox(kind, f)

\* A canceled goroutine closes its connection.
Close(kind, f) ==
  /\ run[kind][f] = "close"
  /\ run' = [run EXCEPT ![kind][f] = "ended"]
  /\ LosesInbox(kind, f)

\* Mutant: pings go on after the feed was told to end.
UnpingedNever(kind, f) == FALSE

\* Pings keep a connection open; the goroutine that sends them ends with the
\* feed, and Alpaca closes a connection that is idle for five minutes.
Unpinged(kind, f) == Canceled(kind, f)

IdleClose(kind, f) == Unpinged(kind, f) /\ ConnectionEnds(kind, f)

FeedStep(kind, f) ==
  /\ Dial(kind, f) \/ ConnectionEnds(kind, f) \/ Close(kind, f)
  /\ UNCHANGED <<status, requestVars, verified, current, starter, stopped, late,
                 holder, crashed, orderVars>>

\* ReadMessage returns market data.
MarketMessage(f) ==
  /\ run["market"][f] = "read"
  /\ GoesOn("market", f, "read", "close")
  /\ UNCHANGED <<status, requestVars, verified, current, starter, stopped, inbox,
                 late, holder, crashed, orderVars>>

\* Mutant: a message that was read is read again.
AfterReadKept(f) == inbox[f]

AfterRead(f) == Tail(inbox[f])

\* mapToFill: the order is named by detail.Order.ID, which is Alpaca's.
OrderID(e) == AlpacaId[e[1]]

\* ReadMessage returns a fill, whatever happened while it waited; the fill is
\* sent without waiting, and lost when fillCh is full.
FillMessage(f) ==
  /\ run["trade"][f] = "read" /\ inbox[f] # <<>>
  /\ GoesOn("trade", f, "read", "close")
  /\ inbox' = [inbox EXCEPT ![f] = AfterRead(f)]
  /\ late' = [late EXCEPT ![f] = IF ContextEnded("trade", f) THEN @ + 1 ELSE @]
  /\ \E room \in {0, 1} :
       /\ copies' = [copies EXCEPT ![Head(inbox[f])] = @ + room]
       /\ named' = IF room = 1 THEN named \cup {OrderID(Head(inbox[f]))} ELSE named
  /\ UNCHANGED <<status, requestVars, verified, current, starter, stopped, holder,
                 crashed, call, venue>>

-----------------------------------------------------------------------------
(* Orders.                                                                 *)

\* SubmitOrder: status and credential are read under the lock, and the
\* request is sent later.
SubmitOrder(o) ==
  /\ call[o] = "none" /\ Unlocked
  /\ call' = [call EXCEPT ![o] = IF status = "Connected" THEN "sending" ELSE "failed"]
  /\ UNCHANGED venue

\* Alpaca accepts or refuses, and its answer arrives or is lost.
SubmitAnswer(o) ==
  /\ call[o] = "sending"
  /\ \E accepted, answered \in BOOLEAN :
       /\ call' = [call EXCEPT ![o] = IF accepted /\ answered THEN "acked" ELSE "failed"]
       /\ venue' = [venue EXCEPT ![o].state = IF accepted THEN "open" ELSE @]

\* CancelOrder by Alpaca's own id for the order, which only an ack tells.
CancelOrder(o) ==
  /\ call[o] = "acked" /\ Unlocked /\ status = "Connected"
  /\ venue[o].state = "open"
  /\ venue' = [venue EXCEPT ![o].state = "canceled"]
  /\ UNCHANGED call

OrderStep ==
  /\ \E o \in Orders : SubmitOrder(o) \/ SubmitAnswer(o) \/ CancelOrder(o)
  /\ UNCHANGED <<status, requestVars, verified, feedVars, holder, crashed, copies, named>>

Listening == {f \in Connects : run["trade"][f] \in {"read", "close"}}

\* A fill, reported on every connection that listens to trade updates.
VenueFills(o) ==
  LET n == venue[o].fills + 1 IN
  /\ venue[o].state = "open" /\ n <= Lots[o]
  /\ venue' = [venue EXCEPT ![o] = [state |-> IF n = Lots[o] THEN "filled" ELSE "open",
                                    fills |-> n]]
  /\ inbox' = [f \in Connects |-> IF f \in Listening
                                  THEN Append(inbox[f], <<o, n>>) ELSE inbox[f]]
  /\ UNCHANGED <<status, requestVars, verified, current, run, starter, stopped,
                 late, holder, crashed, copies, named, call>>

-----------------------------------------------------------------------------
ConnectStep(r) ==
  SetKeys(r) \/ Ping(r) \/ NewFeeds(r) \/ StartFeed(r) \/ SetStatus(r)

Next ==
  /\ ~crashed
  /\ \/ HandlerStep
     \/ \E r \in Connects : ConnectStep(r)
     \/ \E r \in Disconnects : Disconnect(r)
     \/ \E k \in Kinds, f \in Connects : FeedStep(k, f)
     \/ \E f \in Connects : MarketMessage(f) \/ FillMessage(f)
     \/ OrderStep
     \/ \E o \in Orders : VenueFills(o)

\* Goroutines that can run do; the HTTP client has a timeout, so a Ping ends;
\* Alpaca closes connections that no ping keeps open.
Fairness ==
  /\ \A r \in Connects : WF_vars(~crashed /\ ConnectStep(r))
  /\ \A r \in Disconnects : WF_vars(~crashed /\ Disconnect(r))
  /\ \A k \in Kinds, f \in Connects :
       WF_vars(~crashed /\ (Dial(k, f) \/ IdleClose(k, f) \/ Close(k, f)) /\ FeedStep(k, f))

Spec == Init /\ [][Next]_vars /\ Fairness

-----------------------------------------------------------------------------
(* Properties.                                                             *)

\* How many messages about an execution the trade feeds still hold.
Due(e) ==
  Cardinality({f \in Connects : \E i \in DOMAIN inbox[f] : inbox[f][i] = e})

Stream == INSTANCE FillStream WITH
  open <- Cardinality(Listening), due <- [e \in Execs |-> Due(e)], copies <- copies

\* An execution is reported at most once per connection that listened when it
\* happened, through reconnects, abandoned feeds and full channels: the trade
\* feeds implement the contract of FillFeed().
FillsFollowStream == Stream!Spec

\* The pipeline finds the order of a fill under the id the gateway gave it
\* (pipeline.go:676), and drops a fill that names none: a fill names its order so.
FillsNameOrders == named \subseteq Orders

\* Once the connect request is answered a trade feed takes at most the one
\* message it is waiting for, and ends: fills go on arriving for no longer,
\* although the venue stays Connected.
AtMostOneLateFill == \A f \in Connects : late[f] <= 1

\* Start dereferences a feed that a Disconnect may have taken away, and a feed
\* started twice closes done twice; either takes the process down.  Clients
\* that act in order never get there.
NoCrashInOrder == orderly => ~crashed

\* Orders are sent with a credential Alpaca has accepted, for clients that act
\* in order; a failed Connect on top of a live one replaces the credential.
KeyVerifiedInOrder == orderly /\ status = "Connected" => verified

\* Disconnect waits for two goroutines that may be blocked on a socket, with
\* the lock every other call needs: it returns all the same, because the pings
\* end with the feed and the venue then closes the connection.
DisconnectReturns ==
  \A r \in Disconnects : (pc[r] = "disconnect") ~> (pc[r] = "done" \/ crashed)
=============================================================================
