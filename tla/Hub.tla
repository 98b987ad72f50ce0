--------------------------------- MODULE Hub ---------------------------------
(***************************************************************************)
(* The WebSocket hub (gateway/internal/ws): its clients with their two     *)
(* pumps, the broadcasts, and the throttle that lets one position update   *)
(* through in 100 ms and keeps one other waiting for a timer.              *)
(*                                                                         *)
(* Positions are updated by the goroutine that processes fills and by the  *)
(* one that prices them; what matters of a position is its version.  The   *)
(* broadcasts of orders, alerts, bars and venue states are alike and       *)
(* unthrottled.                                                            *)
(***************************************************************************)
EXTENDS Naturals, Sequences

CONSTANTS
  Clients,       \* the WebSocket connections that may be made
  Stream,        \* the stream of each: "positions" or another
  Instruments,
  Notifiers,     \* the goroutines that call NotifyPositionUpdate
  SendCap,       \* capacity of a client's send channel (256 in the code)
  MaxUpdates     \* bound on the updates of each position

ASSUME HubAssumption ==
  SendCap \in Nat \ {0} /\ MaxUpdates \in Nat /\ "positions" \in {Stream[c] : c \in Clients}

Updates == Instruments \X (1 .. MaxUpdates)
Other   == <<"other", 0>>      \* a message of an unthrottled stream
Nothing == <<"nothing", 0>>

VARIABLES
  clients,     \* h.clients
  conn,        \* the connection of each client, as the hub's side sees it
  send,        \* c.send
  sendClosed,  \* the clients whose send channel is closed
  reads,       \* the clients whose read pump runs
  writes,      \* the clients whose write pump runs
  panicked,    \* something was sent on a closed channel
  version,     \* the version of each position
  calls,       \* the update each notifier is about to announce
  recent,      \* the last position broadcast is less than 100 ms old
  pending,     \* h.posPending
  timerSet,    \* h.posTimer is not nil
  timer,       \* the timer itself
  shown,       \* the last version of each position a client was sent
  owed         \* <<client, instrument>>: the client is due the last version

clientVars   == <<clients, conn, send, sendClosed, reads, writes, panicked, shown>>
throttleVars == <<version, calls, recent, pending, timerSet, timer>>
vars == <<clientVars, throttleVars, owed>>

TypeOK ==
  /\ clients \subseteq Clients
  /\ conn \in [Clients -> {"none", "open", "broken", "closed"}]
  /\ \A c \in Clients : send[c] \in Seq(Updates \cup {Other}) /\ Len(send[c]) <= SendCap
  /\ sendClosed \subseteq Clients /\ reads \subseteq Clients /\ writes \subseteq Clients
  /\ panicked \in BOOLEAN
  /\ send \in [Clients -> Seq(Updates \cup {Other})]
  /\ version \in [Instruments -> 0 .. MaxUpdates]
  /\ calls \in [Notifiers -> Updates \cup {Nothing}]
  /\ pending \in Updates \cup {Nothing}
  /\ recent \in BOOLEAN /\ timerSet \in BOOLEAN
  /\ timer \in {"none", "armed", "due"}
  /\ shown \in [Clients -> [Instruments -> 0 .. MaxUpdates]]
  /\ owed \subseteq Clients \X Instruments

Init ==
  /\ clients = {} /\ conn = [c \in Clients |-> "none"]
  /\ send = [c \in Clients |-> <<>>] /\ sendClosed = {}
  /\ reads = {} /\ writes = {} /\ panicked = FALSE
  /\ version = [i \in Instruments |-> 0]
  /\ calls = [n \in Notifiers |-> Nothing]
  /\ recent = FALSE /\ pending = Nothing /\ timerSet = FALSE /\ timer = "none"
  /\ shown = [c \in Clients |-> [i \in Instruments |-> 0]]
  /\ owed = {}

-----------------------------------------------------------------------------
(* Broadcasting.  The lock of the hub is held by readers here and by the   *)
(* writers register and unregister, so each of these is one step.          *)

Listeners(stream) == {c \in clients : Stream[c] = stream}

\* Mutant: one message more than the channel holds.
FullOffByOne(c) == Len(send[c]) > SendCap

Full(c) == Len(send[c]) >= SendCap

\* A full channel loses the message.
Broadcast(stream, msg) ==
  /\ send' = [c \in Clients |-> IF c \in Listeners(stream) /\ ~Full(c)
                                THEN Append(send[c], msg) ELSE send[c]]
  /\ panicked' = (panicked \/ Listeners(stream) \cap sendClosed # {})

Losers(stream) == {c \in Listeners(stream) : Full(c)}

NotifyOther(stream) ==
  /\ stream # "positions"
  /\ Broadcast(stream, Other)
  /\ UNCHANGED <<clients, conn, sendClosed, reads, writes, shown, throttleVars, owed>>

-----------------------------------------------------------------------------
(* Position updates.                                                       *)

\* A position is written to the store, and its new version is announced next.
UpdatePosition(n, i) ==
  /\ calls[n] = Nothing
  /\ version[i] < MaxUpdates
  /\ version' = [version EXCEPT ![i] = @ + 1]
  /\ calls' = [calls EXCEPT ![n] = <<i, version[i] + 1>>]
  /\ UNCHANGED <<clientVars, recent, pending, timerSet, timer, owed>>

\* Announcing msg, the clients that listen are due the last version of its
\* position, but for those that lose it, and unless it is not the last one.
Due(msg, losers) ==
  (owed \cup Listeners("positions") \X {msg[1]})
    \ (IF msg[2] < version[msg[1]] THEN Clients ELSE losers) \X {msg[1]}

\* What already waits for the timer is not discarded: of the same instrument, it
\* is older, and will overtake this.
NotifyNow(msg) ==
  /\ ~recent
  /\ Broadcast("positions", msg)
  /\ recent' = TRUE
  /\ owed' = Due(msg, Losers("positions")) \ Clients \X ({pending[1]} \cap {msg[1]})
  /\ UNCHANGED <<pending, timerSet, timer>>

\* Mutant: an update that waits is not replaced.
FirstWaits(msg) == IF pending = Nothing THEN msg ELSE pending

\* One update waits at a time, the last, whatever its instrument.
Waiting(msg) == msg

NotifyLater(msg) ==
  /\ recent
  /\ pending' = Waiting(msg)
  /\ timerSet' = TRUE
  /\ timer' = IF timerSet THEN timer ELSE "armed"
  /\ owed' = Due(msg, {}) \ Clients \X ({pending[1]} \ {msg[1]})
  /\ UNCHANGED <<send, panicked, recent>>

NotifyPositionUpdate(n) ==
  /\ calls[n] # Nothing
  /\ calls' = [calls EXCEPT ![n] = Nothing]
  /\ NotifyNow(calls[n]) \/ NotifyLater(calls[n])
  /\ UNCHANGED <<clients, conn, sendClosed, reads, writes, shown, version>>

TimePasses ==
  /\ recent \/ timer = "armed"
  /\ recent' = FALSE
  /\ timer' = IF timer = "armed" THEN "due" ELSE timer
  /\ UNCHANGED <<clientVars, version, calls, pending, timerSet, owed>>

\* Mutant: posTimer is not reset when the timer fires.
TimerKept == timerSet

TimerReset == FALSE

\* The timer's function, once it has the lock.
TimerFires ==
  /\ timer = "due"
  /\ IF pending = Nothing THEN UNCHANGED <<send, panicked, recent, owed>>
     ELSE /\ Broadcast("positions", pending)
          /\ recent' = TRUE
          /\ owed' = owed \ Losers("positions") \X {pending[1]}
  /\ pending' = Nothing
  /\ timer' = "none" /\ timerSet' = TimerReset
  /\ UNCHANGED <<clients, conn, sendClosed, reads, writes, shown, version, calls>>

-----------------------------------------------------------------------------
(* Clients.                                                                *)

\* serveWS: the client is registered and its pumps are started.
Register(c) ==
  /\ conn[c] = "none"
  /\ conn' = [conn EXCEPT ![c] = "open"]
  /\ clients' = clients \cup {c}
  /\ reads' = reads \cup {c} /\ writes' = writes \cup {c}
  /\ UNCHANGED <<send, sendClosed, panicked, shown, throttleVars, owed>>

\* The peer goes away, or stops answering pings or taking data.
ConnectionBreaks(c) ==
  /\ conn[c] = "open"
  /\ conn' = [conn EXCEPT ![c] = "broken"]
  /\ UNCHANGED <<clients, send, sendClosed, reads, writes, panicked, shown, throttleVars, owed>>

\* Mutant: the client is not taken off the map.
StaysRegistered(c) == clients

Remaining(c) == clients \ {c}

\* The read pump notices and unregisters the client.
ReadPumpEnds(c) ==
  /\ c \in reads /\ conn[c] # "open"
  /\ clients' = Remaining(c)
  /\ sendClosed' = IF c \in clients THEN sendClosed \cup {c} ELSE sendClosed
  /\ conn' = [conn EXCEPT ![c] = "closed"]
  /\ reads' = reads \ {c}
  /\ UNCHANGED <<send, writes, panicked, shown, throttleVars, owed>>

Newest(c, i) ==
  LET at == {k \in DOMAIN send[c] : send[c][k][1] = i} IN
  IF at = {} THEN shown[c][i] ELSE send[c][CHOOSE k \in at : \A l \in at : l <= k][2]

\* The write pump takes what is queued in one batch; the write may fail.
WritePump(c) ==
  /\ c \in writes
  /\ \/ /\ send[c] # <<>> /\ conn[c] = "open"
        /\ shown' = [shown EXCEPT ![c] = [i \in Instruments |-> Newest(c, i)]]
        /\ UNCHANGED <<conn, writes>>
     \/ /\ send[c] # <<>> \/ c \in sendClosed
        /\ conn[c] # "open"
        /\ writes' = writes \ {c} /\ conn' = [conn EXCEPT ![c] = "closed"]
        /\ UNCHANGED shown
  /\ send' = [send EXCEPT ![c] = <<>>]
  /\ UNCHANGED <<clients, sendClosed, reads, panicked, throttleVars, owed>>

Next ==
  \/ \E s \in {Stream[c] : c \in Clients} : NotifyOther(s)
  \/ \E n \in Notifiers : NotifyPositionUpdate(n)
                          \/ \E i \in Instruments : UpdatePosition(n, i)
  \/ TimePasses \/ TimerFires
  \/ \E c \in Clients : Register(c) \/ ConnectionBreaks(c) \/ ReadPumpEnds(c) \/ WritePump(c)

\* Time passes, goroutines that can run do, and a connection that is dead is
\* noticed: the pong or write deadline ends the pumps.
Fairness ==
  /\ WF_vars(TimePasses) /\ WF_vars(TimerFires)
  /\ \A c \in Clients : WF_vars(ReadPumpEnds(c)) /\ WF_vars(WritePump(c))

Spec == Init /\ [][Next]_vars /\ Fairness

-----------------------------------------------------------------------------
(* Properties.                                                             *)

\* A channel is closed under the lock that takes its client off the map, so
\* that no broadcast ever sends on a closed channel.
NoSendOnClosed == ~panicked

\* When nothing is under way, a connected dashboard shows the last version of
\* each position announced since it came, unless the update was lost to a full
\* channel, to another instrument's in the single place that waits, to a timer
\* that sends what it kept after something newer, or to callers that announce
\* their updates in another order than they wrote them (also where the newer
\* one still waits for the timer).
LastUpdateShown ==
  pending = Nothing /\ (\A n \in Notifiers : calls[n] = Nothing) =>
    \A c \in Clients, i \in Instruments :
      <<c, i>> \in owed /\ send[c] = <<>> /\ conn[c] = "open" => shown[c][i] = version[i]

\* An update that waits is sent, or replaced, when the interval has passed.
PendingIsSent == \A u \in Updates : (pending = u) ~> (pending # u)

\* A client whose connection is gone leaves the hub, and both pumps end.
GoneClientsLeave ==
  \A c \in Clients : (conn[c] = "broken") ~> (c \notin clients \cup reads \cup writes)
=============================================================================
