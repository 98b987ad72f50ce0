----------------------------- MODULE HubProofs -----------------------------
(***************************************************************************)
(* Theorems about the WebSocket hub, for any clients, instruments,         *)
(* notifying goroutines, channel capacity and number of updates.           *)
(***************************************************************************)
EXTENDS Hub, TLAPS, WellFoundedInduction

-----------------------------------------------------------------------------
\* Lemmas about the channels

\* A set of naturals has a least element.
LEMMA LeastNatural ==
  ASSUME NEW T \in SUBSET Nat, T # {}
  PROVE  \E x \in T : \A y \in T : x <= y
  <1>1. PICK R : IsWellFoundedOn(R, Nat) /\ \A x, y \in Nat : y < x => <<y, x>> \in R
    <2>1. \A x, y \in Nat : y < x => <<y, x>> \in OpToRel(<, Nat)
      BY DEF OpToRel
    <2> QED BY <2>1, NatLessThanWellFounded
  <1>2. \E x \in T : \A y \in T : ~ (<<y, x>> \in R)
    BY <1>1, WFMin
  <1>3. \A x, y \in T : ~ (<<y, x>> \in R) => x <= y
    BY <1>1
  <1> QED BY <1>2, <1>3

\* A set of indices has a greatest element.
LEMMA GreatestIndex ==
  ASSUME NEW n \in Nat, NEW at \in SUBSET (1 .. n), at # {}
  PROVE  \E k \in at : \A l \in at : l <= k
  <1> DEFINE T == {n - k : k \in at}
  <1>1. T \in SUBSET Nat /\ T # {}
    <2>1. \A k \in at : n - k \in Nat
      OBVIOUS
    <2>2. PICK k \in at : TRUE
      OBVIOUS
    <2>3. n - k \in T
      BY <2>2
    <2> QED BY <2>1, <2>3
  <1>2. PICK x \in T : \A y \in T : x <= y
    BY <1>1, LeastNatural
  <1>3. PICK k \in at : x = n - k
    <2>1. \A y \in T : \E k \in at : y = n - k
      OBVIOUS
    <2> QED BY <1>2, <2>1
  <1>4. \A l \in at : n - l \in T /\ n - k <= n - l
    BY <1>2, <1>3
  <1>5. \A l \in at : l <= k
    BY <1>4
  <1> QED BY <1>5

Message == Updates \cup {Other}

\* The version of instrument i that a client has seen once it has taken in s,
\* when the last one it was sent before is v.
NewestIn(s, i, v) ==
  LET at == {k \in DOMAIN s : s[k][1] = i} IN
  IF at = {} THEN v ELSE s[CHOOSE k \in at : \A l \in at : l <= k][2]

LEMMA NewestUnfold ==
  ASSUME NEW c, NEW i
  PROVE  Newest(c, i) = NewestIn(send[c], i, shown[c][i])
  BY DEF Newest, NewestIn

\* The newest version is one of the messages', or the one that was shown.
LEMMA NewestElement ==
  ASSUME NEW s \in Seq(Message), NEW i \in Instruments, NEW v \in 0 .. MaxUpdates,
         <<"other", 0>> = Other
  PROVE  NewestIn(s, i, v) \in 0 .. MaxUpdates
  <1> DEFINE at == {k \in DOMAIN s : s[k][1] = i}
  <1>1. CASE at = {}
    BY <1>1 DEF NewestIn
  <1>2. CASE at # {}
    <2>1. at \in SUBSET (1 .. Len(s))
      OBVIOUS
    <2>2. Len(s) \in Nat
      OBVIOUS
    <2> DEFINE k == CHOOSE k \in at : \A l \in at : l <= k
    <2>3. k \in at
      BY <1>2, <2>1, <2>2, GreatestIndex
    <2>4. s[k] \in Message
      BY <2>1, <2>3
    <2>5. s[k][2] \in 0 .. MaxUpdates
      BY <2>4, HubAssumption DEF Message, Updates, Other
    <2> QED BY <1>2, <2>5 DEF NewestIn
  <1> QED BY <1>1, <1>2

\* The newest version after one more message.
LEMMA NewestAppend ==
  ASSUME NEW s \in Seq(Message), NEW msg \in Message, NEW i, NEW v
  PROVE  /\ msg[1] = i => NewestIn(Append(s, msg), i, v) = msg[2]
         /\ msg[1] # i => NewestIn(Append(s, msg), i, v) = NewestIn(s, i, v)
  <1> DEFINE t == Append(s, msg)
             n == Len(s)
             at == {k \in DOMAIN s : s[k][1] = i}
             bt == {k \in DOMAIN t : t[k][1] = i}
  <1>1. /\ n \in Nat /\ DOMAIN s = 1 .. n /\ DOMAIN t = 1 .. n + 1
        /\ t[n + 1] = msg
        /\ \A k \in 1 .. n : t[k] = s[k]
    OBVIOUS
  <1> HIDE DEF t, n
  <1>2. CASE msg[1] = i
    <2>1. n + 1 \in bt /\ \A l \in bt : l <= n + 1
      BY <1>1, <1>2
    <2>2. \A k \in bt : (\A l \in bt : l <= k) => k = n + 1
      BY <1>1, <2>1
    <2>3. (CHOOSE k \in bt : \A l \in bt : l <= k) = n + 1
      BY <2>1, <2>2
    <2>4. bt # {}
      BY <2>1
    <2>5. NewestIn(t, i, v) = t[n + 1][2]
      BY <2>3, <2>4 DEF NewestIn
    <2> QED BY <1>1, <1>2, <2>5 DEF t
  <1>3. CASE msg[1] # i
    <2>1. at = bt
      BY <1>1, <1>3
    <2>2. CASE at = {}
      BY <1>3, <2>1, <2>2 DEF NewestIn, t
    <2>3. CASE at # {}
      <3> DEFINE k == CHOOSE k \in at : \A l \in at : l <= k
      <3>1. k \in at
        BY <1>1, <2>3, GreatestIndex
      <3>2. t[k] = s[k]
        BY <1>1, <3>1
      <3>3. NewestIn(s, i, v) = s[k][2]
        BY <2>3 DEF NewestIn
      <3>4. NewestIn(t, i, v) = t[k][2]
        BY <2>1, <2>3 DEF NewestIn
      <3> QED BY <1>3, <3>2, <3>3, <3>4 DEF t
    <2> QED BY <2>2, <2>3
  <1> QED BY <1>2, <1>3

\* Nothing is newer in an empty channel.
LEMMA NewestEmpty ==
  ASSUME NEW i, NEW v
  PROVE  NewestIn(<< >>, i, v) = v
  BY DEF NewestIn

-----------------------------------------------------------------------------
\* The inductive invariant

\* A client is registered before anything else happens to it, a connection the
\* hub takes for open is on the map, and a channel is closed off the map.
ClientsInv ==
  /\ ~panicked
  /\ clients \cap sendClosed = {}
  /\ \A c \in Clients :
       /\ conn[c] = "open" => c \in clients
       /\ conn[c] = "none" => c \notin clients \cup sendClosed \cup reads \cup writes
                              /\ send[c] = << >>

\* What is announced, or waits, is not newer than the position.
Announceable(msg) == msg # Nothing => msg[2] <= version[msg[1]]

VersionsInv ==
  /\ Announceable(pending)
  /\ \A n \in Notifiers : Announceable(calls[n])

\* The last version of i is on its way to a client: about to be announced,
\* waiting for the timer, or the newest the client has, with nothing older of
\* the same instrument left to overtake it.
OnItsWay(c, i) ==
  \/ \E n \in Notifiers : calls[n] = <<i, version[i]>>
  \/ pending = <<i, version[i]>>
  \/ /\ Newest(c, i) = version[i]
     /\ pending = Nothing \/ pending[1] # i

OwedInv ==
  \A c \in Clients, i \in Instruments : <<c, i>> \in owed =>
    /\ Stream[c] = "positions" /\ conn[c] # "none" /\ version[i] > 0
    /\ conn[c] = "open" => OnItsWay(c, i)

HubInv == TypeOK /\ ClientsInv /\ VersionsInv /\ OwedInv

-----------------------------------------------------------------------------
\* What a broadcast does

\* A broadcast appends the message to the channels of the listeners that have
\* room, and closed channels are not among them.
LEMMA BroadcastSends ==
  ASSUME TypeOK, ClientsInv, NEW stream, NEW msg \in Message, Broadcast(stream, msg)
  PROVE  /\ send' \in [Clients -> Seq(Message)]
         /\ \A c \in Clients : Len(send'[c]) <= SendCap
         /\ panicked' = panicked
         /\ \A c \in Clients :
              send'[c] = IF c \in Listeners(stream) /\ ~Full(c)
                         THEN Append(send[c], msg) ELSE send[c]
  <1>1. \A c \in Clients :
          send'[c] = IF c \in Listeners(stream) /\ ~Full(c)
                     THEN Append(send[c], msg) ELSE send[c]
    BY DEF Broadcast
  <1>2. \A c \in Clients : send[c] \in Seq(Message) /\ Len(send[c]) <= SendCap
    BY DEF TypeOK, Message
  <1>3. SendCap \in Nat
    BY HubAssumption
  <1>4. ASSUME NEW c \in Clients
        PROVE  send'[c] \in Seq(Message) /\ Len(send'[c]) <= SendCap
    <2>1. CASE c \in Listeners(stream) /\ ~Full(c)
      <3>1. send'[c] = Append(send[c], msg)
        BY <1>1, <2>1
      <3>2. send[c] \in Seq(Message) /\ Len(send[c]) < SendCap
        BY <1>2, <1>3, <2>1 DEF Full
      <3> QED BY <1>3, <3>1, <3>2
    <2>2. CASE ~ (c \in Listeners(stream) /\ ~Full(c))
      BY <1>1, <1>2, <2>2
    <2> QED BY <2>1, <2>2
  <1>5. send' \in [Clients -> Seq(Message)]
    <2>1. send' = [c \in Clients |-> send'[c]]
      BY DEF Broadcast
    <2> QED BY <1>4, <2>1
  <1>6. Listeners(stream) \cap sendClosed = {}
    BY DEF Listeners, ClientsInv
  <1>7. panicked' = panicked
    <2>1. panicked = FALSE
      BY DEF TypeOK, ClientsInv
    <2>2. panicked' = (panicked \/ Listeners(stream) \cap sendClosed # {})
      BY DEF Broadcast
    <2> QED BY <1>6, <2>1, <2>2
  <1> QED BY <1>1, <1>4, <1>5, <1>7

\* A message is the newest of its instrument at the clients that get it, and
\* changes nothing else.
LEMMA BroadcastNewest ==
  ASSUME TypeOK, ClientsInv, NEW stream, NEW msg \in Message, Broadcast(stream, msg),
         shown' = shown, NEW c \in Clients, NEW i
  PROVE  /\ msg[1] # i => Newest(c, i)' = Newest(c, i)
         /\ c \notin Listeners(stream) => Newest(c, i)' = Newest(c, i)
         /\ msg[1] = i /\ c \in Listeners(stream) /\ ~Full(c) => Newest(c, i)' = msg[2]
  <1>1. /\ Newest(c, i) = NewestIn(send[c], i, shown[c][i])
        /\ Newest(c, i)' = NewestIn(send'[c], i, shown[c][i])
    BY DEF Newest, NewestIn
  <1>2. send'[c] = IF c \in Listeners(stream) /\ ~Full(c)
                   THEN Append(send[c], msg) ELSE send[c]
    BY BroadcastSends
  <1>3. send[c] \in Seq(Message)
    BY DEF TypeOK, Message
  <1>4. /\ msg[1] = i => NewestIn(Append(send[c], msg), i, shown[c][i]) = msg[2]
        /\ msg[1] # i => NewestIn(Append(send[c], msg), i, shown[c][i])
                           = NewestIn(send[c], i, shown[c][i])
    BY <1>3, NewestAppend
  <1> QED BY <1>1, <1>2, <1>4

-----------------------------------------------------------------------------
\* The types

\* An update is of an instrument, and has a version of its own.
LEMMA UpdateFields ==
  ASSUME NEW u \in Updates
  PROVE  u[1] \in Instruments /\ u[2] \in 1 .. MaxUpdates /\ u # Nothing /\ u = <<u[1], u[2]>>
  BY HubAssumption DEF Updates, Nothing

\* Every step keeps the types.
LEMMA TypesPreserved ==
  ASSUME TypeOK, ClientsInv, Next
  PROVE  TypeOK'
  <1> USE HubAssumption
  <1>1. ASSUME NEW s, NotifyOther(s)
        PROVE  TypeOK'
    <2>1. Other \in Message
      BY DEF Message
    <2>2. /\ send' \in [Clients -> Seq(Message)]
          /\ \A c \in Clients : Len(send'[c]) <= SendCap
          /\ panicked' = panicked
      BY <1>1, <2>1, BroadcastSends DEF NotifyOther
    <2> QED BY <1>1, <2>2 DEF NotifyOther, TypeOK, Message, throttleVars
  <1>2. ASSUME NEW n \in Notifiers, NotifyPositionUpdate(n)
        PROVE  TypeOK'
    <2>1. calls[n] \in Updates /\ calls[n] \in Message
      BY <1>2 DEF NotifyPositionUpdate, TypeOK, Message
    <2>2. calls' \in [Notifiers -> Updates \cup {Nothing}]
      BY <1>2 DEF NotifyPositionUpdate, TypeOK
    <2>3. calls[n][1] \in Instruments
      BY <2>1, UpdateFields
    <2>4. Due(calls[n], Losers("positions")) \subseteq Clients \X Instruments
          /\ Due(calls[n], {}) \subseteq Clients \X Instruments
      BY <2>3 DEF Due, Listeners, TypeOK
    <2>5. CASE NotifyNow(calls[n])
      <3>1. /\ send' \in [Clients -> Seq(Message)]
            /\ \A c \in Clients : Len(send'[c]) <= SendCap
            /\ panicked' = panicked
        BY <2>1, <2>5, BroadcastSends DEF NotifyNow
      <3>2. owed' \subseteq Clients \X Instruments
        BY <2>4, <2>5 DEF NotifyNow
      <3> QED BY <1>2, <2>2, <2>5, <3>1, <3>2 DEF NotifyPositionUpdate, NotifyNow, TypeOK, Message
    <2>6. CASE NotifyLater(calls[n])
      <3>1. owed' \subseteq Clients \X Instruments
        BY <2>4, <2>6 DEF NotifyLater
      <3>2. pending' \in Updates
        BY <2>1, <2>6 DEF NotifyLater, Waiting
      <3>3. timer' \in {"none", "armed", "due"} /\ timerSet' \in BOOLEAN
        BY <2>6 DEF NotifyLater, TypeOK
      <3> QED BY <1>2, <2>2, <2>6, <3>1, <3>2, <3>3 DEF NotifyPositionUpdate, NotifyLater, TypeOK
    <2> QED BY <1>2, <2>5, <2>6 DEF NotifyPositionUpdate
  <1>3. ASSUME NEW n \in Notifiers, NEW i \in Instruments, UpdatePosition(n, i)
        PROVE  TypeOK'
    <2>1. version[i] \in 0 .. MaxUpdates /\ version[i] < MaxUpdates
      BY <1>3 DEF UpdatePosition, TypeOK
    <2>2. version[i] + 1 \in 1 .. MaxUpdates
      BY <2>1
    <2>3. version' \in [Instruments -> 0 .. MaxUpdates]
      <3>1. version[i] + 1 \in 0 .. MaxUpdates
        BY <2>1
      <3> QED BY <1>3, <3>1 DEF UpdatePosition, TypeOK
    <2>4. calls' \in [Notifiers -> Updates \cup {Nothing}]
      BY <1>3, <2>2 DEF UpdatePosition, TypeOK, Updates
    <2> QED BY <1>3, <2>3, <2>4 DEF UpdatePosition, TypeOK, clientVars
  <1>4. CASE TimePasses
    BY <1>4 DEF TimePasses, TypeOK, clientVars
  <1>5. CASE TimerFires
    <2>1. CASE pending = Nothing
      BY <1>5, <2>1 DEF TimerFires, TimerReset, TypeOK
    <2>2. CASE pending # Nothing
      <3>1. pending \in Message
        BY <2>2 DEF TypeOK, Message
      <3>2. /\ send' \in [Clients -> Seq(Message)]
            /\ \A c \in Clients : Len(send'[c]) <= SendCap
            /\ panicked' = panicked
        BY <1>5, <2>2, <3>1, BroadcastSends DEF TimerFires
      <3> QED BY <1>5, <2>2, <3>2 DEF TimerFires, TimerReset, TypeOK, Message
    <2> QED BY <2>1, <2>2
  <1>6. ASSUME NEW c \in Clients, Register(c)
        PROVE  TypeOK'
    BY <1>6 DEF Register, TypeOK, throttleVars
  <1>7. ASSUME NEW c \in Clients, ConnectionBreaks(c)
        PROVE  TypeOK'
    BY <1>7 DEF ConnectionBreaks, TypeOK, throttleVars
  <1>8. ASSUME NEW c \in Clients, ReadPumpEnds(c)
        PROVE  TypeOK'
    BY <1>8 DEF ReadPumpEnds, Remaining, TypeOK, throttleVars
  <1>9. ASSUME NEW c \in Clients, WritePump(c)
        PROVE  TypeOK'
    <2>1. \A i \in Instruments : Newest(c, i) \in 0 .. MaxUpdates
      <3> TAKE i \in Instruments
      <3>1. send[c] \in Seq(Message) /\ shown[c][i] \in 0 .. MaxUpdates
        BY DEF TypeOK, Message
      <3> QED BY <3>1, NewestElement, NewestUnfold DEF Other
    <2>2. shown' \in [Clients -> [Instruments -> 0 .. MaxUpdates]]
      <3>1. \/ shown' = shown
            \/ shown' = [shown EXCEPT ![c] = [i \in Instruments |-> Newest(c, i)]]
        BY <1>9 DEF WritePump
      <3> DEFINE seen == [i \in Instruments |-> Newest(c, i)]
      <3>2. seen \in [Instruments -> 0 .. MaxUpdates]
        BY <2>1
      <3>3. shown' = shown \/ shown' = [shown EXCEPT ![c] = seen]
        BY <3>1
      <3> HIDE DEF seen
      <3> QED BY <3>2, <3>3 DEF TypeOK
    <2>3. /\ send' \in [Clients -> Seq(Updates \cup {Other})]
          /\ \A d \in Clients : Len(send'[d]) <= SendCap
      <3>1. << >> \in Seq(Updates \cup {Other}) /\ Len(<< >>) <= SendCap
        OBVIOUS
      <3>2. send' = [send EXCEPT ![c] = << >>]
        BY <1>9 DEF WritePump
      <3> QED BY <3>1, <3>2 DEF TypeOK
    <2>4. conn' \in [Clients -> {"none", "open", "broken", "closed"}] /\ writes' \subseteq Clients
      BY <1>9 DEF WritePump, TypeOK
    <2> QED BY <1>9, <2>2, <2>3, <2>4 DEF WritePump, TypeOK, throttleVars
  <1> QED BY <1>1, <1>2, <1>3, <1>4, <1>5, <1>6, <1>7, <1>8, <1>9 DEF Next

-----------------------------------------------------------------------------
\* Clients and versions

\* Every step keeps the clients' invariant.
LEMMA ClientsPreserved ==
  ASSUME TypeOK, ClientsInv, Next
  PROVE  ClientsInv'
  <1>1. ASSUME NEW s, NEW msg \in Message, Broadcast(s, msg),
               clients' = clients, conn' = conn, sendClosed' = sendClosed,
               reads' = reads, writes' = writes
        PROVE  ClientsInv'
    <2>1. panicked' = panicked
      BY <1>1, BroadcastSends
    <2>2. \A c \in Clients : conn[c] = "none" => send'[c] = send[c]
      BY <1>1, BroadcastSends DEF ClientsInv, Listeners
    <2> QED BY <1>1, <2>1, <2>2 DEF ClientsInv
  <1>2. ASSUME NEW s, NotifyOther(s)
        PROVE  ClientsInv'
    <2>1. Other \in Message
      BY DEF Message
    <2> QED BY <1>1, <1>2, <2>1 DEF NotifyOther
  <1>3. ASSUME NEW n \in Notifiers, NotifyPositionUpdate(n)
        PROVE  ClientsInv'
    <2>1. calls[n] \in Message
      BY <1>3 DEF NotifyPositionUpdate, TypeOK, Message
    <2>2. CASE NotifyNow(calls[n])
      BY <1>1, <1>3, <2>1, <2>2 DEF NotifyPositionUpdate, NotifyNow
    <2>3. CASE NotifyLater(calls[n])
      BY <1>3, <2>3 DEF NotifyPositionUpdate, NotifyLater, ClientsInv
    <2> QED BY <1>3, <2>2, <2>3 DEF NotifyPositionUpdate
  <1>4. ASSUME NEW n \in Notifiers, NEW i \in Instruments, UpdatePosition(n, i)
        PROVE  ClientsInv'
    BY <1>4 DEF UpdatePosition, clientVars, ClientsInv
  <1>5. CASE TimePasses
    BY <1>5 DEF TimePasses, clientVars, ClientsInv
  <1>6. CASE TimerFires
    <2>1. CASE pending = Nothing
      BY <1>6, <2>1 DEF TimerFires, ClientsInv
    <2>2. CASE pending # Nothing
      <3>1. pending \in Message
        BY <2>2 DEF TypeOK, Message
      <3> QED BY <1>1, <1>6, <2>2, <3>1 DEF TimerFires
    <2> QED BY <2>1, <2>2
  <1>7. ASSUME NEW c \in Clients, Register(c)
        PROVE  ClientsInv'
    BY <1>7 DEF Register, ClientsInv, TypeOK
  <1>8. ASSUME NEW c \in Clients, ConnectionBreaks(c)
        PROVE  ClientsInv'
    BY <1>8 DEF ConnectionBreaks, ClientsInv, TypeOK
  <1>9. ASSUME NEW c \in Clients, ReadPumpEnds(c)
        PROVE  ClientsInv'
    <2>1. (clients \ {c}) \cap sendClosed' = {} /\ clients' = clients \ {c}
      BY <1>9 DEF ReadPumpEnds, Remaining, ClientsInv
    <2> QED BY <1>9, <2>1 DEF ReadPumpEnds, ClientsInv, TypeOK
  <1>10. ASSUME NEW c \in Clients, WritePump(c)
         PROVE  ClientsInv'
    <2>1. \A d \in Clients : d # c => conn'[d] = conn[d] /\ send'[d] = send[d]
      BY <1>10 DEF WritePump, TypeOK
    <2>2. conn[c] # "none" /\ conn'[c] \in {conn[c], "closed"}
      BY <1>10 DEF WritePump, ClientsInv, TypeOK
    <2>3. writes' \subseteq writes /\ clients' = clients /\ sendClosed' = sendClosed
          /\ reads' = reads /\ panicked' = panicked
      BY <1>10 DEF WritePump
    <2> QED BY <2>1, <2>2, <2>3 DEF ClientsInv
  <1> QED BY <1>2, <1>3, <1>4, <1>5, <1>6, <1>7, <1>8, <1>9, <1>10 DEF Next

\* Every step keeps what is announced no newer than the positions.
LEMMA VersionsPreserved ==
  ASSUME TypeOK, VersionsInv, Next
  PROVE  VersionsInv'
  <1>1. ASSUME version' = version, pending' \in {pending, Nothing}, calls' = calls
        PROVE  VersionsInv'
    BY <1>1 DEF VersionsInv, Announceable
  <1>2. ASSUME NEW s, NotifyOther(s)
        PROVE  VersionsInv'
    BY <1>1, <1>2 DEF NotifyOther, throttleVars
  <1>3. ASSUME NEW n \in Notifiers, NotifyPositionUpdate(n)
        PROVE  VersionsInv'
    <2>1. version' = version /\ calls' = [calls EXCEPT ![n] = Nothing]
          /\ pending' \in {pending, calls[n]}
      BY <1>3 DEF NotifyPositionUpdate, NotifyNow, NotifyLater, Waiting
    <2>2. \A m \in Notifiers : calls'[m] \in {calls[m], Nothing}
      BY <2>1 DEF TypeOK
    <2> QED BY <2>1, <2>2 DEF VersionsInv, Announceable
  <1>4. ASSUME NEW n \in Notifiers, NEW i \in Instruments, UpdatePosition(n, i)
        PROVE  VersionsInv'
    <2>1. /\ pending' = pending
          /\ version' = [version EXCEPT ![i] = @ + 1]
          /\ calls' = [calls EXCEPT ![n] = <<i, version[i] + 1>>]
      BY <1>4 DEF UpdatePosition
    <2>2. \A j \in Instruments : version[j] \in Nat /\ version'[j] \in Nat
                                 /\ version[j] <= version'[j]
      BY <2>1 DEF TypeOK
    <2>3. ASSUME NEW u \in Updates \cup {Nothing}, Announceable(u)
          PROVE  u # Nothing => u[2] <= version'[u[1]]
      BY <2>2, <2>3, UpdateFields DEF Announceable
    <2>4. \A m \in Notifiers : m # n => calls'[m] = calls[m]
      BY <2>1 DEF TypeOK
    <2>5. calls'[n] = <<i, version[i] + 1>> /\ version'[i] = version[i] + 1
      BY <2>1 DEF TypeOK
    <2>6. calls'[n][2] <= version'[calls'[n][1]]
      <3>1. version[i] + 1 <= version[i] + 1
        BY <2>2
      <3> QED BY <2>5, <3>1
    <2>7. Announceable(pending)'
      BY <2>1, <2>3 DEF VersionsInv, TypeOK, Announceable
    <2>8. \A m \in Notifiers : m # n => Announceable(calls[m])'
      BY <2>3, <2>4 DEF VersionsInv, TypeOK, Announceable
    <2>9. Announceable(calls[n])'
      BY <2>6 DEF Announceable
    <2> QED BY <2>7, <2>8, <2>9 DEF VersionsInv
  <1>5. CASE TimePasses
    BY <1>1, <1>5 DEF TimePasses
  <1>6. CASE TimerFires
    BY <1>1, <1>6 DEF TimerFires
  <1>7. ASSUME NEW c \in Clients, Register(c) \/ ConnectionBreaks(c) \/ ReadPumpEnds(c) \/ WritePump(c)
        PROVE  VersionsInv'
    BY <1>1, <1>7 DEF Register, ConnectionBreaks, ReadPumpEnds, WritePump, throttleVars
  <1> QED BY <1>2, <1>3, <1>4, <1>5, <1>6, <1>7 DEF Next

-----------------------------------------------------------------------------
\* What clients are due

\* What a client is due stays on its way when neither the position, nor what is
\* about to be announced, nor what waits, nor its channel changes.
LEMMA OwedUnchanged ==
  ASSUME OwedInv, version' = version, calls' = calls, pending' = pending, owed' \subseteq owed,
         \A c \in Clients :
           \/ conn'[c] = conn[c] /\ \A i \in Instruments : Newest(c, i)' = Newest(c, i)
           \/ conn'[c] \notin {"none", "open"}
           \/ \A i \in Instruments : <<c, i>> \notin owed
  PROVE  OwedInv'
  BY DEF OwedInv, OnItsWay

\* A position is updated by a notifier that had nothing to announce, and
\* announces the update next.
LEMMA OwedAfterUpdate ==
  ASSUME TypeOK, OwedInv, NEW n \in Notifiers, NEW i \in Instruments, UpdatePosition(n, i)
  PROVE  OwedInv'
  <1>1. /\ pending' = pending /\ owed' = owed /\ conn' = conn
        /\ calls[n] = Nothing
        /\ version' = [version EXCEPT ![i] = @ + 1]
        /\ calls' = [calls EXCEPT ![n] = <<i, version[i] + 1>>]
        /\ send' = send /\ shown' = shown
    BY DEF UpdatePosition, clientVars
  <1>2. \A c \in Clients, j \in Instruments : Newest(c, j)' = Newest(c, j)
    BY <1>1 DEF Newest
  <1>3. version[i] \in Nat /\ version'[i] = version[i] + 1 /\ calls'[n] = <<i, version'[i]>>
    BY <1>1 DEF TypeOK
  <1>4. version'[i] > 0
    BY <1>3
  <1>5. ASSUME NEW c \in Clients, NEW j \in Instruments, j # i, OnItsWay(c, j), version[j] > 0
        PROVE  OnItsWay(c, j)'
    <2>1. version'[j] = version[j]
      BY <1>1, <1>5 DEF TypeOK
    <2>2. \A m \in Notifiers : calls[m] = <<j, version[j]>> => calls'[m] = <<j, version[j]>>
      <3>1. Nothing # <<j, version[j]>>
        BY <1>5 DEF Nothing
      <3> QED BY <1>1, <3>1 DEF TypeOK
    <2> QED BY <1>1, <1>2, <1>5, <2>1, <2>2 DEF OnItsWay
  <1>6. ASSUME NEW c \in Clients
        PROVE  OnItsWay(c, i)'
    BY <1>3 DEF OnItsWay
  <1>7. ASSUME NEW c \in Clients, NEW j \in Instruments, <<c, j>> \in owed
        PROVE  /\ Stream[c] = "positions" /\ conn'[c] # "none" /\ version'[j] > 0
               /\ conn'[c] = "open" => OnItsWay(c, j)'
    <2>1. CASE j = i
      BY <1>1, <1>4, <1>6, <1>7, <2>1 DEF OwedInv
    <2>2. CASE j # i
      <3>1. version'[j] = version[j]
        BY <1>1, <2>2 DEF TypeOK
      <3> QED BY <1>1, <1>5, <1>7, <2>2, <3>1 DEF OwedInv
    <2> QED BY <2>1, <2>2
  <1> QED BY <1>1, <1>7 DEF OwedInv

\* Announcing an update, the clients that get it or have it waiting are due its
\* version, unless something older of its position waits as well; an update of
\* another instrument that waited is given up when this one takes its place.
LEMMA OwedAfterNotify ==
  ASSUME TypeOK, ClientsInv, VersionsInv, OwedInv,
         NEW n \in Notifiers, NotifyPositionUpdate(n)
  PROVE  OwedInv'
  <1> DEFINE msg == calls[n]
  <1>1. /\ msg \in Updates /\ msg[1] \in Instruments /\ msg[2] \in 1 .. MaxUpdates
        /\ msg \in Message /\ msg = <<msg[1], msg[2]>>
    BY UpdateFields DEF NotifyPositionUpdate, TypeOK, Message
  <1>2. msg[2] <= version[msg[1]] /\ version[msg[1]] \in 0 .. MaxUpdates
    BY <1>1 DEF VersionsInv, Announceable, NotifyPositionUpdate, TypeOK
  <1>3. /\ clients' = clients /\ conn' = conn /\ shown' = shown /\ version' = version
        /\ \A m \in Notifiers : m # n => calls'[m] = calls[m]
    BY DEF NotifyPositionUpdate, TypeOK
  \* Whoever is due the update's position is due this version, from now or before.
  <1>4. ASSUME NEW losers \in SUBSET Clients, NEW c \in Clients,
               <<c, msg[1]>> \in Due(msg, losers)
        PROVE  /\ msg[2] = version[msg[1]] /\ version[msg[1]] > 0 /\ c \notin losers
               /\ Stream[c] = "positions" /\ conn[c] # "none"
               /\ conn[c] = "open" => c \in Listeners("positions")
    <2>1. ~ (msg[2] < version[msg[1]]) /\ c \notin losers
          /\ (<<c, msg[1]>> \in owed \/ c \in Listeners("positions"))
      BY <1>4 DEF Due
    <2>2. msg[2] = version[msg[1]] /\ version[msg[1]] > 0
      BY <1>1, <1>2, <2>1
    <2>3. c \in Listeners("positions") => Stream[c] = "positions" /\ conn[c] # "none"
      BY DEF Listeners, ClientsInv
    <2>4. <<c, msg[1]>> \in owed => Stream[c] = "positions" /\ conn[c] # "none"
      BY <1>1 DEF OwedInv
    <2>5. conn[c] = "open" => c \in clients
      BY DEF ClientsInv
    <2> QED BY <2>1, <2>2, <2>3, <2>4, <2>5 DEF Listeners
  <1>5. \A losers \in SUBSET Clients, c \in Clients, i \in Instruments :
          i # msg[1] /\ <<c, i>> \in Due(msg, losers) => <<c, i>> \in owed
    BY DEF Due
  \* A client that is due another position has it, or a notifier announces it.
  <1>6. ASSUME NEW c \in Clients, NEW i \in Instruments, i # msg[1], i # pending[1],
               OnItsWay(c, i)
        PROVE  \/ \E m \in Notifiers : calls'[m] = <<i, version'[i]>>
               \/ Newest(c, i) = version'[i]
    <2>1. pending # <<i, version[i]>>
      BY <1>6
    <2>2. \A m \in Notifiers : calls[m] = <<i, version[i]>> => m # n
      BY <1>6
    <2> QED BY <1>3, <1>6, <2>1, <2>2 DEF OnItsWay
  <1>7. CASE NotifyNow(msg)
    <2> DEFINE losers == Losers("positions")
    <2>1. /\ owed' = Due(msg, losers) \ Clients \X ({pending[1]} \cap {msg[1]})
          /\ pending' = pending /\ Broadcast("positions", msg)
      BY <1>7 DEF NotifyNow
    <2>2. losers \in SUBSET Clients
      BY DEF Losers, Listeners, TypeOK
    <2>3. ASSUME NEW c \in Clients, NEW i \in Instruments, <<c, i>> \in owed'
          PROVE  /\ Stream[c] = "positions" /\ conn'[c] # "none" /\ version'[i] > 0
                 /\ conn'[c] = "open" => OnItsWay(c, i)'
      <3>1. <<c, i>> \in Due(msg, losers) /\ (i # pending[1] \/ i # msg[1])
        BY <2>1, <2>3
      <3>2. CASE i = msg[1]
        <4>1. /\ msg[2] = version[i] /\ version[i] > 0 /\ c \notin losers
              /\ Stream[c] = "positions" /\ conn[c] # "none"
              /\ conn[c] = "open" => c \in Listeners("positions")
          BY <1>4, <2>2, <3>1, <3>2
        <4>2. ASSUME conn[c] = "open" PROVE Newest(c, i)' = version[i]
          <5>1. c \in Listeners("positions") /\ ~Full(c)
            BY <4>1, <4>2 DEF Losers
          <5> QED BY <1>1, <1>3, <2>1, <3>2, <4>1, <5>1, BroadcastNewest
        <4>3. pending'[1] # i
          BY <2>1, <3>1, <3>2
        <4> QED BY <1>3, <4>1, <4>2, <4>3 DEF OnItsWay
      <3>3. CASE i # msg[1]
        <4>1. <<c, i>> \in owed
          BY <1>5, <2>2, <3>1, <3>3
        <4>2. /\ Stream[c] = "positions" /\ conn[c] # "none" /\ version[i] > 0
              /\ conn[c] = "open" => OnItsWay(c, i)
          BY <4>1 DEF OwedInv
        <4>3. Newest(c, i)' = Newest(c, i)
          BY <1>1, <1>3, <2>1, <3>3, BroadcastNewest
        <4>4. ASSUME conn[c] = "open" PROVE OnItsWay(c, i)'
          <5>1. CASE i # pending[1]
            BY <1>6, <2>1, <3>3, <4>2, <4>3, <4>4, <5>1 DEF OnItsWay
          <5>2. CASE pending = <<i, version[i]>>
            BY <1>3, <2>1, <5>2 DEF OnItsWay
          <5>3. ASSUME NEW m \in Notifiers, calls[m] = <<i, version[i]>>
                PROVE  OnItsWay(c, i)'
            <6>1. m # n
              BY <3>3, <5>3
            <6>2. calls'[m] = <<i, version'[i]>>
              BY <1>3, <5>3, <6>1
            <6> QED BY <6>2 DEF OnItsWay
          <5>4. CASE i = pending[1] /\ pending = Nothing
            BY <2>1, <4>2, <4>3, <4>4, <5>2, <5>3, <5>4, <1>3 DEF OnItsWay
          <5> QED BY <4>2, <4>4, <5>1, <5>2, <5>3, <5>4 DEF OnItsWay
        <4> QED BY <1>3, <4>2, <4>4
      <3> QED BY <3>2, <3>3
    <2> QED BY <2>3 DEF OwedInv
  <1>8. CASE NotifyLater(msg)
    <2>1. /\ owed' = Due(msg, {}) \ Clients \X ({pending[1]} \ {msg[1]})
          /\ pending' = msg /\ send' = send
      BY <1>8 DEF NotifyLater, Waiting
    <2>2. \A c \in Clients, i \in Instruments : Newest(c, i)' = Newest(c, i)
      BY <1>3, <2>1 DEF Newest
    <2>3. ASSUME NEW c \in Clients, NEW i \in Instruments, <<c, i>> \in owed'
          PROVE  /\ Stream[c] = "positions" /\ conn'[c] # "none" /\ version'[i] > 0
                 /\ conn'[c] = "open" => OnItsWay(c, i)'
      <3>1. <<c, i>> \in Due(msg, {}) /\ (i = msg[1] \/ i # pending[1])
        BY <2>1, <2>3
      <3>2. CASE i = msg[1]
        <4>1. /\ msg[2] = version[i] /\ version[i] > 0
              /\ Stream[c] = "positions" /\ conn[c] # "none"
          BY <1>4, <3>1, <3>2
        <4>2. pending' = <<i, version'[i]>>
          BY <1>1, <1>3, <2>1, <3>2, <4>1
        <4> QED BY <1>3, <4>1, <4>2 DEF OnItsWay
      <3>3. CASE i # msg[1]
        <4>1. <<c, i>> \in owed
          BY <1>5, <3>1, <3>3
        <4>2. /\ Stream[c] = "positions" /\ conn[c] # "none" /\ version[i] > 0
              /\ conn[c] = "open" => OnItsWay(c, i)
          BY <4>1 DEF OwedInv
        <4>3. pending'[1] # i
          BY <2>1, <3>3
        <4>4. ASSUME conn[c] = "open" PROVE OnItsWay(c, i)'
          BY <1>6, <2>2, <3>1, <3>3, <4>2, <4>3, <4>4 DEF OnItsWay
        <4> QED BY <1>3, <4>2, <4>4
      <3> QED BY <3>2, <3>3
    <2> QED BY <2>3 DEF OwedInv
  <1> QED BY <1>7, <1>8 DEF NotifyPositionUpdate

\* What waited is sent when the timer fires, or lost to a full channel.
LEMMA OwedAfterTimer ==
  ASSUME TypeOK, ClientsInv, OwedInv, TimerFires
  PROVE  OwedInv'
  <1>1. /\ clients' = clients /\ conn' = conn /\ shown' = shown /\ version' = version
        /\ calls' = calls /\ pending' = Nothing
    BY DEF TimerFires
  <1>2. CASE pending = Nothing
    <2>1. send' = send /\ owed' = owed
      BY <1>2 DEF TimerFires
    <2>2. \A c \in Clients, i \in Instruments : Newest(c, i)' = Newest(c, i)
      BY <1>1, <2>1 DEF Newest
    <2> QED BY <1>1, <1>2, <2>1, <2>2, OwedUnchanged
  <1>3. CASE pending # Nothing
    <2>1. /\ pending \in Message
          /\ Broadcast("positions", pending)
          /\ owed' = owed \ Losers("positions") \X {pending[1]}
      BY <1>3 DEF TimerFires, TypeOK, Message
    <2>2. ASSUME NEW c \in Clients, NEW i \in Instruments, <<c, i>> \in owed'
          PROVE  /\ Stream[c] = "positions" /\ conn'[c] # "none" /\ version'[i] > 0
                 /\ conn'[c] = "open" => OnItsWay(c, i)'
      <3>1. /\ <<c, i>> \in owed
            /\ Stream[c] = "positions" /\ conn[c] # "none" /\ version[i] > 0
            /\ conn[c] = "open" => OnItsWay(c, i)
        BY <2>1, <2>2 DEF OwedInv
      <3>2. ASSUME conn[c] = "open", pending = <<i, version[i]>>
            PROVE  Newest(c, i)' = version[i]
        <4>1. pending[1] = i /\ pending[2] = version[i]
          BY <3>2
        <4>2. c \in Listeners("positions")
          BY <3>1, <3>2 DEF Listeners, ClientsInv
        <4>3. ~Full(c)
          BY <2>1, <2>2, <4>1, <4>2 DEF Losers
        <4> QED BY <1>1, <2>1, <4>1, <4>2, <4>3, BroadcastNewest
      <3>3. pending[1] # i => Newest(c, i)' = Newest(c, i)
        BY <1>1, <2>1, BroadcastNewest
      <3>4. ASSUME conn[c] = "open" PROVE OnItsWay(c, i)'
        BY <1>1, <1>3, <3>1, <3>2, <3>3, <3>4 DEF OnItsWay
      <3> QED BY <1>1, <3>1, <3>4
    <2> QED BY <2>2 DEF OwedInv
  <1> QED BY <1>2, <1>3

\* Every step keeps what clients are due on its way.
LEMMA OwedPreserved ==
  ASSUME HubInv, Next
  PROVE  OwedInv'
  <1> USE DEF HubInv
  <1>1. ASSUME NEW s, NotifyOther(s)
        PROVE  OwedInv'
    <2>1. Other \in Message /\ Broadcast(s, Other) /\ s # "positions"
      BY <1>1 DEF NotifyOther, Message
    <2>2. shown' = shown /\ conn' = conn /\ owed' = owed
          /\ version' = version /\ calls' = calls /\ pending' = pending
      BY <1>1 DEF NotifyOther, throttleVars
    <2>3. ASSUME NEW c \in Clients, Stream[c] = "positions", NEW i \in Instruments
          PROVE  Newest(c, i)' = Newest(c, i)
      <3>1. c \notin Listeners(s)
        BY <2>1, <2>3 DEF Listeners
      <3> QED BY <2>1, <2>2, <3>1, BroadcastNewest
    <2>4. ASSUME NEW c \in Clients, Stream[c] # "positions", NEW i \in Instruments
          PROVE  <<c, i>> \notin owed
      BY <2>4 DEF OwedInv
    <2> QED BY <2>2, <2>3, <2>4, OwedUnchanged
  <1>2. ASSUME NEW n \in Notifiers, NotifyPositionUpdate(n)
        PROVE  OwedInv'
    BY <1>2, OwedAfterNotify
  <1>3. ASSUME NEW n \in Notifiers, NEW i \in Instruments, UpdatePosition(n, i)
        PROVE  OwedInv'
    BY <1>3, OwedAfterUpdate
  <1>4. CASE TimePasses
    <2>1. /\ conn' = conn /\ send' = send /\ shown' = shown /\ owed' = owed
          /\ version' = version /\ calls' = calls /\ pending' = pending
      BY <1>4 DEF TimePasses, clientVars
    <2>2. \A c \in Clients, i \in Instruments : Newest(c, i)' = Newest(c, i)
      BY <2>1 DEF Newest
    <2> QED BY <2>1, <2>2, OwedUnchanged
  <1>5. CASE TimerFires
    BY <1>5, OwedAfterTimer
  <1>6. ASSUME NEW c \in Clients, Register(c) \/ ConnectionBreaks(c) \/ ReadPumpEnds(c)
        PROVE  OwedInv'
    <2>1. /\ send' = send /\ shown' = shown /\ owed' = owed
          /\ version' = version /\ calls' = calls /\ pending' = pending
          /\ \A d \in Clients : d # c => conn'[d] = conn[d]
          /\ conn[c] = "none" \/ conn'[c] \in {"broken", "closed"}
      BY <1>6 DEF Register, ConnectionBreaks, ReadPumpEnds, throttleVars, TypeOK
    <2>2. \A d \in Clients, i \in Instruments : Newest(d, i)' = Newest(d, i)
      BY <2>1 DEF Newest
    <2>3. conn[c] = "none" => \A i \in Instruments : <<c, i>> \notin owed
      BY DEF OwedInv
    <2>4. owed' \subseteq owed
      BY <2>1
    <2>5. conn[c] = "none" \/ conn'[c] \notin {"none", "open"}
      BY <2>1
    <2>6. ASSUME NEW d \in Clients
          PROVE  \/ conn'[d] = conn[d] /\ \A i \in Instruments : Newest(d, i)' = Newest(d, i)
                 \/ conn'[d] \notin {"none", "open"}
                 \/ \A i \in Instruments : <<d, i>> \notin owed
      BY <2>1, <2>2, <2>3, <2>5
    <2> QED BY <2>1, <2>4, <2>6, OwedUnchanged
  <1>7. ASSUME NEW c \in Clients, WritePump(c)
        PROVE  OwedInv'
    <2>1. /\ owed' = owed /\ version' = version /\ calls' = calls /\ pending' = pending
          /\ send' = [send EXCEPT ![c] = << >>]
      BY <1>7 DEF WritePump, throttleVars
    <2>2. ASSUME NEW d \in Clients, d # c, NEW i \in Instruments
          PROVE  conn'[d] = conn[d] /\ Newest(d, i)' = Newest(d, i)
      <3>1. conn'[d] = conn[d] /\ send'[d] = send[d] /\ shown'[d] = shown[d]
        BY <1>7, <2>2 DEF WritePump, TypeOK
      <3> QED BY <3>1 DEF Newest
    <2>3. \/ conn'[c] = conn[c] /\ \A i \in Instruments : Newest(c, i)' = Newest(c, i)
          \/ conn'[c] = "closed"
      <3>1. CASE conn' = [conn EXCEPT ![c] = "closed"]
        BY <3>1 DEF TypeOK
      <3>2. CASE /\ conn' = conn
                 /\ shown' = [shown EXCEPT ![c] = [i \in Instruments |-> Newest(c, i)]]
        <4> DEFINE seen == [i \in Instruments |-> Newest(c, i)]
        <4>1. \A i \in Instruments : seen[i] = Newest(c, i)
          OBVIOUS
        <4>2. shown' = [shown EXCEPT ![c] = seen]
          BY <3>2
        <4> HIDE DEF seen
        <4>3. shown'[c] = seen
          BY <4>2 DEF TypeOK
        <4>4. send'[c] = << >>
          BY <2>1 DEF TypeOK
        <4>5. \A i \in Instruments : Newest(c, i)' = Newest(c, i)
          <5> TAKE i \in Instruments
          <5>1. Newest(c, i)' = NewestIn(send'[c], i, shown'[c][i])
            BY DEF Newest, NewestIn
          <5> QED BY <4>1, <4>3, <4>4, <5>1, NewestEmpty
        <4> QED BY <3>2, <4>5
      <3> QED BY <1>7, <3>1, <3>2 DEF WritePump
    <2>4. owed' \subseteq owed
      BY <2>1
    <2>5. ASSUME NEW d \in Clients
          PROVE  \/ conn'[d] = conn[d] /\ \A i \in Instruments : Newest(d, i)' = Newest(d, i)
                 \/ conn'[d] \notin {"none", "open"}
                 \/ \A i \in Instruments : <<d, i>> \notin owed
      BY <2>2, <2>3
    <2> QED BY <2>1, <2>4, <2>5, OwedUnchanged
  <1> QED BY <1>1, <1>2, <1>3, <1>4, <1>5, <1>6, <1>7 DEF Next

-----------------------------------------------------------------------------
\* The theorems

\* The hub starts with no client, no update and nothing waiting.
LEMMA HubStarts ==
  ASSUME Init
  PROVE  HubInv
  <1> USE HubAssumption
  <1>1. << >> \in Seq(Updates \cup {Other}) /\ Len(<< >>) <= SendCap
    OBVIOUS
  <1>2. TypeOK
    <2>1. /\ send \in [Clients -> Seq(Updates \cup {Other})]
          /\ \A c \in Clients : send[c] \in Seq(Updates \cup {Other}) /\ Len(send[c]) <= SendCap
      BY <1>1 DEF Init
    <2>2. /\ version \in [Instruments -> 0 .. MaxUpdates]
          /\ calls \in [Notifiers -> Updates \cup {Nothing}]
          /\ shown \in [Clients -> [Instruments -> 0 .. MaxUpdates]]
      BY DEF Init
    <2>3. /\ clients \subseteq Clients /\ sendClosed \subseteq Clients
          /\ reads \subseteq Clients /\ writes \subseteq Clients
          /\ conn \in [Clients -> {"none", "open", "broken", "closed"}]
          /\ panicked \in BOOLEAN /\ recent \in BOOLEAN /\ timerSet \in BOOLEAN
          /\ pending \in Updates \cup {Nothing} /\ timer \in {"none", "armed", "due"}
          /\ owed \subseteq Clients \X Instruments
      BY DEF Init
    <2> QED BY <2>1, <2>2, <2>3 DEF TypeOK
  <1>3. ClientsInv
    BY DEF Init, ClientsInv
  <1>4. VersionsInv
    BY DEF Init, VersionsInv, Announceable
  <1>5. OwedInv
    BY DEF Init, OwedInv
  <1> QED BY <1>2, <1>3, <1>4, <1>5 DEF HubInv

\* A step that changes nothing keeps the invariant.
LEMMA HubStutters ==
  ASSUME HubInv, UNCHANGED vars
  PROVE  HubInv'
  <1> USE DEF vars, clientVars, throttleVars
  <1>1. TypeOK'
    BY DEF HubInv, TypeOK
  <1>2. ClientsInv' /\ VersionsInv'
    BY DEF HubInv, ClientsInv, VersionsInv, Announceable
  <1>3. OwedInv'
    <2>1. \A c \in Clients, i \in Instruments : Newest(c, i)' = Newest(c, i)
      BY DEF Newest
    <2> QED BY <2>1, OwedUnchanged DEF HubInv
  <1> QED BY <1>1, <1>2, <1>3 DEF HubInv

\* The hub keeps its invariant.
THEOREM HubInvariance == Spec => []HubInv
  <1>1. HubInv /\ [Next]_vars => HubInv'
    <2> SUFFICES ASSUME HubInv, [Next]_vars PROVE HubInv'
      OBVIOUS
    <2>1. CASE Next
      BY <2>1, TypesPreserved, ClientsPreserved, VersionsPreserved, OwedPreserved DEF HubInv
    <2> QED BY <2>1, HubStutters
  <1> QED BY <1>1, HubStarts, PTL DEF Spec

\* The channels never hold more than their capacity, and every variable of the
\* hub stays in its type.
THEOREM HubTypes == Spec => []TypeOK
  BY HubInvariance, PTL DEF HubInv

\* No broadcast sends on a closed channel: a channel is closed in the step that
\* takes its client off the map.
THEOREM ClosedChannelsStaySilent == Spec => []NoSendOnClosed
  <1>1. HubInv => NoSendOnClosed
    BY DEF HubInv, ClientsInv, NoSendOnClosed
  <1> QED BY <1>1, HubInvariance, PTL

\* When nothing is announced or waits and its channel is empty, a connected
\* dashboard shows the last version of every position it is due.
THEOREM DashboardsCatchUp == Spec => []LastUpdateShown
  <1>1. ASSUME HubInv, pending = Nothing, \A n \in Notifiers : calls[n] = Nothing,
               NEW c \in Clients, NEW i \in Instruments,
               <<c, i>> \in owed, send[c] = << >>, conn[c] = "open"
        PROVE  shown[c][i] = version[i]
    <2>1. version[i] > 0 /\ OnItsWay(c, i)
      BY <1>1 DEF HubInv, OwedInv
    <2>2. Nothing # <<i, version[i]>>
      BY <2>1 DEF Nothing
    <2>3. Newest(c, i) = version[i]
      BY <1>1, <2>1, <2>2 DEF OnItsWay
    <2>4. Newest(c, i) = shown[c][i]
      BY <1>1, NewestUnfold, NewestEmpty
    <2> QED BY <2>3, <2>4
  <1>2. HubInv => LastUpdateShown
    BY <1>1 DEF LastUpdateShown
  <1> QED BY <1>2, HubInvariance, PTL
=============================================================================
