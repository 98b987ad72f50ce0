---------------------------- MODULE BinanceProofs ----------------------------
(***************************************************************************)
(* Theorems about the Binance adapter, for any requests, orders and trades. *)
(***************************************************************************)
EXTENDS BinanceAdapter, VenueRequestsProofs, SequenceTheorems

-----------------------------------------------------------------------------
\* The inductive invariant

\* A report is in an inbox once, and is about a trade that was made; so is a
\* fill.
MessagesInv ==
  /\ \A f \in Connects : IsInjective(inbox[f])
  /\ \A e \in Execs : Holders(inbox, e) # {} \/ copies[e] > 0 => e[2] <= venue[e[1]].trades

\* An order has no fate at the venue before it was sent.
CallsInv == \A o \in Orders : call[o] \in {"none", "sending"} => venue[o].state = "unknown"

\* The feeds and the loop of a request do not exist before the request makes
\* them: NewFeed is new.
FreshInv ==
  \A r \in Connects :
    /\ pc[r] \in {"idle", "connect"} =>
         r # userFeed /\ r \notin stopped["user"] /\ r \notin socket["user"]
    /\ pc[r] # "done" => r # marketFeed /\ r \notin stopped["market"]

\* Nobody subscribes when there is no aggregator.
AggregatingInv ==
  ~Aggregating => /\ marketFeed = NoRequest
                  /\ \A r \in Connects : pc[r] \notin {"register", "subscribe"}

Quiet == (\A k \in Kinds : socket[k] = {}) /\ loops = {}

\* What a request of orderly clients may rely on between two of its steps.
InOrder(r) ==
  /\ r \in Connects /\ pc[r] = "connect" => status = "Disconnected"
  /\ r \in Connects /\ pc[r] \in {"register", "subscribe"} =>
       status = "Connected" /\ LivePumps = {} /\ socket["market"] = {}
  /\ r \in Connects /\ pc[r] = "subscribe" => mdCancel = r
  /\ r \in Disconnects /\ pc[r] \in {"forget", "disconnect"} =>
       status = "Connected" /\ LivePumps = {}

Subscribing == \E r \in Connects : pc[r] \in {"register", "subscribe"}

\* For orderly clients whatever lives is what the adapter remembers, which it
\* has not stopped while it is connected.
RememberedInv ==
  /\ socket["user"] \subseteq {userFeed}
  /\ socket["market"] \subseteq {marketFeed}
  /\ loops \subseteq {cancelLoop}
  /\ LivePumps \subseteq {mdCancel}
  /\ status = "Disconnected" => Quiet /\ LivePumps = {}
  /\ status = "Connected" => userFeed \notin stopped["user"]
  /\ status = "Connected" /\ ~Subscribing => marketFeed \notin stopped["market"]

\* A trade is reported on one stream and becomes one fill.
SingleInv ==
  \A e \in Execs : \/ copies[e] = 0 /\ \E f \in Connects : Holders(inbox, e) \subseteq {f}
                   \/ copies[e] <= 1 /\ Holders(inbox, e) = {}

OrderlyInv ==
  orderly => ~panicked /\ RememberedInv /\ SingleInv /\ \A r \in Requests : InOrder(r)

BinanceInv ==
  /\ TypeOK /\ MessagesInv /\ CallsInv
  /\ FreshInv /\ AggregatingInv /\ OneAtATime /\ OrderlyInv

-----------------------------------------------------------------------------
\* Lemmas about trades and inboxes

\* An execution is one of the trades an order may get.
LEMMA ExecFields ==
  /\ \A e \in Execs : e[1] \in Orders /\ e[2] \in 1 .. Lots[e[1]] /\ e = <<e[1], e[2]>>
  /\ \A o \in Orders : \A n \in 1 .. Lots[o] : <<o, n>> \in Execs
  BY DEF Execs

VenueStates == {"unknown", "open", "filled", "canceled"}
VenueTypes  == [state : VenueStates, trades : Nat]

\* What a read loop that takes a report does.
LEMMA ReadEffects ==
  ASSUME TypeOK, MessagesInv, NEW f \in Connects, ReadLoop(f)
  PROVE  /\ Head(inbox[f]) \in Execs /\ f \in Holders(inbox, Head(inbox[f]))
         /\ Holders(inbox', Head(inbox[f])) = Holders(inbox, Head(inbox[f])) \ {f}
         /\ \A e : e # Head(inbox[f]) => Holders(inbox', e) = Holders(inbox, e)
         /\ inbox' \in [Connects -> Seq(Execs)]
         /\ \A g \in Connects : IsInjective(inbox'[g])
         /\ copies' \in [Execs -> Nat] /\ queued' \in 0 .. FillCap
         /\ \/ copies' = copies
            \/ copies' = [copies EXCEPT ![Head(inbox[f])] = @ + 1]
  <1>1. inbox[f] # << >> /\ inbox' = [inbox EXCEPT ![f] = Tail(inbox[f])]
    BY DEF ReadLoop, AfterRead
  <1>2. inbox \in [Connects -> Seq(Execs)] /\ \A g \in Connects : IsInjective(inbox[g])
    BY DEF TypeOK, MessagesInv
  <1>3. /\ Head(inbox[f]) \in Execs /\ f \in Holders(inbox, Head(inbox[f]))
        /\ Holders(inbox', Head(inbox[f])) = Holders(inbox, Head(inbox[f])) \ {f}
        /\ \A e : e # Head(inbox[f]) => Holders(inbox', e) = Holders(inbox, e)
        /\ inbox' \in [Connects -> Seq(Execs)]
        /\ IsInjective(inbox'[f])
    <2> DEFINE box2 == [inbox EXCEPT ![f] = Tail(inbox[f])]
    <2>1. inbox \in [Connects -> Seq(Execs)] /\ inbox[f] # << >> /\ IsInjective(inbox[f]) =>
          /\ Head(inbox[f]) \in Execs /\ f \in Holders(inbox, Head(inbox[f]))
          /\ Holders(box2, Head(inbox[f])) = Holders(inbox, Head(inbox[f])) \ {f}
          /\ \A e : e # Head(inbox[f]) => Holders(box2, e) = Holders(inbox, e)
          /\ box2 \in [Connects -> Seq(Execs)]
          /\ IsInjective(box2[f])
      BY HoldersRead
    <2>2. inbox' = box2
      BY <1>1
    <2>3. inbox[f] # << >> /\ IsInjective(inbox[f])
      BY <1>1, <1>2
    <2> HIDE DEF box2
    <2> QED BY <1>2, <2>1, <2>2, <2>3
  <1>4. \A g \in Connects : IsInjective(inbox'[g])
    <2> TAKE g \in Connects
    <2>1. g # f => inbox'[g] = inbox[g]
      BY <1>1, <1>2
    <2> QED BY <1>2, <1>3, <2>1
  <1>5. /\ copies' \in [Execs -> Nat] /\ queued' \in 0 .. FillCap
        /\ \/ copies' = copies
           \/ copies' = [copies EXCEPT ![Head(inbox[f])] = @ + 1]
    <2>1. copies \in [Execs -> Nat] /\ queued \in 0 .. FillCap /\ FillCap \in Nat
      BY BinanceAssumption DEF TypeOK
    <2>2. CASE HasRoom
      <3>1. /\ queued < FillCap /\ queued' = queued + 1
            /\ copies' = [copies EXCEPT ![Head(inbox[f])] = @ + 1]
        BY <2>2 DEF ReadLoop, HasRoom
      <3>2. queued' \in 0 .. FillCap
        BY <2>1, <3>1
      <3> QED BY <1>3, <2>1, <3>1, <3>2
    <2>3. CASE ~HasRoom
      BY <2>1, <2>3 DEF ReadLoop
    <2> QED BY <2>2, <2>3
  <1> QED BY <1>3, <1>4, <1>5

\* What a trade at the venue does.
LEMMA TradeEffects ==
  ASSUME TypeOK, MessagesInv, NEW o \in Orders, VenueTrades(o)
  PROVE  LET e == <<o, venue[o].trades + 1>> IN
         /\ e \in Execs /\ Holders(inbox, e) = {} /\ copies[e] = 0
         /\ Holders(inbox', e) = socket["user"]
         /\ \A d : d # e => Holders(inbox', d) = Holders(inbox, d)
         /\ inbox' \in [Connects -> Seq(Execs)]
         /\ \A f \in Connects : IsInjective(inbox'[f])
         /\ venue' \in [Orders -> VenueTypes]
         /\ venue[o].state = "open"
         /\ \A p \in Orders : p # o => venue'[p] = venue[p]
         /\ venue'[o].trades = venue[o].trades + 1
  <1> DEFINE n == venue[o].trades + 1
             e == <<o, n>>
  <1>1. /\ n <= Lots[o] /\ venue[o].state = "open"
        /\ venue' = [venue EXCEPT ![o] = [state |-> IF n = Lots[o] THEN "filled" ELSE "open",
                                          trades |-> n]]
        /\ inbox' = [f \in Connects |-> IF f \in socket["user"]
                                        THEN Append(inbox[f], e) ELSE inbox[f]]
    BY DEF VenueTrades
  <1>2. venue[o].trades \in Nat /\ Lots[o] \in Nat
    BY BinanceAssumption DEF TypeOK
  <1>3. n \in Nat /\ n \in 1 .. Lots[o] /\ ~ (n <= venue[o].trades)
    BY <1>1, <1>2
  <1>4. e \in Execs
    BY <1>3, ExecFields
  <1>5. Holders(inbox, e) = {} /\ copies[e] = 0
    <2>1. ~ (copies[e] > 0) /\ Holders(inbox, e) = {}
      BY <1>3, <1>4 DEF MessagesInv
    <2>2. copies[e] \in Nat
      BY <1>4 DEF TypeOK
    <2> QED BY <2>1, <2>2
  <1>6. /\ venue' \in [Orders -> VenueTypes]
        /\ \A p \in Orders : p # o => venue'[p] = venue[p]
        /\ venue'[o].trades = n
    <2>1. (IF n = Lots[o] THEN "filled" ELSE "open") \in VenueStates
      BY DEF VenueStates
    <2>2. venue \in [Orders -> VenueTypes]
      BY DEF TypeOK, VenueTypes, VenueStates
    <2> HIDE DEF n
    <2> QED BY <1>1, <1>3, <2>1, <2>2 DEF VenueTypes
  <1> DEFINE L == socket["user"]
  <1>7. L \in SUBSET Connects
    BY DEF TypeOK, Kinds
  <1> HIDE DEF e
  <1>8. /\ Holders(inbox', e) = socket["user"]
        /\ \A d : d # e => Holders(inbox', d) = Holders(inbox, d)
        /\ inbox' \in [Connects -> Seq(Execs)]
        /\ \A f \in Connects : IsInjective(inbox'[f])
    <2>1. inbox \in [Connects -> Seq(Execs)] /\ \A f \in Connects : IsInjective(inbox[f])
      BY DEF TypeOK, MessagesInv
    <2>2. \A f \in Connects : inbox'[f] = IF f \in L THEN Append(inbox[f], e) ELSE inbox[f]
      BY <1>1
    <2>3. inbox' \in [Connects -> Seq(Execs)]
      BY <1>1, <1>4, <2>1, AppendOnce
    <2>4. Holders(inbox, e) = {}
      BY <1>5
    <2> HIDE DEF L
    <2>5. /\ Holders(inbox', e) = L
          /\ \A d : d # e => Holders(inbox', d) = Holders(inbox, d)
          /\ \A f \in Connects : IsInjective(inbox'[f])
      <3>1. PICK box2 \in [Connects -> Seq(Execs)] : box2 = inbox'
        BY <2>3
      <3>2. \A f \in Connects : box2[f] = IF f \in L THEN Append(inbox[f], e) ELSE inbox[f]
        BY <2>2, <3>1
      <3>3. /\ Holders(box2, e) = L
            /\ \A d : d # e => Holders(box2, d) = Holders(inbox, d)
            /\ \A f \in Connects : IsInjective(box2[f])
        BY <1>4, <1>7, <2>1, <2>4, <3>2, HoldersTold, ZenonT(30)
      <3> QED BY <3>1, <3>3
    <2> QED BY <2>3, <2>5 DEF L
  <1> QED BY <1>1, <1>4, <1>5, <1>6, <1>8 DEF e

\* A beginning of a sequence that has everything once.
LEMMA BeginningOnce ==
  ASSUME NEW S, NEW s \in Seq(S), NEW n \in 0 .. Len(s)
  PROVE  /\ SubSeq(s, 1, n) \in Seq(S)
         /\ ToSet(SubSeq(s, 1, n)) \subseteq ToSet(s)
         /\ IsInjective(s) => IsInjective(SubSeq(s, 1, n))
  <1> DEFINE t == SubSeq(s, 1, n)
  <1>1. /\ t \in Seq(S) /\ DOMAIN t = 1 .. n /\ DOMAIN s = 1 .. Len(s)
        /\ \A k \in 1 .. n : t[k] = s[k] /\ k \in 1 .. Len(s)
    BY SubSeqProperties
  <1> HIDE DEF t
  <1>2. ToSet(t) \subseteq ToSet(s)
    BY <1>1 DEF ToSet
  <1>3. IsInjective(s) => IsInjective(t)
    BY <1>1 DEF IsInjective
  <1> QED BY <1>1, <1>2, <1>3 DEF t

\* A feed that loses messages holds fewer.
LEMMA FewerHolders ==
  ASSUME NEW box, NEW box2,
         \A f \in Connects : ToSet(box2[f]) \subseteq ToSet(box[f])
  PROVE  \A e : Holders(box2, e) \subseteq Holders(box, e)
  <1> TAKE e
  <1>1. \A f \in Connects : f \in Holders(box2, e) => f \in Holders(box, e)
    BY HoldersInbox
  <1> QED BY <1>1 DEF Holders

\* A connection that breaks loses the end of its inbox.
LEMMA BreakEffects ==
  ASSUME TypeOK, MessagesInv, NEW f \in Connects, SocketBreaks(f)
  PROVE  /\ inbox' \in [Connects -> Seq(Execs)]
         /\ \A g \in Connects : IsInjective(inbox'[g])
         /\ \A e : Holders(inbox', e) \subseteq Holders(inbox, e)
         /\ socket' \in [Kinds -> SUBSET Connects]
         /\ \A k \in Kinds : socket'[k] \subseteq socket[k]
  <1>1. PICK n \in 0 .. Len(inbox[f]) : inbox' = [inbox EXCEPT ![f] = SubSeq(inbox[f], 1, n)]
    BY DEF SocketBreaks
  <1>2. inbox \in [Connects -> Seq(Execs)] /\ IsInjective(inbox[f])
    BY DEF TypeOK, MessagesInv
  <1>3. /\ SubSeq(inbox[f], 1, n) \in Seq(Execs)
        /\ ToSet(SubSeq(inbox[f], 1, n)) \subseteq ToSet(inbox[f])
        /\ IsInjective(SubSeq(inbox[f], 1, n))
    BY <1>2, BeginningOnce
  <1>4. /\ inbox' \in [Connects -> Seq(Execs)]
        /\ inbox'[f] = SubSeq(inbox[f], 1, n)
        /\ \A g \in Connects : g # f => inbox'[g] = inbox[g]
    BY <1>1, <1>2, <1>3
  <1>5. \A g \in Connects : IsInjective(inbox'[g])
    BY <1>3, <1>4 DEF MessagesInv
  <1>6. \A e : Holders(inbox', e) \subseteq Holders(inbox, e)
    <2>1. \A g \in Connects : ToSet(inbox'[g]) \subseteq ToSet(inbox[g])
      BY <1>3, <1>4
    <2> QED BY <2>1, FewerHolders
  <1>7. /\ socket' \in [Kinds -> SUBSET Connects]
        /\ \A k \in Kinds : socket'[k] \subseteq socket[k]
    BY DEF SocketBreaks, TypeOK
  <1> QED BY <1>4, <1>5, <1>6, <1>7

\* A Disconnect closes the sockets of the feeds it stops, and their messages
\* are lost.
LEMMA DisconnectEffects ==
  ASSUME TypeOK, MessagesInv, NEW r \in Disconnects, Disconnect(r)
  PROVE  /\ inbox' \in [Connects -> Seq(Execs)]
         /\ \A g \in Connects : IsInjective(inbox'[g])
         /\ \A e : Holders(inbox', e) \subseteq Holders(inbox, e)
         /\ socket' \in [Kinds -> SUBSET Connects]
         /\ stopped' \in [Kinds -> SUBSET Connects]
         /\ \A k \in Kinds : socket'[k] = socket[k] \ Closing(k)
         /\ \A k \in Kinds : stopped'[k] = stopped[k] \cup Closing(k)
  <1>1. /\ inbox \in [Connects -> Seq(Execs)] /\ << >> \in Seq(Execs)
        /\ \A g \in Connects : IsInjective(inbox[g])
    BY DEF TypeOK, MessagesInv
  <1>2. /\ inbox' \in [Connects -> Seq(Execs)]
        /\ \A f \in Connects : inbox'[f] = inbox[f] \/ inbox'[f] = << >>
    BY <1>1 DEF Disconnect
  <1>3. IsInjective(<< >>) /\ ToSet(<< >>) = {}
    BY DEF IsInjective, ToSet
  <1>4. \A g \in Connects : IsInjective(inbox'[g]) /\ ToSet(inbox'[g]) \subseteq ToSet(inbox[g])
    BY <1>1, <1>2, <1>3
  <1>5. \A e : Holders(inbox', e) \subseteq Holders(inbox, e)
    BY <1>4, FewerHolders
  <1>6. \A k \in Kinds : Closing(k) \subseteq Connects
    BY DEF TypeOK, Closing
  <1>7. /\ socket' \in [Kinds -> SUBSET Connects]
        /\ stopped' \in [Kinds -> SUBSET Connects]
        /\ \A k \in Kinds : socket'[k] = socket[k] \ Closing(k)
        /\ \A k \in Kinds : stopped'[k] = stopped[k] \cup Closing(k)
    BY <1>6 DEF Disconnect, TypeOK
  <1> QED BY <1>2, <1>4, <1>5, <1>7

\* An order at the venue stays as it is, or is canceled while it is open.
CanceledOrSame(p) ==
  /\ venue'[p].trades = venue[p].trades
  /\ \/ venue'[p].state = venue[p].state
     \/ venue[p].state = "open" /\ venue'[p].state = "canceled"

\* What a CancelOrder call in progress does.
LEMMA CancelEffects ==
  ASSUME TypeOK, NEW o \in Orders, CancelTry(o)
  PROVE  /\ venue' \in [Orders -> VenueTypes]
         /\ \A p \in Orders : CanceledOrSame(p)
         /\ \A p \in Orders : p # o => call'[p] = call[p]
         /\ call[o] = "canceling" /\ call'[o] \in {"canceling", "notCanceled", "canceled"}
         /\ call' \in [Orders -> {"none", "sending", "acked", "failed",
                                  "canceling", "canceled", "notCanceled"}]
         /\ todo' \in [Orders -> SUBSET Symbols]
  <1>1. /\ venue \in [Orders -> VenueTypes] /\ todo \in [Orders -> SUBSET Symbols]
        /\ call \in [Orders -> {"none", "sending", "acked", "failed",
                                "canceling", "canceled", "notCanceled"}]
        /\ call[o] = "canceling"
    BY DEF TypeOK, VenueTypes, VenueStates, CancelTry
  <1>2. CASE call' = [call EXCEPT ![o] = "notCanceled"] /\ UNCHANGED <<todo, venue>>
    BY <1>1, <1>2 DEF CanceledOrSame
  <1>3. ASSUME NEW s \in todo[o], NEW arrived \in BOOLEAN, NEW answered \in BOOLEAN,
               venue' = [p \in Orders |->
                           IF arrived /\ p \in Targets(o, s)
                           THEN [venue[p] EXCEPT !.state = "canceled"] ELSE venue[p]],
               IF arrived /\ answered /\ CanceledOK(o, s)
               THEN call' = [call EXCEPT ![o] = "canceled"] /\ todo' = [todo EXCEPT ![o] = {}]
               ELSE todo' = [todo EXCEPT ![o] = @ \ {s}] /\ UNCHANGED call
        PROVE  /\ venue' \in [Orders -> VenueTypes]
               /\ \A p \in Orders : CanceledOrSame(p)
               /\ \A p \in Orders : p # o => call'[p] = call[p]
               /\ call'[o] \in {"canceling", "canceled"}
               /\ call' \in [Orders -> {"none", "sending", "acked", "failed",
                                        "canceling", "canceled", "notCanceled"}]
               /\ todo' \in [Orders -> SUBSET Symbols]
    <2>1. \A p \in Orders :
            /\ venue'[p] \in VenueTypes /\ venue'[p].trades = venue[p].trades
            /\ arrived /\ p \in Targets(o, s) => venue'[p].state = "canceled"
            /\ ~ (arrived /\ p \in Targets(o, s)) => venue'[p].state = venue[p].state
      BY <1>1, <1>3 DEF VenueTypes, VenueStates
    <2>2. venue' \in [Orders -> VenueTypes]
      BY <1>3, <2>1
    <2>3. \A p \in Targets(o, s) : p \in Orders /\ Number[p] = Number[o] /\ venue[p].state = "open"
      BY DEF Targets
    <2>4. /\ \A p \in Orders : p # o => call'[p] = call[p]
          /\ call'[o] \in {"canceling", "canceled"}
          /\ call' \in [Orders -> {"none", "sending", "acked", "failed",
                                   "canceling", "canceled", "notCanceled"}]
          /\ todo' \in [Orders -> SUBSET Symbols]
      BY <1>1, <1>3
    <2>6. \A p \in Orders : CanceledOrSame(p)
      BY <2>1, <2>3 DEF CanceledOrSame
    <2> QED BY <2>2, <2>4, <2>6
  <1> QED BY <1>1, <1>2, <1>3 DEF CancelTry

-----------------------------------------------------------------------------
\* Types

\* A step of a request goes from one step to another, and leaves the others.
LEMMA RequestMoves ==
  ASSUME TypeOK, NEW r \in Requests, NEW step \in Steps, Goto(r, step)
  PROVE  /\ pc' \in [Requests -> Steps]
         /\ pc'[r] = step
         /\ \A s \in Requests : s # r => pc'[s] = pc[s]
  BY DEF TypeOK, RequestTypes, Goto

\* What does not change the requests leaves their types.
LEMMA RequestsStay ==
  ASSUME TypeOK, UNCHANGED <<status, requestVars>>
  PROVE  RequestTypes({})'
  BY DEF TypeOK, RequestTypes, requestVars

\* Connecting keeps the types.
LEMMA ConnectTypes ==
  ASSUME TypeOK, NEW r \in Connects, Connect(r)
  PROVE  TypeOK'
  <1>1. r \in Requests
    BY DEF Requests
  <1>2. PICK step \in {"register", "done"} : Goto(r, step)
    BY DEF Connect, Connected
  <1>3. pc' \in [Requests -> Steps]
    <2>1. step \in Steps
      BY DEF Steps
    <2> QED BY <1>1, <1>2, <2>1, RequestMoves
  <1>4. status' \in {"Disconnected", "Connected"}
    BY DEF Connect, ConnectFails, ConnectSucceeds, TypeOK, RequestTypes
  <1>5. RequestTypes({})'
    BY <1>3, <1>4 DEF Connect, TypeOK, RequestTypes
  <1>6. /\ {userFeed', marketFeed', cancelLoop'} \subseteq Connects \cup {NoRequest}
        /\ socket' \in [Kinds -> SUBSET Connects]
        /\ loops' \subseteq Connects
    <2>1. "user" \in Kinds
      BY DEF Kinds
    <2>2. CASE ConnectFails(r)
      BY <2>2 DEF Connect, ConnectFails, NewFeed, TypeOK
    <2>3. CASE ConnectSucceeds(r)
      BY <2>1, <2>3 DEF Connect, ConnectSucceeds, NewFeed, TypeOK
    <2> QED BY <2>2, <2>3 DEF Connect
  <1> QED BY <1>5, <1>6 DEF Connect, TypeOK, orderVars

\* Subscribing keeps the types.
LEMMA SubscribeTypes ==
  ASSUME TypeOK, NEW r \in Connects, SubscribeMarketData(r)
  PROVE  TypeOK'
  <1>1. r \in Requests /\ "done" \in Steps
    BY DEF Requests, Steps
  <1>2. Goto(r, "done")
    BY DEF SubscribeMarketData, Subscribed
  <1>3. pc' \in [Requests -> Steps]
    BY <1>1, <1>2, RequestMoves
  <1>4. /\ mdCancel' \in Connects \cup {NoRequest} /\ pumps' \subseteq Connects
        /\ ended' \subseteq Connects /\ orderly' = orderly /\ status' = status
    BY DEF SubscribeMarketData, Subscribed, TypeOK, RequestTypes
  <1>5. RequestTypes({})'
    BY <1>3, <1>4 DEF TypeOK, RequestTypes
  <1>6. /\ marketFeed' \in Connects \cup {NoRequest}
        /\ socket' \in [Kinds -> SUBSET Connects]
    <2>1. CASE UNCHANGED <<marketFeed, socket>>
      BY <2>1 DEF TypeOK
    <2>2. ASSUME marketFeed' = r, NEW ok \in BOOLEAN,
                 socket' = [socket EXCEPT !["market"] = IF ok THEN @ \cup {r} ELSE @]
          PROVE  /\ marketFeed' \in Connects \cup {NoRequest}
                 /\ socket' \in [Kinds -> SUBSET Connects]
      BY <2>2 DEF TypeOK, Kinds
    <2> QED BY <2>1, <2>2 DEF SubscribeMarketData
  <1> QED BY <1>5, <1>6 DEF SubscribeMarketData, TypeOK, orderVars

\* Disconnecting keeps the types.
LEMMA DisconnectTypes ==
  ASSUME TypeOK, MessagesInv, NEW r \in Disconnects, Disconnect(r)
  PROVE  TypeOK'
  <1>1. r \in Requests /\ "done" \in Steps
    BY DEF Requests, Steps
  <1>2. pc' \in [Requests -> Steps]
    BY <1>1, RequestMoves DEF Disconnect
  <1>3. status' \in {"Disconnected", "Connected"} /\ panicked' \in BOOLEAN
    BY DEF Disconnect, TypeOK, RequestTypes
  <1>4. RequestTypes({})'
    BY <1>2, <1>3 DEF Disconnect, TypeOK, RequestTypes
  <1>5. /\ inbox' \in [Connects -> Seq(Execs)]
        /\ socket' \in [Kinds -> SUBSET Connects]
        /\ stopped' \in [Kinds -> SUBSET Connects]
    BY DisconnectEffects
  <1>6. loops' \subseteq Connects
    BY DEF Disconnect, TypeOK
  <1> QED BY <1>3, <1>4, <1>5, <1>6 DEF Disconnect, TypeOK, orderVars

\* The steps of a call about an order keep the types.
LEMMA OrderTypes ==
  ASSUME TypeOK, MessagesInv, NEW o \in Orders,
         \/ SubmitOrder(o) \/ SubmitAnswer(o) \/ VenueTrades(o)
         \/ CancelOrder(o) \/ CancelTry(o)
  PROVE  TypeOK'
  <1>0. venue \in [Orders -> VenueTypes]
    BY DEF TypeOK, VenueTypes, VenueStates
  <1>1. CASE SubmitOrder(o)
    <2>1. RequestTypes({})'
      BY <1>1, RequestsStay DEF SubmitOrder
    <2> QED BY <1>1, <2>1 DEF SubmitOrder, TypeOK, feedVars
  <1>2. CASE SubmitAnswer(o)
    <2>1. RequestTypes({})'
      BY <1>2, RequestsStay DEF SubmitAnswer
    <2>2. PICK x \in VenueStates : venue' = [venue EXCEPT ![o].state = x]
      BY <1>0, <1>2 DEF SubmitAnswer, VenueTypes, VenueStates
    <2>3. venue' \in [Orders -> VenueTypes]
      BY <1>0, <2>2 DEF VenueTypes
    <2> QED BY <1>2, <2>1, <2>3 DEF SubmitAnswer, TypeOK, feedVars, VenueTypes, VenueStates
  <1>3. CASE VenueTrades(o)
    <2>1. RequestTypes({})'
      BY <1>3, RequestsStay DEF VenueTrades
    <2>2. inbox' \in [Connects -> Seq(Execs)] /\ venue' \in [Orders -> VenueTypes]
      BY <1>3, TradeEffects
    <2> QED BY <1>3, <2>1, <2>2 DEF VenueTrades, TypeOK, VenueTypes, VenueStates
  <1>4. CASE CancelOrder(o)
    <2>1. RequestTypes({})'
      BY <1>4, RequestsStay DEF CancelOrder
    <2> QED BY <1>4, <2>1 DEF CancelOrder, TypeOK, feedVars
  <1>5. CASE CancelTry(o)
    <2>1. RequestTypes({})'
      BY <1>5, RequestsStay DEF CancelTry
    <2>2. /\ venue' \in [Orders -> VenueTypes] /\ todo' \in [Orders -> SUBSET Symbols]
          /\ call' \in [Orders -> {"none", "sending", "acked", "failed",
                                   "canceling", "canceled", "notCanceled"}]
      BY <1>5, CancelEffects
    <2> QED BY <1>5, <2>1, <2>2 DEF CancelTry, TypeOK, feedVars, VenueTypes, VenueStates
  <1> QED BY <1>1, <1>2, <1>3, <1>4, <1>5

\* Every step keeps the types.
LEMMA TypesPreserved ==
  ASSUME BinanceInv, Next
  PROVE  TypeOK'
  <1> USE DEF BinanceInv
  <1>1. CASE HandlerStep
    <2>1. RequestTypes({})'
      BY <1>1, RequestTypesKept DEF HandlerStep, TypeOK
    <2> QED BY <1>1, <2>1 DEF HandlerStep, TypeOK, feedVars, orderVars
  <1>2. ASSUME NEW r \in Connects, Connect(r) \/ SubscribeMarketData(r) PROVE TypeOK'
    BY <1>2, ConnectTypes, SubscribeTypes
  <1>3. ASSUME NEW r \in Disconnects, Disconnect(r) PROVE TypeOK'
    BY <1>3, DisconnectTypes
  <1>4. ASSUME NEW f \in Connects, ReadLoop(f) PROVE TypeOK'
    <2>1. RequestTypes({})'
      BY <1>4, RequestsStay DEF ReadLoop
    <2>2. /\ inbox' \in [Connects -> Seq(Execs)]
          /\ copies' \in [Execs -> Nat] /\ queued' \in 0 .. FillCap
      BY <1>4, ReadEffects
    <2> QED BY <1>4, <2>1, <2>2 DEF ReadLoop, TypeOK, orderVars
  <1>5. ASSUME NEW f \in Connects, SocketBreaks(f) PROVE TypeOK'
    <2>1. RequestTypes({})'
      BY <1>5, RequestsStay DEF SocketBreaks
    <2>2. inbox' \in [Connects -> Seq(Execs)] /\ socket' \in [Kinds -> SUBSET Connects]
      BY <1>5, BreakEffects
    <2> QED BY <1>5, <2>1, <2>2 DEF SocketBreaks, TypeOK, orderVars
  <1>6. CASE CollectFill
    <2>1. RequestTypes({})'
      BY <1>6, RequestsStay DEF CollectFill
    <2>2. queued' \in 0 .. FillCap
      BY <1>6, BinanceAssumption DEF CollectFill, TypeOK
    <2> QED BY <1>6, <2>1, <2>2 DEF CollectFill, TypeOK, feedVars, orderVars
  <1>7. ASSUME NEW o \in Orders,
               \/ SubmitOrder(o) \/ SubmitAnswer(o) \/ VenueTrades(o)
               \/ CancelOrder(o) \/ CancelTry(o)
        PROVE  TypeOK'
    BY <1>7, OrderTypes
  <1> QED BY <1>1, <1>2, <1>3, <1>4, <1>5, <1>6, <1>7 DEF Next

-----------------------------------------------------------------------------
\* Messages and calls

\* Messages are only lost, and nothing is reported.
LEMMA MessagesShrink ==
  ASSUME MessagesInv, copies' = copies,
         \A f \in Connects : IsInjective(inbox'[f]),
         \A e : Holders(inbox', e) \subseteq Holders(inbox, e),
         \A o \in Orders : venue'[o].trades = venue[o].trades
  PROVE  MessagesInv'
  <1>1. ASSUME NEW e \in Execs, Holders(inbox', e) # {} \/ copies'[e] > 0
        PROVE  e[2] <= venue'[e[1]].trades
    <2>1. e[1] \in Orders
      BY ExecFields
    <2>2. Holders(inbox, e) # {} \/ copies[e] > 0
      BY <1>1
    <2>3. e[2] <= venue[e[1]].trades
      BY <2>2 DEF MessagesInv
    <2> QED BY <2>1, <2>3
  <1> QED BY <1>1 DEF MessagesInv

\* What the venue and the read loops do not notice.
LEMMA MessagesStay ==
  ASSUME MessagesInv, inbox' = inbox, copies' = copies,
         \A o \in Orders : venue'[o].trades = venue[o].trades
  PROVE  MessagesInv'
  <1>1. \A f \in Connects : IsInjective(inbox'[f])
    BY DEF MessagesInv
  <1>2. \A e : Holders(inbox', e) \subseteq Holders(inbox, e)
    OBVIOUS
  <1> QED BY <1>1, <1>2, MessagesShrink

\* Every step keeps MessagesInv.
LEMMA MessagesPreserved ==
  ASSUME BinanceInv, Next
  PROVE  MessagesInv'
  <1> USE DEF BinanceInv
  <1>1. CASE HandlerStep \/ CollectFill
               \/ \E r \in Connects : Connect(r) \/ SubscribeMarketData(r)
    BY <1>1, MessagesStay
       DEF HandlerStep, CollectFill, Connect, SubscribeMarketData, feedVars, orderVars
  <1>2. ASSUME NEW r \in Disconnects, Disconnect(r) PROVE MessagesInv'
    <2>1. /\ \A g \in Connects : IsInjective(inbox'[g])
          /\ \A e : Holders(inbox', e) \subseteq Holders(inbox, e)
      BY <1>2, DisconnectEffects
    <2> QED BY <1>2, <2>1, MessagesShrink DEF Disconnect, orderVars
  <1>3. ASSUME NEW f \in Connects, SocketBreaks(f) PROVE MessagesInv'
    <2>1. /\ \A g \in Connects : IsInjective(inbox'[g])
          /\ \A e : Holders(inbox', e) \subseteq Holders(inbox, e)
      BY <1>3, BreakEffects
    <2> QED BY <1>3, <2>1, MessagesShrink DEF SocketBreaks, orderVars
  <1>4. ASSUME NEW f \in Connects, ReadLoop(f) PROVE MessagesInv'
    <2> DEFINE h == Head(inbox[f])
    <2>1. /\ h \in Execs /\ f \in Holders(inbox, h)
          /\ Holders(inbox', h) = Holders(inbox, h) \ {f}
          /\ \A e : e # h => Holders(inbox', e) = Holders(inbox, e)
          /\ \A g \in Connects : IsInjective(inbox'[g])
          /\ copies' = copies \/ copies' = [copies EXCEPT ![h] = @ + 1]
      BY <1>4, ReadEffects
    <2>2. venue' = venue
      BY <1>4 DEF ReadLoop, orderVars
    <2> HIDE DEF h
    <2>3. \A e \in Execs : e # h => copies'[e] = copies[e]
      BY <2>1 DEF TypeOK
    <2>4. \A e \in Execs : Holders(inbox', e) # {} \/ copies'[e] > 0 =>
                             Holders(inbox, e) # {} \/ copies[e] > 0
      BY <2>1, <2>3
    <2> QED BY <2>1, <2>2, <2>4 DEF MessagesInv
  <1>5. ASSUME NEW o \in Orders, SubmitOrder(o) \/ CancelOrder(o) PROVE MessagesInv'
    BY <1>5, MessagesStay DEF SubmitOrder, CancelOrder, feedVars
  <1>6. ASSUME NEW o \in Orders, SubmitAnswer(o) PROVE MessagesInv'
    <2>1. \A p \in Orders : venue'[p].trades = venue[p].trades
      BY <1>6 DEF SubmitAnswer, TypeOK
    <2> QED BY <1>6, <2>1, MessagesStay DEF SubmitAnswer, feedVars
  <1>7. ASSUME NEW o \in Orders, CancelTry(o) PROVE MessagesInv'
    <2>1. \A p \in Orders : venue'[p].trades = venue[p].trades
      BY <1>7, CancelEffects DEF CanceledOrSame
    <2> QED BY <1>7, <2>1, MessagesStay DEF CancelTry, feedVars
  <1>8. ASSUME NEW o \in Orders, VenueTrades(o) PROVE MessagesInv'
    <2> DEFINE x == <<o, venue[o].trades + 1>>
    <2>1. /\ x \in Execs /\ Holders(inbox, x) = {}
          /\ \A d : d # x => Holders(inbox', d) = Holders(inbox, d)
          /\ \A f \in Connects : IsInjective(inbox'[f])
          /\ \A p \in Orders : p # o => venue'[p] = venue[p]
          /\ venue'[o].trades = venue[o].trades + 1
      BY <1>8, TradeEffects
    <2>2. copies' = copies
      BY <1>8 DEF VenueTrades
    <2>3. ASSUME NEW e \in Execs, Holders(inbox', e) # {} \/ copies'[e] > 0
          PROVE  e[2] <= venue'[e[1]].trades
      <3>1. e[1] \in Orders /\ e[2] \in Nat
        BY ExecFields, BinanceAssumption
      <3>2. venue[e[1]].trades \in Nat /\ venue[o].trades \in Nat
        BY <3>1 DEF TypeOK
      <3>3. CASE e = x
        BY <2>1, <3>1, <3>2, <3>3
      <3>4. CASE e # x
        <4>1. Holders(inbox, e) # {} \/ copies[e] > 0
          BY <2>1, <2>2, <2>3, <3>4
        <4>2. e[2] <= venue[e[1]].trades
          BY <4>1 DEF MessagesInv
        <4> QED BY <2>1, <3>1, <3>2, <4>2
      <3> QED BY <3>3, <3>4
    <2> QED BY <2>1, <2>3 DEF MessagesInv
  <1> QED BY <1>1, <1>2, <1>3, <1>4, <1>5, <1>6, <1>7, <1>8 DEF Next

\* Every step keeps what the calls rely on: an order that was not sent has no
\* fate.
LEMMA CallsPreserved ==
  ASSUME BinanceInv, Next
  PROVE  CallsInv'
  <1> USE DEF BinanceInv
  <1>1. ASSUME UNCHANGED <<call, venue>> PROVE CallsInv'
    BY <1>1 DEF CallsInv
  <1>2. CASE \/ HandlerStep \/ CollectFill
             \/ \E r \in Connects : Connect(r) \/ SubscribeMarketData(r)
             \/ \E r \in Disconnects : Disconnect(r)
             \/ \E f \in Connects : ReadLoop(f) \/ SocketBreaks(f)
    BY <1>1, <1>2 DEF HandlerStep, CollectFill, Connect, SubscribeMarketData, Disconnect,
                      ReadLoop, SocketBreaks, orderVars
  <1>3. call \in [Orders -> {"none", "sending", "acked", "failed",
                             "canceling", "canceled", "notCanceled"}]
    BY DEF TypeOK
  <1>4. ASSUME NEW o \in Orders, SubmitOrder(o) \/ CancelOrder(o)
        PROVE  CallsInv'
    <2>1. /\ venue' = venue
          /\ \A p \in Orders : p # o => call'[p] = call[p]
          /\ call'[o] # "canceled"
          /\ call'[o] \in {"none", "sending"} => call[o] = "none"
      BY <1>3, <1>4 DEF SubmitOrder, CancelOrder
    <2> QED BY <2>1 DEF CallsInv
  <1>5. ASSUME NEW o \in Orders, SubmitAnswer(o)
        PROVE  CallsInv'
    <2>1. /\ \A p \in Orders : p # o => call'[p] = call[p] /\ venue'[p] = venue[p]
          /\ call[o] = "sending" /\ call'[o] \in {"acked", "failed"}
      BY <1>3, <1>5 DEF SubmitAnswer, TypeOK
    <2> QED BY <2>1 DEF CallsInv
  <1>6. ASSUME NEW o \in Orders, VenueTrades(o)
        PROVE  CallsInv'
    <2>1. /\ venue[o].state = "open" /\ call' = call
          /\ \A p \in Orders : p # o => venue'[p] = venue[p]
      BY <1>6, TradeEffects DEF VenueTrades
    <2>2. \A p \in Orders : venue[p].state = "unknown" => venue'[p].state = "unknown"
      BY <2>1
    <2> QED BY <2>1, <2>2 DEF CallsInv
  <1>7. ASSUME NEW o \in Orders, CancelTry(o)
        PROVE  CallsInv'
    <2>1. /\ \A p \in Orders : CanceledOrSame(p)
          /\ \A p \in Orders : p # o => call'[p] = call[p]
          /\ call[o] = "canceling" /\ call'[o] \in {"canceling", "notCanceled", "canceled"}
      BY <1>7, CancelEffects
    <2>2. \A p \in Orders : venue[p].state = "unknown" => venue'[p].state = "unknown"
      BY <2>1 DEF CanceledOrSame
    <2> QED BY <2>1, <2>2 DEF CallsInv
  <1> QED BY <1>2, <1>4, <1>5, <1>6, <1>7 DEF Next

-----------------------------------------------------------------------------
\* Requests

\* What a step of the handlers does to one request.
LEMMA HandlerMoves ==
  ASSUME TypeOK, HandlerStep
  PROVE  \E r \in Requests :
           /\ pc' \in [Requests -> Steps]
           /\ \A s \in Requests : s # r => pc'[s] = pc[s]
           /\ \/ /\ r \in Connects /\ pc[r] = "idle" /\ pc'[r] \in {"connect", "done"}
                 /\ orderly' = (orderly /\ InFlight = {} /\ status = "Disconnected")
                 /\ UNCHANGED <<mdCancel, pumps, ended>>
              \/ /\ r \in Connects /\ pc[r] = "register" /\ pc'[r] = "subscribe"
                 /\ mdCancel' = r /\ UNCHANGED <<pumps, ended, orderly>>
              \/ /\ r \in Disconnects /\ pc[r] = "idle" /\ pc'[r] \in {"forget", "disconnect"}
                 /\ orderly' = (orderly /\ InFlight = {} /\ status = "Connected")
                 /\ ended' = ended \cup ({mdCancel} \ {NoRequest})
                 /\ UNCHANGED <<mdCancel, pumps>>
              \/ /\ r \in Disconnects /\ pc[r] = "forget" /\ pc'[r] = "disconnect"
                 /\ mdCancel' = NoRequest /\ UNCHANGED <<pumps, ended, orderly>>
  <1>1. /\ Connects \subseteq Requests /\ Disconnects \subseteq Requests
        /\ {"connect", "done", "subscribe", "forget", "disconnect"} \subseteq Steps
    BY DEF Requests, Steps
  <1>2. ASSUME NEW r \in Connects, ConnectArrives(r)
        PROVE  /\ r \in Requests /\ pc' \in [Requests -> Steps]
               /\ \A s \in Requests : s # r => pc'[s] = pc[s]
               /\ pc[r] = "idle" /\ pc'[r] \in {"connect", "done"}
               /\ orderly' = (orderly /\ InFlight = {} /\ status = "Disconnected")
               /\ UNCHANGED <<mdCancel, pumps, ended>>
    <2>1. PICK step \in {"connect", "done"} : Goto(r, step)
      BY <1>2 DEF ConnectArrives
    <2>2. r \in Requests /\ step \in Steps
      BY <1>1
    <2>3. /\ pc' \in [Requests -> Steps] /\ pc'[r] = step
          /\ \A s \in Requests : s # r => pc'[s] = pc[s]
      BY <2>1, <2>2, RequestMoves
    <2> QED BY <1>2, <2>2, <2>3 DEF ConnectArrives, Arrive
  <1>3. ASSUME NEW r \in Connects, RegisterCancel(r)
        PROVE  /\ r \in Requests /\ pc' \in [Requests -> Steps]
               /\ \A s \in Requests : s # r => pc'[s] = pc[s]
               /\ pc[r] = "register" /\ pc'[r] = "subscribe"
               /\ mdCancel' = r /\ UNCHANGED <<pumps, ended, orderly>>
    BY <1>1, <1>3, RequestMoves DEF RegisterCancel
  <1>4. ASSUME NEW r \in Disconnects, DisconnectArrives(r)
        PROVE  /\ r \in Requests /\ pc' \in [Requests -> Steps]
               /\ \A s \in Requests : s # r => pc'[s] = pc[s]
               /\ pc[r] = "idle" /\ pc'[r] \in {"forget", "disconnect"}
               /\ orderly' = (orderly /\ InFlight = {} /\ status = "Connected")
               /\ ended' = ended \cup ({mdCancel} \ {NoRequest})
               /\ UNCHANGED <<mdCancel, pumps>>
    <2>1. PICK step \in {"forget", "disconnect"} : Goto(r, step)
      BY <1>4 DEF DisconnectArrives
    <2>2. r \in Requests /\ step \in Steps
      BY <1>1
    <2>3. /\ pc' \in [Requests -> Steps] /\ pc'[r] = step
          /\ \A s \in Requests : s # r => pc'[s] = pc[s]
      BY <2>1, <2>2, RequestMoves
    <2> QED BY <1>4, <2>2, <2>3 DEF DisconnectArrives, Arrive
  <1>5. ASSUME NEW r \in Disconnects, ForgetCancel(r)
        PROVE  /\ r \in Requests /\ pc' \in [Requests -> Steps]
               /\ \A s \in Requests : s # r => pc'[s] = pc[s]
               /\ pc[r] = "forget" /\ pc'[r] = "disconnect"
               /\ mdCancel' = NoRequest /\ UNCHANGED <<pumps, ended, orderly>>
    BY <1>1, <1>5, RequestMoves DEF ForgetCancel
  <1> QED BY <1>2, <1>3, <1>4, <1>5 DEF HandlerStep, RequestStep

\* What a Connect does.
LEMMA ConnectEffects ==
  ASSUME TypeOK, NEW r \in Connects, Connect(r)
  PROVE  /\ r \in Requests /\ pc' \in [Requests -> Steps] /\ pc[r] = "connect"
         /\ \A s \in Requests : s # r => pc'[s] = pc[s]
         /\ \/ /\ userFeed' \in {userFeed, r} /\ pc'[r] = "done"
               /\ UNCHANGED <<status, socket, loops, cancelLoop>>
            \/ /\ userFeed' = r /\ pc'[r] = IF Aggregating THEN "register" ELSE "done"
               /\ socket'["user"] = socket["user"] \cup {r}
               /\ socket'["market"] = socket["market"]
               /\ loops' = loops \cup {r} /\ cancelLoop' = r
               /\ status' = "Connected"
  <1>1. r \in Requests /\ {"done", "register"} \subseteq Steps /\ pc[r] = "connect"
    BY DEF Requests, Steps, Connect
  <1>2. CASE ConnectFails(r) /\ Goto(r, "done")
    <2>1. /\ pc' \in [Requests -> Steps] /\ pc'[r] = "done"
          /\ \A s \in Requests : s # r => pc'[s] = pc[s]
      BY <1>1, <1>2, RequestMoves
    <2> QED BY <1>1, <1>2, <2>1 DEF ConnectFails, NewFeed
  <1>3. CASE ConnectSucceeds(r) /\ Connected(r)
    <2> DEFINE step == IF Aggregating THEN "register" ELSE "done"
    <2>1. Goto(r, step) /\ step \in Steps
      BY <1>1, <1>3 DEF Connected
    <2> HIDE DEF step
    <2>2. /\ pc' \in [Requests -> Steps] /\ pc'[r] = step
          /\ \A s \in Requests : s # r => pc'[s] = pc[s]
      BY <1>1, <2>1, RequestMoves
    <2>3. /\ socket'["user"] = socket["user"] \cup {r}
          /\ socket'["market"] = socket["market"]
      BY <1>3 DEF ConnectSucceeds, NewFeed, TypeOK, Kinds
    <2>4. userFeed' = r /\ loops' = loops \cup {r} /\ cancelLoop' = r /\ status' = "Connected"
      BY <1>3 DEF ConnectSucceeds, NewFeed
    <2> QED BY <1>1, <2>2, <2>3, <2>4 DEF step
  <1> QED BY <1>2, <1>3 DEF Connect

\* What a SubscribeMarketData does.
LEMMA SubscribeEffects ==
  ASSUME TypeOK, NEW r \in Connects, SubscribeMarketData(r)
  PROVE  /\ r \in Requests /\ pc' \in [Requests -> Steps]
         /\ pc[r] = "subscribe" /\ pc'[r] = "done"
         /\ \A s \in Requests : s # r => pc'[s] = pc[s]
         /\ socket'["user"] = socket["user"]
         /\ \/ status # "Connected" /\ UNCHANGED <<marketFeed, socket>>
            \/ /\ status = "Connected" /\ marketFeed' = r
               /\ socket'["market"] \subseteq socket["market"] \cup {r}
         /\ \/ pumps' = pumps \cup {r} /\ UNCHANGED <<mdCancel, ended>>
            \/ UNCHANGED pumps /\ ended' = ended \cup {r} /\ mdCancel' = NoRequest
  <1>1. r \in Requests /\ "done" \in Steps /\ pc[r] = "subscribe"
    BY DEF Requests, Steps, SubscribeMarketData
  <1>2. Goto(r, "done")
    BY DEF SubscribeMarketData, Subscribed
  <1>3. /\ pc' \in [Requests -> Steps] /\ pc'[r] = "done"
        /\ \A s \in Requests : s # r => pc'[s] = pc[s]
    BY <1>1, <1>2, RequestMoves
  <1>4. /\ socket'["user"] = socket["user"]
        /\ \/ status # "Connected" /\ UNCHANGED <<marketFeed, socket>>
           \/ /\ status = "Connected" /\ marketFeed' = r
              /\ socket'["market"] \subseteq socket["market"] \cup {r}
    <2>1. ASSUME NEW ok \in BOOLEAN,
                 socket' = [socket EXCEPT !["market"] = IF ok THEN @ \cup {r} ELSE @]
          PROVE  /\ socket'["user"] = socket["user"]
                 /\ socket'["market"] \subseteq socket["market"] \cup {r}
      BY <2>1 DEF TypeOK, Kinds
    <2> QED BY <2>1 DEF SubscribeMarketData
  <1>5. \/ pumps' = pumps \cup {r} /\ UNCHANGED <<mdCancel, ended>>
        \/ UNCHANGED pumps /\ ended' = ended \cup {r} /\ mdCancel' = NoRequest
    BY DEF SubscribeMarketData, Subscribed
  <1> QED BY <1>1, <1>3, <1>4, <1>5

\* What a Disconnect does to its request.
LEMMA DisconnectMoves ==
  ASSUME TypeOK, NEW r \in Disconnects, Disconnect(r)
  PROVE  /\ r \in Requests /\ pc' \in [Requests -> Steps]
         /\ pc[r] = "disconnect" /\ pc'[r] = "done"
         /\ \A s \in Requests : s # r => pc'[s] = pc[s]
  <1>1. r \in Requests /\ "done" \in Steps /\ pc[r] = "disconnect" /\ Goto(r, "done")
    BY DEF Requests, Steps, Disconnect
  <1> QED BY <1>1, RequestMoves

\* Every step keeps OneAtATime.
LEMMA OnePreserved ==
  ASSUME BinanceInv, Next
  PROVE  OneAtATime'
  <1> USE DEF BinanceInv
  <1>0. pc \in [Requests -> Steps]
    BY DEF TypeOK, RequestTypes
  <1>1. CASE HandlerStep
    BY <1>0, <1>1, RequestsOneAtATime DEF HandlerStep
  <1>2. ASSUME NEW r \in Requests, r \in InFlight, orderly' = orderly, \E step : Goto(r, step)
        PROVE  OneAtATime'
    BY <1>0, <1>2, AdapterOneAtATime
  <1>3. ASSUME NEW r \in Connects, Connect(r) PROVE OneAtATime'
    <2>1. r \in Requests /\ r \in InFlight
      BY <1>3 DEF Connect, Requests, InFlight
    <2>2. orderly' = orderly /\ \E step : Goto(r, step)
      BY <1>3 DEF Connect, Connected
    <2> QED BY <1>2, <2>1, <2>2
  <1>4. ASSUME NEW r \in Connects, SubscribeMarketData(r) PROVE OneAtATime'
    <2>1. r \in Requests /\ r \in InFlight
      BY <1>4 DEF SubscribeMarketData, Requests, InFlight
    <2>2. orderly' = orderly /\ \E step : Goto(r, step)
      BY <1>4 DEF SubscribeMarketData, Subscribed
    <2> QED BY <1>2, <2>1, <2>2
  <1>5. ASSUME NEW r \in Disconnects, Disconnect(r) PROVE OneAtATime'
    <2>1. r \in Requests /\ r \in InFlight
      BY <1>5 DEF Disconnect, Requests, InFlight
    <2>2. orderly' = orderly /\ \E step : Goto(r, step)
      BY <1>5 DEF Disconnect
    <2> QED BY <1>2, <2>1, <2>2
  <1>6. ASSUME pc' = pc, orderly' = orderly PROVE OneAtATime'
    BY <1>6 DEF OneAtATime, InFlight
  <1>7. CASE \/ CollectFill
             \/ \E f \in Connects : ReadLoop(f) \/ SocketBreaks(f)
             \/ \E o \in Orders : SubmitOrder(o) \/ SubmitAnswer(o) \/ VenueTrades(o)
                                    \/ CancelOrder(o) \/ CancelTry(o)
    BY <1>6, <1>7 DEF CollectFill, ReadLoop, SocketBreaks, SubmitOrder, SubmitAnswer,
                      VenueTrades, CancelOrder, CancelTry, requestVars
  <1> QED BY <1>1, <1>3, <1>4, <1>5, <1>7 DEF Next

\* Every step keeps what is new new, and market data off without aggregators.
LEMMA FreshPreserved ==
  ASSUME BinanceInv, Next
  PROVE  FreshInv' /\ AggregatingInv'
  <1> USE DEF BinanceInv
  <1>0. /\ Connects \subseteq Requests /\ "user" \in Kinds /\ "market" \in Kinds
        /\ userFeed \in Connects \cup {NoRequest} /\ marketFeed \in Connects \cup {NoRequest}
        /\ socket \in [Kinds -> SUBSET Connects]
    BY DEF Requests, Kinds, TypeOK
  <1>1. CASE HandlerStep
    <2>1. UNCHANGED <<userFeed, marketFeed, stopped, socket>>
      BY <1>1 DEF HandlerStep, feedVars
    <2>2. PICK r \in Requests :
            /\ \A s \in Requests : s # r => pc'[s] = pc[s]
            /\ r \in Connects => \/ pc[r] = "idle" /\ pc'[r] \in {"connect", "done"}
                                 \/ pc[r] = "register" /\ pc'[r] = "subscribe"
      BY <1>1, HandlerMoves, RequestAssumption
    <2>3. FreshInv'
      BY <1>0, <2>1, <2>2 DEF FreshInv
    <2>4. AggregatingInv'
      BY <1>0, <2>1, <2>2 DEF AggregatingInv
    <2> QED BY <2>3, <2>4
  <1>2. ASSUME NEW r \in Connects, Connect(r) PROVE FreshInv' /\ AggregatingInv'
    <2>1. /\ \A s \in Requests : s # r => pc'[s] = pc[s]
          /\ pc[r] = "connect" /\ pc'[r] \in {"done", "register"}
          /\ ~Aggregating => pc'[r] = "done"
          /\ userFeed' \in {userFeed, r} /\ socket'["user"] \subseteq socket["user"] \cup {r}
      BY <1>2, ConnectEffects
    <2>2. UNCHANGED <<marketFeed, stopped>>
      BY <1>2 DEF Connect
    <2>3. FreshInv'
      BY <1>0, <2>1, <2>2 DEF FreshInv
    <2>4. AggregatingInv'
      BY <1>0, <2>1, <2>2 DEF AggregatingInv
    <2> QED BY <2>3, <2>4
  <1>3. ASSUME NEW r \in Connects, SubscribeMarketData(r) PROVE FreshInv' /\ AggregatingInv'
    <2>1. /\ \A s \in Requests : s # r => pc'[s] = pc[s]
          /\ pc[r] = "subscribe" /\ pc'[r] = "done"
          /\ socket'["user"] = socket["user"] /\ marketFeed' \in {marketFeed, r}
      BY <1>3, SubscribeEffects
    <2>2. UNCHANGED <<userFeed, stopped>>
      BY <1>3 DEF SubscribeMarketData
    <2>3. FreshInv'
      BY <1>0, <2>1, <2>2 DEF FreshInv
    <2>4. AggregatingInv'
      BY <1>0, <2>1, <2>2 DEF AggregatingInv
    <2> QED BY <2>3, <2>4
  <1>4. ASSUME NEW r \in Disconnects, Disconnect(r) PROVE FreshInv' /\ AggregatingInv'
    <2>1. /\ \A s \in Connects : pc'[s] = pc[s]
          /\ socket'["user"] \subseteq socket["user"]
      BY <1>0, <1>4, DisconnectMoves, DisconnectEffects, RequestAssumption
    <2>2. UNCHANGED <<userFeed, marketFeed>>
      BY <1>4 DEF Disconnect
    <2>3. /\ stopped'["user"] \subseteq stopped["user"] \cup {userFeed}
          /\ stopped'["market"] \subseteq stopped["market"] \cup {marketFeed}
      BY <1>0, <1>4, DisconnectEffects DEF Closing
    <2>4. FreshInv'
      BY <1>0, <2>1, <2>2, <2>3 DEF FreshInv
    <2>5. AggregatingInv'
      BY <2>1, <2>2 DEF AggregatingInv
    <2> QED BY <2>4, <2>5
  <1>5. ASSUME UNCHANGED <<pc, userFeed, marketFeed, stopped>>,
               socket'["user"] \subseteq socket["user"]
        PROVE  FreshInv' /\ AggregatingInv'
    BY <1>5 DEF FreshInv, AggregatingInv
  <1>6. ASSUME NEW f \in Connects, SocketBreaks(f) PROVE FreshInv' /\ AggregatingInv'
    <2>1. socket'["user"] \subseteq socket["user"]
      BY <1>0, <1>6, BreakEffects
    <2> QED BY <1>5, <1>6, <2>1 DEF SocketBreaks, requestVars
  <1>7. CASE \/ CollectFill
             \/ \E f \in Connects : ReadLoop(f)
             \/ \E o \in Orders : SubmitOrder(o) \/ SubmitAnswer(o) \/ VenueTrades(o)
                                    \/ CancelOrder(o) \/ CancelTry(o)
    BY <1>5, <1>7 DEF CollectFill, ReadLoop, SubmitOrder, SubmitAnswer,
                      VenueTrades, CancelOrder, CancelTry, requestVars, feedVars
  <1> QED BY <1>1, <1>2, <1>3, <1>4, <1>6, <1>7 DEF Next

-----------------------------------------------------------------------------
\* One fill per trade

\* Messages are only lost.
LEMMA SingleShrinks ==
  ASSUME SingleInv, copies' = copies,
         \A e : Holders(inbox', e) \subseteq Holders(inbox, e)
  PROVE  SingleInv'
  <1>1. ASSUME NEW e \in Execs
        PROVE  \/ copies'[e] = 0 /\ \E f \in Connects : Holders(inbox', e) \subseteq {f}
               \/ copies'[e] <= 1 /\ Holders(inbox', e) = {}
    <2>1. Holders(inbox', e) \subseteq Holders(inbox, e) /\ copies'[e] = copies[e]
      OBVIOUS
    <2>2. \/ copies[e] = 0 /\ \E f \in Connects : Holders(inbox, e) \subseteq {f}
          \/ copies[e] <= 1 /\ Holders(inbox, e) = {}
      BY DEF SingleInv
    <2> QED BY <2>1, <2>2
  <1> QED BY <1>1 DEF SingleInv

\* The only message about a trade is read.
LEMMA SingleRead ==
  ASSUME TypeOK, MessagesInv, SingleInv, NEW f \in Connects, ReadLoop(f)
  PROVE  SingleInv'
  <1> DEFINE h == Head(inbox[f])
  <1>1. /\ h \in Execs /\ f \in Holders(inbox, h)
        /\ Holders(inbox', h) = Holders(inbox, h) \ {f}
        /\ \A e : e # h => Holders(inbox', e) = Holders(inbox, e)
        /\ copies' = copies \/ copies' = [copies EXCEPT ![h] = @ + 1]
    BY ReadEffects
  <1> HIDE DEF h
  <1>2. copies[h] = 0 /\ \E g \in Connects : Holders(inbox, h) \subseteq {g}
    BY <1>1 DEF SingleInv
  <1>3. copies'[h] <= 1 /\ \A e \in Execs : e # h => copies'[e] = copies[e]
    BY <1>1, <1>2 DEF TypeOK
  <1>4. Holders(inbox', h) = {}
    BY <1>1, <1>2
  <1>5. ASSUME NEW e \in Execs
        PROVE  \/ copies'[e] = 0 /\ \E g \in Connects : Holders(inbox', e) \subseteq {g}
               \/ copies'[e] <= 1 /\ Holders(inbox', e) = {}
    <2>1. CASE e = h
      BY <1>3, <1>4, <2>1
    <2>2. CASE e # h
      BY <1>1, <1>3, <2>2 DEF SingleInv
    <2> QED BY <2>1, <2>2
  <1> QED BY <1>5 DEF SingleInv

\* A trade is reported on the one stream there is.
LEMMA SingleTrade ==
  ASSUME TypeOK, MessagesInv, SingleInv, socket["user"] \subseteq {userFeed},
         NEW o \in Orders, VenueTrades(o)
  PROVE  SingleInv'
  <1> DEFINE x == <<o, venue[o].trades + 1>>
  <1>1. /\ x \in Execs /\ copies[x] = 0
        /\ Holders(inbox', x) = socket["user"]
        /\ \A d : d # x => Holders(inbox', d) = Holders(inbox, d)
    BY TradeEffects
  <1>2. copies' = copies
    BY DEF VenueTrades
  <1> HIDE DEF x
  <1>3. socket["user"] \subseteq Connects
    BY DEF TypeOK, Kinds
  <1>4. ASSUME NEW e \in Execs
        PROVE  \/ copies'[e] = 0 /\ \E f \in Connects : Holders(inbox', e) \subseteq {f}
               \/ copies'[e] <= 1 /\ Holders(inbox', e) = {}
    <2>1. CASE e = x
      <3>1. copies'[e] = 0 /\ Holders(inbox', e) = socket["user"]
        BY <1>1, <1>2, <2>1
      <3>2. CASE userFeed \in Connects
        BY <3>1, <3>2
      <3>3. CASE userFeed \notin Connects
        <4>1. socket["user"] = {}
          BY <1>3, <3>3
        <4> QED BY <3>1, <4>1
      <3> QED BY <3>2, <3>3
    <2>2. CASE e # x
      BY <1>1, <1>2, <2>2 DEF SingleInv
    <2> QED BY <2>1, <2>2
  <1> QED BY <1>4 DEF SingleInv

-----------------------------------------------------------------------------
\* Orderly clients

\* What orderly clients rely on: OrderlyInv when they are orderly.
Remembers == ~panicked /\ RememberedInv /\ \A r \in Requests : InOrder(r)

\* Nothing changes for the requests; connections may break.
LEMMA RemembersStays ==
  ASSUME TypeOK, Remembers,
         UNCHANGED <<status, requestVars, userFeed, marketFeed, stopped, loops, cancelLoop, panicked>>,
         \A k \in Kinds : socket'[k] \subseteq socket[k]
  PROVE  Remembers'
  <1>1. LivePumps' = LivePumps /\ Subscribing' = Subscribing
    BY DEF LivePumps, Subscribing, requestVars
  <1>2. "user" \in Kinds /\ "market" \in Kinds
    BY DEF Kinds
  <1>3. \A r \in Requests : InOrder(r)'
    BY <1>1, <1>2 DEF Remembers, InOrder, requestVars
  <1>4. Quiet => Quiet'
    BY DEF Quiet
  <1>5. RememberedInv'
    BY <1>1, <1>2, <1>4 DEF Remembers, RememberedInv, requestVars
  <1> QED BY <1>3, <1>5 DEF Remembers

\* Of the other requests nothing is under way.
LEMMA OthersWait ==
  ASSUME OneAtATime, orderly, NEW r \in Requests, r \in InFlight
  PROVE  \A s \in Requests : s # r => pc[s] \notin {"connect", "register", "subscribe",
                                                    "forget", "disconnect"}
  BY DEF OneAtATime, InFlight

\* A request that waits or is done relies on nothing.
LEMMA WaitingInOrder ==
  ASSUME NEW r, pc[r] \notin {"connect", "register", "subscribe", "forget", "disconnect"}
  PROVE  InOrder(r)
  BY DEF InOrder

\* The steps of the handlers.
LEMMA HandlerRemembers ==
  ASSUME BinanceInv, HandlerStep, orderly'
  PROVE  Remembers'
  <1> USE DEF BinanceInv
  <1>1. UNCHANGED <<status, userFeed, marketFeed, stopped, socket, loops, cancelLoop, panicked>>
    BY DEF HandlerStep, feedVars
  <1>2. Quiet' = Quiet
    BY <1>1 DEF Quiet
  <1>3. PICK r \in Requests :
          /\ pc' \in [Requests -> Steps]
          /\ \A s \in Requests : s # r => pc'[s] = pc[s]
          /\ \/ /\ r \in Connects /\ pc[r] = "idle" /\ pc'[r] \in {"connect", "done"}
                /\ orderly' = (orderly /\ InFlight = {} /\ status = "Disconnected")
                /\ UNCHANGED <<mdCancel, pumps, ended>>
             \/ /\ r \in Connects /\ pc[r] = "register" /\ pc'[r] = "subscribe"
                /\ mdCancel' = r /\ UNCHANGED <<pumps, ended, orderly>>
             \/ /\ r \in Disconnects /\ pc[r] = "idle" /\ pc'[r] \in {"forget", "disconnect"}
                /\ orderly' = (orderly /\ InFlight = {} /\ status = "Connected")
                /\ ended' = ended \cup ({mdCancel} \ {NoRequest})
                /\ UNCHANGED <<mdCancel, pumps>>
             \/ /\ r \in Disconnects /\ pc[r] = "forget" /\ pc'[r] = "disconnect"
                /\ mdCancel' = NoRequest /\ UNCHANGED <<pumps, ended, orderly>>
    BY HandlerMoves
  <1>4. orderly /\ ~panicked /\ RememberedInv /\ \A s \in Requests : InOrder(s)
    BY <1>3 DEF OrderlyInv
  <1>5. \A s \in Requests : s # r => pc[s] \notin {"connect", "register", "subscribe",
                                                   "forget", "disconnect"}
    <2>1. CASE InFlight = {}
      BY <2>1 DEF InFlight
    <2>2. CASE InFlight # {}
      <3>1. r \in InFlight
        BY <1>3, <2>2 DEF InFlight
      <3> QED BY <1>4, <3>1, OthersWait
    <2> QED BY <2>1, <2>2
  <1>6. ASSUME NEW s \in Requests, s # r
        PROVE  InOrder(s)'
    BY <1>3, <1>5, <1>6 DEF InOrder
  <1>7. Connects \subseteq Requests /\ (r \in Connects => r \notin Disconnects)
    BY RequestAssumption DEF Requests
  <1>8. NoRequest \notin pumps
    BY <1>7, RequestAssumption DEF TypeOK, RequestTypes
  <1>9. CASE r \in Connects /\ pc[r] = "idle"
    <2>1. /\ pc'[r] \in {"connect", "done"} /\ status = "Disconnected" /\ InFlight = {}
          /\ UNCHANGED <<mdCancel, pumps, ended>>
      BY <1>3, <1>7, <1>9
    <2>2. LivePumps' = LivePumps
      BY <2>1 DEF LivePumps
    <2>3. RememberedInv'
      BY <1>1, <1>2, <1>4, <2>1, <2>2 DEF RememberedInv
    <2>4. InOrder(r)'
      BY <1>1, <1>7, <1>9, <2>1 DEF InOrder
    <2> QED BY <1>1, <1>4, <1>6, <2>3, <2>4 DEF Remembers
  <1>10. CASE r \in Connects /\ pc[r] = "register"
    <2>1. pc'[r] = "subscribe" /\ mdCancel' = r /\ UNCHANGED <<pumps, ended>>
      BY <1>3, <1>7, <1>10
    <2>2. /\ status = "Connected" /\ LivePumps = {} /\ LivePumps' = {}
          /\ socket["market"] = {}
      BY <1>4, <1>10, <2>1 DEF InOrder, LivePumps
    <2>3. Subscribing'
      BY <1>10, <2>1 DEF Subscribing
    <2>4. RememberedInv'
      BY <1>1, <1>2, <1>4, <2>2, <2>3 DEF RememberedInv
    <2>5. InOrder(r)'
      BY <1>1, <1>7, <1>10, <2>1, <2>2 DEF InOrder
    <2> QED BY <1>1, <1>4, <1>6, <2>4, <2>5 DEF Remembers
  <1>11. CASE r \in Disconnects
    <2>1. /\ status = "Connected" /\ LivePumps' = {}
          /\ pc[r] \in {"idle", "forget"} /\ pc'[r] \in {"forget", "disconnect"}
      <3>1. CASE pc[r] = "idle"
        <4>1. /\ status = "Connected" /\ ended' = ended \cup ({mdCancel} \ {NoRequest})
              /\ pumps' = pumps /\ pc'[r] \in {"forget", "disconnect"}
          BY <1>3, <1>7, <1>11, <3>1
        <4>2. LivePumps \subseteq {mdCancel}
          BY <1>4 DEF RememberedInv
        <4>3. LivePumps' = {}
          BY <1>8, <4>1, <4>2 DEF LivePumps
        <4> QED BY <3>1, <4>1, <4>3
      <3>2. CASE pc[r] = "forget"
        <4>1. pc'[r] = "disconnect" /\ UNCHANGED <<pumps, ended>>
          BY <1>3, <1>7, <1>11, <3>2
        <4>2. status = "Connected" /\ LivePumps = {}
          BY <1>4, <1>11, <3>2 DEF InOrder
        <4> QED BY <3>2, <4>1, <4>2 DEF LivePumps
      <3> QED BY <1>3, <1>7, <1>11, <3>1, <3>2
    <2>2. Subscribing' = Subscribing
      <3>1. \A s \in Connects : pc'[s] = pc[s]
        BY <1>3, <1>7, <1>11
      <3> QED BY <3>1 DEF Subscribing
    <2>3. RememberedInv'
      BY <1>1, <1>2, <1>4, <2>1, <2>2 DEF RememberedInv
    <2>4. InOrder(r)'
      BY <1>1, <1>7, <1>11, <2>1 DEF InOrder
    <2> QED BY <1>1, <1>4, <1>6, <2>3, <2>4 DEF Remembers
  <1> QED BY <1>3, <1>9, <1>10, <1>11

\* What orderly clients have before a step of theirs, and what the step leaves
\* to the other requests.
LEMMA StepsInOrder ==
  ASSUME BinanceInv, orderly, NEW r \in Requests,
         pc[r] \in {"connect", "subscribe", "disconnect"}, pc'[r] # "connect",
         \A s \in Requests : s # r => pc'[s] = pc[s]
  PROVE  /\ Remembers /\ InOrder(r)
         /\ \A s \in Requests : s # r => InOrder(s)'
         /\ r \notin Connects \/ pc'[r] \notin {"register", "subscribe"} => ~Subscribing'
         /\ pc[r] # "subscribe" => ~Subscribing
  <1>1. Remembers
    BY DEF BinanceInv, OrderlyInv, Remembers
  <1>2. r \in InFlight
    BY DEF InFlight
  <1>3. \A s \in Requests : s # r => pc[s] \notin {"connect", "register", "subscribe",
                                                   "forget", "disconnect"}
    BY <1>2, OthersWait DEF BinanceInv
  <1>4. \A s \in Requests : s # r => InOrder(s)'
    BY <1>3 DEF InOrder
  <1>5. Connects \subseteq Requests
    BY DEF Requests
  <1>6. r \notin Connects \/ pc'[r] \notin {"register", "subscribe"} => ~Subscribing'
    BY <1>3, <1>5 DEF Subscribing
  <1>7. pc[r] # "subscribe" => ~Subscribing
    BY <1>3, <1>5 DEF Subscribing
  <1> QED BY <1>1, <1>4, <1>6, <1>7 DEF Remembers

\* The step of a connect request.
LEMMA ConnectRemembers ==
  ASSUME BinanceInv, NEW r \in Connects, Connect(r), orderly'
  PROVE  Remembers'
  <1> USE DEF BinanceInv
  <1>1. /\ UNCHANGED <<mdCancel, pumps, ended, orderly, marketFeed, stopped, panicked>>
        /\ LivePumps' = LivePumps /\ r \in Connects /\ r \notin Disconnects
    BY RequestAssumption DEF Connect, LivePumps
  <1>2. /\ r \in Requests /\ pc[r] = "connect" /\ pc'[r] \in {"done", "register"}
        /\ \A s \in Requests : s # r => pc'[s] = pc[s]
    BY ConnectEffects
  <1>3. /\ Remembers /\ InOrder(r)
        /\ \A s \in Requests : s # r => InOrder(s)'
        /\ pc'[r] = "done" => ~Subscribing'
        /\ ~Subscribing
    BY <1>1, <1>2, StepsInOrder
  <1>4. /\ status = "Disconnected" /\ Quiet /\ LivePumps = {}
        /\ socket["user"] = {} /\ socket["market"] = {}
    BY <1>1, <1>2, <1>3 DEF InOrder, Remembers, RememberedInv, Quiet, Kinds
  <1>5. r \notin stopped["user"]
    BY <1>2 DEF FreshInv
  <1>6. CASE /\ userFeed' \in {userFeed, r} /\ pc'[r] = "done"
             /\ UNCHANGED <<status, socket, loops, cancelLoop>>
    <2>1. Quiet'
      BY <1>4, <1>6 DEF Quiet
    <2>2. RememberedInv'
      BY <1>1, <1>4, <1>6, <2>1, <1>3 DEF RememberedInv, Quiet
    <2>3. InOrder(r)'
      BY <1>1, <1>6 DEF InOrder
    <2> QED BY <1>1, <1>3, <2>2, <2>3 DEF Remembers
  <1>7. CASE /\ userFeed' = r /\ pc'[r] = IF Aggregating THEN "register" ELSE "done"
             /\ socket'["user"] = socket["user"] \cup {r}
             /\ socket'["market"] = socket["market"]
             /\ loops' = loops \cup {r} /\ cancelLoop' = r
             /\ status' = "Connected"
    <2>1. /\ socket'["user"] = {r} /\ socket'["market"] = {} /\ loops' = {r}
          /\ LivePumps' = {} /\ userFeed' \notin stopped'["user"]
      BY <1>1, <1>4, <1>5, <1>7 DEF Quiet
    <2>2. ~Subscribing' => marketFeed' \notin stopped'["market"]
      <3>1. CASE Aggregating
        BY <1>2, <1>7, <3>1 DEF Subscribing
      <3>2. CASE ~Aggregating
        <4>1. marketFeed' = NoRequest /\ stopped'["market"] \subseteq Connects
          BY <1>1, <3>2 DEF AggregatingInv, TypeOK, Kinds
        <4> QED BY <4>1, RequestAssumption DEF Requests
      <3> QED BY <3>1, <3>2
    <2>3. RememberedInv'
      BY <1>7, <2>1, <2>2 DEF RememberedInv
    <2>4. InOrder(r)'
      BY <1>1, <1>2, <1>7, <2>1 DEF InOrder
    <2> QED BY <1>1, <1>3, <2>3, <2>4 DEF Remembers
  <1> QED BY <1>6, <1>7, ConnectEffects

\* Subscribing to market data.
LEMMA SubscribeRemembers ==
  ASSUME BinanceInv, NEW r \in Connects, SubscribeMarketData(r), orderly'
  PROVE  Remembers'
  <1> USE DEF BinanceInv
  <1>1. /\ UNCHANGED <<status, orderly, userFeed, stopped, loops, cancelLoop, panicked>>
        /\ r \notin Disconnects
    BY RequestAssumption DEF SubscribeMarketData, Subscribed
  <1>2. /\ r \in Requests /\ pc[r] = "subscribe" /\ pc'[r] = "done"
        /\ \A s \in Requests : s # r => pc'[s] = pc[s]
        /\ socket'["user"] = socket["user"]
        /\ \/ status # "Connected" /\ UNCHANGED <<marketFeed, socket>>
           \/ /\ status = "Connected" /\ marketFeed' = r
              /\ socket'["market"] \subseteq socket["market"] \cup {r}
        /\ \/ pumps' = pumps \cup {r} /\ UNCHANGED <<mdCancel, ended>>
           \/ UNCHANGED pumps /\ ended' = ended \cup {r} /\ mdCancel' = NoRequest
    BY SubscribeEffects
  <1>3. /\ Remembers /\ InOrder(r)
        /\ \A s \in Requests : s # r => InOrder(s)'
        /\ ~Subscribing'
    BY <1>1, <1>2, StepsInOrder
  <1>4. status = "Connected" /\ LivePumps = {} /\ mdCancel = r
    BY <1>1, <1>2, <1>3 DEF InOrder
  <1>5. marketFeed' = r /\ r \notin stopped["market"]
    BY <1>2, <1>4 DEF FreshInv
  <1>6. LivePumps' \subseteq {mdCancel'}
    BY <1>2, <1>4 DEF LivePumps
  <1>7. socket'["market"] \subseteq {marketFeed'}
    <2>1. socket["market"] = {}
      BY <1>1, <1>2, <1>3 DEF InOrder
    <2> QED BY <1>2, <1>4, <1>5, <2>1
  <1>8. RememberedInv'
    BY <1>1, <1>2, <1>3, <1>4, <1>5, <1>6, <1>7 DEF Remembers, RememberedInv
  <1>9. InOrder(r)'
    BY <1>1, <1>2 DEF InOrder
  <1> QED BY <1>1, <1>3, <1>8, <1>9 DEF Remembers

\* Disconnecting.
LEMMA DisconnectRemembers ==
  ASSUME BinanceInv, NEW r \in Disconnects, Disconnect(r), orderly'
  PROVE  Remembers'
  <1> USE DEF BinanceInv
  <1>1. /\ UNCHANGED <<mdCancel, pumps, ended, orderly, userFeed, marketFeed, cancelLoop>>
        /\ LivePumps' = LivePumps /\ r \notin Connects /\ r \in Disconnects
    BY RequestAssumption DEF Disconnect, LivePumps
  <1>2. /\ r \in Requests /\ pc[r] = "disconnect" /\ pc'[r] = "done"
        /\ \A s \in Requests : s # r => pc'[s] = pc[s]
    BY DisconnectMoves
  <1>3. /\ Remembers /\ InOrder(r)
        /\ \A s \in Requests : s # r => InOrder(s)'
        /\ ~Subscribing
    BY <1>1, <1>2, StepsInOrder
  <1>4. status = "Connected" /\ LivePumps = {}
    BY <1>1, <1>2, <1>3 DEF InOrder
  <1>5. userFeed \notin stopped["user"] /\ marketFeed \notin stopped["market"]
    BY <1>3, <1>4 DEF Remembers, RememberedInv
  <1>6. status' = "Disconnected" /\ panicked' = panicked /\ loops' = loops \ {cancelLoop}
    BY <1>5 DEF Disconnect, StopPanics
  <1>7. loops' = {}
    BY <1>3, <1>6 DEF Remembers, RememberedInv
  <1>8. socket'["user"] = {} /\ socket'["market"] = {}
    <2>1. /\ socket'["user"] = socket["user"] \ ({userFeed} \ {NoRequest})
          /\ socket'["market"] = socket["market"] \ ({marketFeed} \ {NoRequest})
      BY <1>5, DisconnectEffects DEF Closing, StopPanics, Kinds
    <2>2. NoRequest \notin socket["user"] /\ NoRequest \notin socket["market"]
      BY RequestAssumption DEF TypeOK, Kinds, Requests
    <2>3. socket["user"] \subseteq {userFeed} /\ socket["market"] \subseteq {marketFeed}
      BY <1>3 DEF Remembers, RememberedInv
    <2> QED BY <2>1, <2>2, <2>3
  <1>9. RememberedInv'
    BY <1>1, <1>4, <1>6, <1>7, <1>8 DEF RememberedInv, Quiet, Kinds
  <1>10. InOrder(r)'
    BY <1>1, <1>2 DEF InOrder
  <1> QED BY <1>3, <1>6, <1>9, <1>10 DEF Remembers

\* Every step keeps OrderlyInv.
LEMMA OrderlyPreserved ==
  ASSUME BinanceInv, Next
  PROVE  OrderlyInv'
  <1> USE DEF BinanceInv
  <1> SUFFICES ASSUME orderly' PROVE Remembers' /\ SingleInv'
    BY DEF OrderlyInv, Remembers
  <1>0. orderly
    <2>1. HandlerStep => orderly
      BY HandlerMoves
    <2>2. ~HandlerStep => orderly' = orderly
      BY DEF Next, Connect, SubscribeMarketData, Subscribed, Disconnect, ReadLoop, SocketBreaks,
             CollectFill, SubmitOrder, SubmitAnswer, VenueTrades, CancelOrder, CancelTry,
             requestVars
    <2> QED BY <2>1, <2>2
  <1>1. Remembers /\ SingleInv
    BY <1>0 DEF OrderlyInv, Remembers
  <1>2. ASSUME inbox' = inbox, copies' = copies PROVE SingleInv'
    BY <1>1, <1>2, SingleShrinks
  <1>3. CASE HandlerStep
    BY <1>2, <1>3, HandlerRemembers DEF HandlerStep, feedVars
  <1>4. ASSUME NEW r \in Connects, Connect(r) PROVE Remembers' /\ SingleInv'
    BY <1>2, <1>4, ConnectRemembers DEF Connect
  <1>5. ASSUME NEW r \in Connects, SubscribeMarketData(r) PROVE Remembers' /\ SingleInv'
    BY <1>2, <1>5, SubscribeRemembers DEF SubscribeMarketData
  <1>6. ASSUME NEW r \in Disconnects, Disconnect(r) PROVE Remembers' /\ SingleInv'
    <2>1. \A e : Holders(inbox', e) \subseteq Holders(inbox, e)
      BY <1>6, DisconnectEffects
    <2>2. copies' = copies
      BY <1>6 DEF Disconnect
    <2> QED BY <1>1, <1>6, <2>1, <2>2, DisconnectRemembers, SingleShrinks
  <1>7. ASSUME NEW f \in Connects, ReadLoop(f) PROVE Remembers' /\ SingleInv'
    BY <1>1, <1>7, RemembersStays, SingleRead DEF ReadLoop
  <1>8. ASSUME NEW f \in Connects, SocketBreaks(f) PROVE Remembers' /\ SingleInv'
    <2>1. /\ \A e : Holders(inbox', e) \subseteq Holders(inbox, e)
          /\ \A k \in Kinds : socket'[k] \subseteq socket[k]
      BY <1>8, BreakEffects
    <2>2. copies' = copies
      BY <1>8 DEF SocketBreaks
    <2>3. SingleInv'
      BY <1>1, <2>1, <2>2, SingleShrinks
    <2>4. Remembers'
      BY <1>1, <1>8, <2>1, RemembersStays DEF SocketBreaks
    <2> QED BY <2>3, <2>4
  <1>9. CASE CollectFill
    BY <1>1, <1>2, <1>9, RemembersStays DEF CollectFill, feedVars
  <1>10. ASSUME NEW o \in Orders, SubmitOrder(o) \/ SubmitAnswer(o) \/ CancelOrder(o) \/ CancelTry(o)
         PROVE  Remembers' /\ SingleInv'
    BY <1>1, <1>2, <1>10, RemembersStays
       DEF SubmitOrder, SubmitAnswer, CancelOrder, CancelTry, feedVars
  <1>11. ASSUME NEW o \in Orders, VenueTrades(o) PROVE Remembers' /\ SingleInv'
    <2>1. socket["user"] \subseteq {userFeed}
      BY <1>1 DEF Remembers, RememberedInv
    <2>2. SingleInv'
      BY <1>1, <1>11, <2>1, SingleTrade
    <2>3. Remembers'
      BY <1>1, <1>11, RemembersStays DEF VenueTrades
    <2> QED BY <2>2, <2>3
  <1> QED BY <1>3, <1>4, <1>5, <1>6, <1>7, <1>8, <1>9, <1>10, <1>11 DEF Next

-----------------------------------------------------------------------------
\* The invariant

\* The invariant holds at first.
LEMMA BinanceStarts == Init => BinanceInv
  <1> SUFFICES ASSUME Init PROVE BinanceInv
    OBVIOUS
  <1>1. TypeOK
    <2>1. << >> \in Seq(Execs)
      OBVIOUS
    <2>2. 0 \in 0 .. FillCap
      BY BinanceAssumption
    <2> QED BY <2>1, <2>2 DEF Init, TypeOK, RequestInit, RequestTypes, Steps
  <1>2. MessagesInv
    BY DEF Init, MessagesInv, IsInjective, Holders
  <1>3. CallsInv
    BY DEF Init, CallsInv
  <1>4. InFlight = {}
    BY DEF Init, RequestInit, InFlight
  <1>5. OneAtATime
    BY <1>4 DEF OneAtATime
  <1>6. Connects \subseteq Requests /\ NoRequest \notin Connects
    BY RequestAssumption DEF Requests
  <1>7. FreshInv /\ AggregatingInv
    BY <1>6 DEF Init, RequestInit, FreshInv, AggregatingInv, Kinds
  <1>8. LivePumps = {} /\ Quiet
    BY DEF Init, RequestInit, LivePumps, Quiet
  <1>9. RememberedInv
    BY <1>8 DEF Init, RequestInit, RememberedInv, Kinds
  <1>10. SingleInv
    BY DEF Init, SingleInv, Holders
  <1>11. \A r \in Requests : InOrder(r)
    BY DEF Init, RequestInit, InOrder
  <1>12. OrderlyInv
    BY <1>9, <1>10, <1>11 DEF Init, OrderlyInv
  <1> QED BY <1>1, <1>2, <1>3, <1>5, <1>7, <1>12 DEF BinanceInv

\* A step that changes nothing keeps the invariant.
LEMMA BinanceStutters ==
  ASSUME BinanceInv, UNCHANGED vars
  PROVE  BinanceInv'
  <1> USE DEF BinanceInv, vars, requestVars, feedVars, orderVars
  <1>1. TypeOK'
    BY DEF TypeOK, RequestTypes
  <1>2. MessagesInv' /\ CallsInv'
    BY DEF MessagesInv, CallsInv
  <1>3. FreshInv' /\ AggregatingInv'
    BY DEF FreshInv, AggregatingInv
  <1>4. InFlight' = InFlight
    BY DEF InFlight
  <1>5. OneAtATime'
    BY <1>4 DEF OneAtATime
  <1>6. SingleInv => SingleInv'
    BY DEF SingleInv
  <1>7. Remembers => Remembers'
    BY RemembersStays
  <1>8. OrderlyInv'
    BY <1>6, <1>7 DEF OrderlyInv, Remembers
  <1> QED BY <1>1, <1>2, <1>3, <1>5, <1>8

\* The Binance adapter keeps its invariant.
THEOREM BinanceInvariance == Spec => []BinanceInv
  <1>1. BinanceInv /\ [Next]_vars => BinanceInv'
    <2> SUFFICES ASSUME BinanceInv, [Next]_vars PROVE BinanceInv'
      OBVIOUS
    <2>1. CASE Next
      BY <2>1, TypesPreserved, MessagesPreserved, CallsPreserved, FreshPreserved, OnePreserved,
         OrderlyPreserved DEF BinanceInv
    <2> QED BY <2>1, BinanceStutters
  <1> QED BY <1>1, BinanceStarts, PTL DEF Spec

\* Every variable of the adapter stays in its type: the channel of fills among
\* them, which never holds more than its capacity.
THEOREM BinanceTypes == Spec => []TypeOK
  BY BinanceInvariance, PTL DEF BinanceInv

\* For clients that act in order every trade becomes at most one fill.
THEOREM AtMostOneFill == Spec => []AtMostOnceInOrder
  <1>1. ASSUME BinanceInv, orderly, NEW e \in Execs
        PROVE  copies[e] <= 1
    BY <1>1 DEF BinanceInv, OrderlyInv, SingleInv
  <1>2. BinanceInv => AtMostOnceInOrder
    BY <1>1 DEF AtMostOnceInOrder
  <1> QED BY <1>2, BinanceInvariance, PTL

\* For clients that act in order no Disconnect panics.
THEOREM NoPanic == Spec => []NoPanicInOrder
  <1>1. BinanceInv => NoPanicInOrder
    BY DEF BinanceInv, OrderlyInv, NoPanicInOrder
  <1> QED BY <1>1, BinanceInvariance, PTL

\* When clients that act in order have disconnected nothing of the connection
\* is left.
THEOREM QuietAfterDisconnect == Spec => []QuietWhenDisconnected
  <1>1. BinanceInv => QuietWhenDisconnected
    BY DEF BinanceInv, OrderlyInv, RememberedInv, Quiet, QuietWhenDisconnected
  <1> QED BY <1>1, BinanceInvariance, PTL

-----------------------------------------------------------------------------
\* The contract of FillFeed()

StreamOpen == Cardinality(socket["user"])
StreamDue  == [e \in Execs |-> Due(e)]

\* However many requests there may be, finitely many streams are open, and
\* finitely many messages under way, at any time.
FiniteInv == /\ IsFiniteSet(socket["user"])
             /\ \A e \in Execs : IsFiniteSet(Holders(inbox, e))

\* Messages are lost and connections with them.
LEMMA StreamsClose ==
  ASSUME FiniteInv, socket'["user"] \subseteq socket["user"],
         copies' = copies, \A e : Holders(inbox', e) \subseteq Holders(inbox, e)
  PROVE  Stream!CloseStreams /\ FiniteInv'
  <1>1. IsFiniteSet(socket["user"]) /\ \A e \in Execs : IsFiniteSet(Holders(inbox, e))
    BY DEF FiniteInv
  <1>2. StreamOpen' \in 0 .. StreamOpen /\ IsFiniteSet(socket'["user"])
    <2>1. /\ Cardinality(socket["user"]) \in Nat /\ Cardinality(socket'["user"]) \in Nat
          /\ Cardinality(socket'["user"]) <= Cardinality(socket["user"])
          /\ IsFiniteSet(socket'["user"])
      BY <1>1, HoldersCounted
    <2> QED BY <2>1 DEF StreamOpen
  <1>3. ASSUME NEW e \in Execs
        PROVE  /\ Due(e)' \in Nat /\ Due(e)' <= Due(e)
               /\ IsFiniteSet(Holders(inbox', e))
    <2>1. /\ Cardinality(Holders(inbox', e)) \in Nat
          /\ Cardinality(Holders(inbox', e)) <= Cardinality(Holders(inbox, e))
          /\ IsFiniteSet(Holders(inbox', e))
      BY <1>1, HoldersCounted
    <2> QED BY <2>1 DEF Due, Holders
  <1>4. /\ StreamDue' \in [Execs -> Nat]
        /\ \A e \in Execs : StreamDue'[e] <= StreamDue[e]
    BY <1>3 DEF StreamDue
  <1>5. Stream!CloseStreams
    BY <1>2, <1>4 DEF Stream!CloseStreams, StreamOpen, StreamDue
  <1> QED BY <1>2, <1>3, <1>5 DEF FiniteInv

\* Streams and messages stay as they are for the contract.
LEMMA StreamsStay ==
  ASSUME FiniteInv, socket'["user"] = socket["user"], inbox' = inbox, copies' = copies
  PROVE  UNCHANGED Stream!vars /\ FiniteInv'
  BY DEF Stream!vars, Due, FiniteInv, Holders

\* A report that was read becomes a fill or is dropped.
LEMMA ReadStreams ==
  ASSUME FiniteInv, BinanceInv, NEW f \in Connects, ReadLoop(f)
  PROVE  Stream!Next /\ FiniteInv'
  <1> USE DEF BinanceInv
  <1> DEFINE h == Head(inbox[f])
  <1>1. /\ h \in Execs /\ f \in Holders(inbox, h)
        /\ Holders(inbox', h) = Holders(inbox, h) \ {f}
        /\ \A e : e # h => Holders(inbox', e) = Holders(inbox, e)
        /\ copies' = copies \/ copies' = [copies EXCEPT ![h] = @ + 1]
    BY ReadEffects
  <1>2. socket' = socket
    BY DEF ReadLoop
  <1> HIDE DEF h
  <1>3. IsFiniteSet(Holders(inbox, h))
    BY <1>1 DEF FiniteInv
  <1>4. \A e : Due(e) = Cardinality(Holders(inbox, e)) /\ Due(e)' = Cardinality(Holders(inbox', e))
    BY DEF Due, Holders
  <1>5. /\ Cardinality(Holders(inbox, h)) \in Nat
        /\ Cardinality(Holders(inbox, h)) > 0
        /\ Cardinality(Holders(inbox', h)) = Cardinality(Holders(inbox, h)) - 1
    <2>1. /\ Cardinality(Holders(inbox, h)) \in Nat
          /\ Cardinality(Holders(inbox, h)) # 0
          /\ Cardinality(Holders(inbox, h) \ {f}) = Cardinality(Holders(inbox, h)) - 1
      BY <1>1, <1>3, HoldersCounted
    <2> QED BY <1>1, <2>1
  <1>6. StreamDue[h] > 0 /\ StreamDue' = [StreamDue EXCEPT ![h] = @ - 1]
    BY <1>1, <1>4, <1>5 DEF StreamDue
  <1>7. ASSUME copies' = copies PROVE Stream!Next
    BY <1>1, <1>2, <1>6, <1>7 DEF Stream!Next, Stream!Drop, StreamDue
  <1>8. ASSUME copies' = [copies EXCEPT ![h] = @ + 1] PROVE Stream!Next
    BY <1>1, <1>2, <1>6, <1>8 DEF Stream!Next, Stream!Report, StreamDue
  <1>9. FiniteInv'
    <2>1. IsFiniteSet(Holders(inbox', h))
      BY <1>1, <1>3, HoldersCounted
    <2> QED BY <1>1, <1>2, <2>1 DEF FiniteInv
  <1> QED BY <1>1, <1>7, <1>8, <1>9

\* A trade at the venue is told to every open stream.
LEMMA TradeStreams ==
  ASSUME FiniteInv, BinanceInv, NEW o \in Orders, VenueTrades(o)
  PROVE  Stream!Next /\ FiniteInv'
  <1> USE DEF BinanceInv
  <1> DEFINE x == <<o, venue[o].trades + 1>>
  <1>1. /\ x \in Execs /\ Holders(inbox, x) = {} /\ copies[x] = 0
        /\ Holders(inbox', x) = socket["user"]
        /\ \A d : d # x => Holders(inbox', d) = Holders(inbox, d)
    BY TradeEffects
  <1>2. socket' = socket /\ copies' = copies
    BY DEF VenueTrades
  <1> HIDE DEF x
  <1>3. \A e : Due(e) = Cardinality(Holders(inbox, e)) /\ Due(e)' = Cardinality(Holders(inbox', e))
    BY DEF Due, Holders
  <1>4. StreamDue[x] = 0 /\ StreamDue' = [StreamDue EXCEPT ![x] = StreamOpen]
    BY <1>1, <1>3, FS_EmptySet DEF StreamDue, StreamOpen
  <1>5. Stream!Execute(x)
    BY <1>1, <1>2, <1>4 DEF Stream!Execute, StreamDue, StreamOpen
  <1>6. FiniteInv'
    BY <1>1, <1>2 DEF FiniteInv
  <1> QED BY <1>1, <1>5, <1>6 DEF Stream!Next

\* Every trade is reported at most once per user stream that was open when it
\* happened, for any set of requests: the adapter keeps the contract of
\* FillFeed().
THEOREM FillsFollow == Spec => FillsFollowStream
  <1>1. Init => Stream!Init /\ FiniteInv
    <2> SUFFICES ASSUME Init PROVE Stream!Init /\ FiniteInv
      OBVIOUS
    <2>1. socket["user"] = {}
      BY DEF Init, Kinds
    <2>2. ASSUME NEW e \in Execs PROVE Due(e) = 0
      <3>1. {f \in Connects : \E i \in DOMAIN inbox[f] : inbox[f][i] = e} = {}
        BY DEF Init
      <3> QED BY <3>1, FS_EmptySet DEF Due
    <2>3. Stream!Init
      BY <2>1, <2>2, FS_EmptySet DEF Stream!Init, Init
    <2>4. ASSUME NEW e \in Execs PROVE Holders(inbox, e) = {}
      BY DEF Init, Holders
    <2> QED BY <2>1, <2>3, <2>4, FS_EmptySet DEF FiniteInv
  <1>2. BinanceInv /\ FiniteInv /\ [Next]_vars => [Stream!Next]_(Stream!vars) /\ FiniteInv'
    <2> DEFINE Follows == (Stream!Next \/ UNCHANGED Stream!vars) /\ FiniteInv'
    <2> SUFFICES ASSUME BinanceInv, FiniteInv, [Next]_vars
                 PROVE  Follows
      OBVIOUS
    <2> USE DEF BinanceInv
    <2>1. ASSUME NEW r \in Connects, Connect(r)
          PROVE  Follows
      <3>1. inbox' = inbox /\ copies' = copies
        BY <2>1 DEF Connect
      <3>2. CASE socket' = socket
        BY <3>1, <3>2, StreamsStay
      <3>3. CASE socket'["user"] = socket["user"] \cup {r}
        <4>2. r \notin socket["user"]
          BY <2>1 DEF FreshInv, Connect
        <4>3. StreamOpen' = StreamOpen + 1 /\ IsFiniteSet(socket'["user"])
          BY <3>3, <4>2, HoldersCounted DEF StreamOpen, FiniteInv
        <4>4. Stream!OpenStream
          BY <3>1, <4>3 DEF Stream!OpenStream, StreamOpen, Due
        <4>5. FiniteInv'
          BY <3>1, <4>3 DEF FiniteInv, Holders
        <4> QED BY <4>4, <4>5 DEF Stream!Next
      <3> QED BY <2>1, <3>2, <3>3, ConnectEffects
    <2>2. ASSUME NEW r \in Connects, SubscribeMarketData(r) PROVE Follows
      <3>1. socket'["user"] = socket["user"]
        BY <2>2, SubscribeEffects
      <3> QED BY <2>2, <3>1, StreamsStay DEF SubscribeMarketData
    <2>3. ASSUME NEW r \in Disconnects, Disconnect(r) PROVE Follows
      <3>1. /\ \A e : Holders(inbox', e) \subseteq Holders(inbox, e)
            /\ socket'["user"] \subseteq socket["user"]
        BY <2>3, DisconnectEffects DEF Kinds
      <3>2. copies' = copies
        BY <2>3 DEF Disconnect
      <3> QED BY <3>1, <3>2, StreamsClose DEF Stream!Next
    <2>4. ASSUME NEW f \in Connects, SocketBreaks(f) PROVE Follows
      <3>1. /\ \A e : Holders(inbox', e) \subseteq Holders(inbox, e)
            /\ socket'["user"] \subseteq socket["user"]
        BY <2>4, BreakEffects DEF Kinds
      <3>2. copies' = copies
        BY <2>4 DEF SocketBreaks
      <3> QED BY <3>1, <3>2, StreamsClose DEF Stream!Next
    <2>5. ASSUME NEW f \in Connects, ReadLoop(f) PROVE Follows
      BY <2>5, ReadStreams
    <2>6. ASSUME NEW o \in Orders, VenueTrades(o) PROVE Follows
      BY <2>6, TradeStreams
    <2>7. CASE \/ HandlerStep \/ CollectFill \/ UNCHANGED vars
               \/ \E o \in Orders : SubmitOrder(o) \/ SubmitAnswer(o) \/ CancelOrder(o) \/ CancelTry(o)
      BY <2>7, StreamsStay
         DEF HandlerStep, CollectFill, SubmitOrder, SubmitAnswer, CancelOrder, CancelTry, vars,
             feedVars
    <2> QED BY <2>1, <2>2, <2>3, <2>4, <2>5, <2>6, <2>7 DEF Next
  <1> QED BY <1>1, <1>2, BinanceInvariance, PTL DEF Spec, FillsFollowStream, Stream!Spec
=============================================================================
