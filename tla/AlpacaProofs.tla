---------------------------- MODULE AlpacaProofs ----------------------------
(***************************************************************************)
(* Theorems about the Alpaca adapter, for any requests, orders and fills.  *)
(***************************************************************************)
EXTENDS AlpacaAdapter, VenueRequestsProofs

-----------------------------------------------------------------------------
\* The inductive invariant

\* A feed that took a message after its context had ended does not read again.
LateInv ==
  \A f \in Connects : late[f] = 0 \/ (late[f] = 1 /\ run["trade"][f] \in {"close", "ended"})

\* A message is in an inbox once, and is about an execution that was made; so
\* is a fill.
MessagesInv ==
  /\ \A f \in Connects : IsInjective(inbox[f])
  /\ \A e \in Execs : Holders(inbox, e) # {} \/ copies[e] > 0 => e[2] <= venue[e[1]].fills

Starting == {"startMarket", "startTrade"}
BeforeMarket == {"idle", "connect", "ping", "feeds", "startMarket"}
BeforeTrade  == BeforeMarket \cup {"startTrade"}
PingedSteps  == {"feeds", "startMarket", "startTrade", "setStatus"}

\* What a connect request of orderly clients may rely on between two of its
\* steps: the venue is disconnected, the feeds are its own and not started, and
\* the credential is the one that was accepted.
ConnectInv(r) ==
  /\ pc[r] \in BeforeMarket => run["market"][r] = "new"
  /\ pc[r] \in BeforeTrade  => run["trade"][r] = "new"
  /\ pc[r] \in Starting => \A k \in Kinds : current[k] = r
  /\ r \in InFlight => status = "Disconnected"
  /\ pc[r] \in PingedSteps => verified

OrderlyInv ==
  orderly =>
    /\ ~crashed
    /\ status = "Connected" => verified
    /\ \A r \in Connects : ConnectInv(r)

AlpacaInv == TypeOK /\ LateInv /\ MessagesInv /\ OneAtATime /\ OrderlyInv

-----------------------------------------------------------------------------
\* Lemmas about executions and feeds

\* An execution is one of the fills an order may get.
LEMMA ExecFields ==
  /\ \A e \in Execs : e[1] \in Orders /\ e[2] \in 1 .. Lots[e[1]] /\ e = <<e[1], e[2]>>
  /\ \A o \in Orders : \A n \in 1 .. Lots[o] : <<o, n>> \in Execs
  BY DEF Execs

RunStates == {"new", "dial", "read", "close", "ended"}

\* What an assignment to the state of one feed's goroutine does.
LEMMA OneRuns ==
  ASSUME TypeOK, NEW kind \in Kinds, NEW f \in Connects, NEW x \in RunStates,
         run' = [run EXCEPT ![kind][f] = x]
  PROVE  /\ run' \in [Kinds -> [Connects -> RunStates]]
         /\ run'[kind][f] = x
         /\ \A k \in Kinds, g \in Connects : k # kind \/ g # f => run'[k][g] = run[k][g]
  <1>1. run \in [Kinds -> [Connects -> RunStates]]
    BY DEF TypeOK, RunStates
  <1> QED BY <1>1

\* A goroutine goes on, or ends when it is canceled.
LEMMA FeedGoesOn ==
  ASSUME TypeOK, NEW kind \in Kinds, NEW f \in Connects,
         NEW step \in RunStates, NEW otherwise \in RunStates,
         GoesOn(kind, f, step, otherwise)
  PROVE  /\ run' \in [Kinds -> [Connects -> RunStates]]
         /\ run'[kind][f] = IF Canceled(kind, f) THEN otherwise ELSE step
         /\ \A k \in Kinds, g \in Connects : k # kind \/ g # f => run'[k][g] = run[k][g]
  <1> DEFINE x == IF Canceled(kind, f) THEN otherwise ELSE step
  <1>1. x \in RunStates /\ run' = [run EXCEPT ![kind][f] = x]
    BY DEF GoesOn
  <1> HIDE DEF x
  <1>2. /\ run' \in [Kinds -> [Connects -> RunStates]]
        /\ run'[kind][f] = x
        /\ \A k \in Kinds, g \in Connects : k # kind \/ g # f => run'[k][g] = run[k][g]
    <2>1. run \in [Kinds -> [Connects -> RunStates]]
      BY DEF TypeOK, RunStates
    <2> QED BY <1>1, <2>1
  <1> QED BY <1>2 DEF x

\* What a step of a goroutine that dials, loses or closes its connection does.
LEMMA FeedEffects ==
  ASSUME TypeOK, NEW kind \in Kinds, NEW f \in Connects, FeedStep(kind, f)
  PROVE  /\ run' \in [Kinds -> [Connects -> RunStates]]
         /\ \A k \in Kinds, g \in Connects : k # kind \/ g # f => run'[k][g] = run[k][g]
         /\ \/ /\ run[kind][f] = "dial" /\ run'[kind][f] \in {"dial", "read", "close", "ended"}
               /\ inbox' = inbox
            \/ /\ run[kind][f] \in {"read", "close"} /\ run'[kind][f] \in {"dial", "ended"}
               /\ run[kind][f] = "close" => run'[kind][f] = "ended"
               /\ LosesInbox(kind, f)
  <1> USE DEF RunStates
  <1>1. CASE Dial(kind, f)
    <2>1. /\ run' \in [Kinds -> [Connects -> RunStates]]
          /\ \A k \in Kinds, g \in Connects : k # kind \/ g # f => run'[k][g] = run[k][g]
          /\ run'[kind][f] \in {"dial", "read", "close", "ended"}
      BY <1>1, FeedGoesOn DEF Dial
    <2> QED BY <1>1, <2>1 DEF Dial
  <1>2. CASE ConnectionEnds(kind, f)
    <2>1. /\ run' \in [Kinds -> [Connects -> RunStates]]
          /\ \A k \in Kinds, g \in Connects : k # kind \/ g # f => run'[k][g] = run[k][g]
          /\ run'[kind][f] \in {"dial", "ended"}
      BY <1>2, FeedGoesOn DEF ConnectionEnds
    <2> QED BY <1>2, <2>1 DEF ConnectionEnds
  <1>3. CASE Close(kind, f)
    BY <1>3, OneRuns DEF Close
  <1> QED BY <1>1, <1>2, <1>3 DEF FeedStep

\* Losing the connection empties the inbox of a trade feed and no other.
LEMMA InboxLost ==
  ASSUME TypeOK, NEW kind \in Kinds, NEW f \in Connects, LosesInbox(kind, f)
  PROVE  /\ inbox' \in [Connects -> Seq(Execs)]
         /\ \A g \in Connects : inbox'[g] = inbox[g] \/ inbox'[g] = << >>
  <1>1. inbox \in [Connects -> Seq(Execs)] /\ << >> \in Seq(Execs)
    BY DEF TypeOK
  <1> QED BY <1>1 DEF LosesInbox

\* What a goroutine that takes a fill does.
LEMMA FillEffects ==
  ASSUME TypeOK, LateInv, MessagesInv, NEW f \in Connects, FillMessage(f)
  PROVE  /\ run' \in [Kinds -> [Connects -> RunStates]]
         /\ \A k \in Kinds, g \in Connects : k # "trade" \/ g # f => run'[k][g] = run[k][g]
         /\ run["trade"][f] = "read"
         /\ run'["trade"][f] = IF Canceled("trade", f) THEN "close" ELSE "read"
         /\ late' \in [Connects -> Nat]
         /\ \A g \in Connects : g # f => late'[g] = late[g]
         /\ late'[f] = IF ContextEnded("trade", f) THEN 1 ELSE 0
         /\ Head(inbox[f]) \in Execs /\ f \in Holders(inbox, Head(inbox[f]))
         /\ Holders(inbox', Head(inbox[f])) = Holders(inbox, Head(inbox[f])) \ {f}
         /\ \A e : e # Head(inbox[f]) => Holders(inbox', e) = Holders(inbox, e)
         /\ inbox' \in [Connects -> Seq(Execs)]
         /\ \A g \in Connects : IsInjective(inbox'[g])
         /\ copies' \in [Execs -> Nat]
         /\ \A e \in Execs : e # Head(inbox[f]) => copies'[e] = copies[e]
         /\ copies'[Head(inbox[f])] \in {copies[Head(inbox[f])], copies[Head(inbox[f])] + 1}
  <1>1. /\ inbox[f] # << >> /\ inbox' = [inbox EXCEPT ![f] = Tail(inbox[f])]
        /\ GoesOn("trade", f, "read", "close") /\ run["trade"][f] = "read"
    BY DEF FillMessage, AfterRead
  <1>2. /\ inbox \in [Connects -> Seq(Execs)]
        /\ IsInjective(inbox[f])
    BY DEF TypeOK, MessagesInv
  <1>3. /\ Head(inbox[f]) \in Execs /\ f \in Holders(inbox, Head(inbox[f]))
        /\ Holders(inbox', Head(inbox[f])) = Holders(inbox, Head(inbox[f])) \ {f}
        /\ \A e : e # Head(inbox[f]) => Holders(inbox', e) = Holders(inbox, e)
        /\ inbox' \in [Connects -> Seq(Execs)]
        /\ IsInjective(inbox'[f])
    <2> DEFINE box2 == [inbox EXCEPT ![f] = Tail(inbox[f])]
    <2>1. inbox[f] # << >>
      BY <1>1
    <2>3. inbox \in [Connects -> Seq(Execs)] /\ inbox[f] # << >> /\ IsInjective(inbox[f]) =>
          /\ Head(inbox[f]) \in Execs /\ f \in Holders(inbox, Head(inbox[f]))
          /\ Holders(box2, Head(inbox[f])) = Holders(inbox, Head(inbox[f])) \ {f}
          /\ \A e : e # Head(inbox[f]) => Holders(box2, e) = Holders(inbox, e)
          /\ box2 \in [Connects -> Seq(Execs)]
          /\ IsInjective(box2[f])
      BY HoldersRead
    <2>2. inbox' = box2
      BY <1>1
    <2> HIDE DEF box2
    <2> QED BY <1>2, <2>1, <2>2, <2>3
  <1>4. \A g \in Connects : IsInjective(inbox'[g])
    <2> TAKE g \in Connects
    <2>1. g # f => inbox'[g] = inbox[g]
      BY <1>1, <1>2
    <2> QED BY <1>3, <2>1 DEF MessagesInv
  <1>5. /\ run' \in [Kinds -> [Connects -> RunStates]]
        /\ \A k \in Kinds, g \in Connects : k # "trade" \/ g # f => run'[k][g] = run[k][g]
        /\ run'["trade"][f] = IF Canceled("trade", f) THEN "close" ELSE "read"
    <2>1. "trade" \in Kinds /\ "read" \in RunStates /\ "close" \in RunStates
      BY DEF Kinds, RunStates
    <2> QED BY <1>1, <2>1, FeedGoesOn
  <1>6. late[f] = 0
    BY <1>1 DEF LateInv
  <1>7. late' = [late EXCEPT ![f] = IF ContextEnded("trade", f) THEN late[f] + 1 ELSE late[f]]
    BY DEF FillMessage
  <1>8. /\ late' \in [Connects -> Nat]
        /\ \A g \in Connects : g # f => late'[g] = late[g]
        /\ late'[f] = IF ContextEnded("trade", f) THEN 1 ELSE 0
    <2>1. late \in [Connects -> Nat]
      BY DEF TypeOK
    <2> QED BY <1>6, <1>7, <2>1
  <1>9. PICK room \in {0, 1} : copies' = [copies EXCEPT ![Head(inbox[f])] = @ + room]
    BY DEF FillMessage
  <1>10. /\ copies' \in [Execs -> Nat]
         /\ \A e \in Execs : e # Head(inbox[f]) => copies'[e] = copies[e]
         /\ copies'[Head(inbox[f])] \in {copies[Head(inbox[f])], copies[Head(inbox[f])] + 1}
    BY <1>3, <1>9 DEF TypeOK
  <1> QED BY <1>1, <1>3, <1>4, <1>5, <1>8, <1>10

\* What a fill at the venue does.
LEMMA VenueEffects ==
  ASSUME TypeOK, MessagesInv, NEW o \in Orders, VenueFills(o)
  PROVE  LET e == <<o, venue[o].fills + 1>> IN
         /\ e \in Execs /\ Holders(inbox, e) = {} /\ copies[e] = 0
         /\ Holders(inbox', e) = Listening
         /\ \A d : d # e => Holders(inbox', d) = Holders(inbox, d)
         /\ inbox' \in [Connects -> Seq(Execs)]
         /\ \A f \in Connects : IsInjective(inbox'[f])
         /\ venue' \in [Orders -> [state : {"unknown", "open", "filled", "canceled"}, fills : Nat]]
         /\ \A p \in Orders : venue'[p].fills = IF p = o THEN venue[p].fills + 1 ELSE venue[p].fills
  <1> DEFINE n == venue[o].fills + 1
             e == <<o, n>>
  <1>1. /\ n <= Lots[o]
        /\ venue' = [venue EXCEPT ![o] = [state |-> IF n = Lots[o] THEN "filled" ELSE "open",
                                          fills |-> n]]
        /\ inbox' = [f \in Connects |-> IF f \in Listening THEN Append(inbox[f], e) ELSE inbox[f]]
    BY DEF VenueFills
  <1>2. venue[o].fills \in Nat /\ Lots[o] \in Nat
    BY AlpacaAssumption DEF TypeOK
  <1>3. n \in Nat /\ n \in 1 .. Lots[o] /\ ~ (n <= venue[o].fills)
    BY <1>1, <1>2
  <1>4. e \in Execs
    BY <1>3, ExecFields
  <1>5. Holders(inbox, e) = {} /\ copies[e] = 0
    <2>1. ~ (copies[e] > 0) /\ Holders(inbox, e) = {}
      BY <1>3, <1>4 DEF MessagesInv
    <2>2. copies[e] \in Nat
      BY <1>4 DEF TypeOK
    <2> QED BY <2>1, <2>2
  <1>6. /\ venue' \in [Orders -> [state : {"unknown", "open", "filled", "canceled"}, fills : Nat]]
        /\ \A p \in Orders : venue'[p].fills = IF p = o THEN n ELSE venue[p].fills
    <2>1. (IF n = Lots[o] THEN "filled" ELSE "open") \in {"unknown", "open", "filled", "canceled"}
      OBVIOUS
    <2> HIDE DEF n
    <2> QED BY <1>1, <1>3, <2>1 DEF TypeOK
  <1>7. Listening \in SUBSET Connects
    BY DEF Listening
  <1> HIDE DEF e
  <1>8. /\ Holders(inbox', e) = Listening
        /\ \A d : d # e => Holders(inbox', d) = Holders(inbox, d)
        /\ inbox' \in [Connects -> Seq(Execs)]
        /\ \A f \in Connects : IsInjective(inbox'[f])
    <2>1. inbox \in [Connects -> Seq(Execs)] /\ \A f \in Connects : IsInjective(inbox[f])
      BY DEF TypeOK, MessagesInv
    <2>2. \A f \in Connects : inbox'[f] = IF f \in Listening THEN Append(inbox[f], e) ELSE inbox[f]
      BY <1>1
    <2>3. inbox' \in [Connects -> Seq(Execs)]
      <3>1. ASSUME NEW f \in Connects
            PROVE  /\ Append(inbox[f], e) \in Seq(Execs)
                   /\ (IF f \in Listening THEN Append(inbox[f], e) ELSE inbox[f]) \in Seq(Execs)
        <4>1. inbox[f] \in Seq(Execs)
          BY <2>1
        <4>2. Append(inbox[f], e) \in Seq(Execs)
          BY <1>4, <4>1, AppendOnce
        <4> QED BY <4>1, <4>2
      <3> QED BY <1>1, <3>1
    <2>4. Holders(inbox, e) = {}
      BY <1>5
    <2>5. /\ Holders(inbox', e) = Listening
          /\ \A d : d # e => Holders(inbox', d) = Holders(inbox, d)
          /\ \A f \in Connects : IsInjective(inbox'[f])
      <3>1. PICK box2 \in [Connects -> Seq(Execs)] : box2 = inbox'
        BY <2>3
      <3>2. \A f \in Connects : box2[f] = IF f \in Listening THEN Append(inbox[f], e) ELSE inbox[f]
        BY <2>2, <3>1
      <3>3. /\ Holders(box2, e) = Listening
            /\ \A d : d # e => Holders(box2, d) = Holders(inbox, d)
            /\ \A f \in Connects : IsInjective(box2[f])
        BY <1>4, <1>7, <2>1, <2>4, <3>2, HoldersTold, ZenonT(30)
      <3> QED BY <3>1, <3>3
    <2> QED BY <2>3, <2>5
  <1> QED BY <1>4, <1>5, <1>6, <1>8 DEF e

-----------------------------------------------------------------------------
\* Types

VenueTypes == [state : {"unknown", "open", "filled", "canceled"}, fills : Nat]

\* A request of the adapter goes from one of its steps to another.
LEMMA RequestMoves ==
  ASSUME TypeOK, NEW r \in Requests, NEW step \in Steps \cup AlpacaSteps, Goto(r, step),
         status' \in {"Disconnected", "Connected"}, UNCHANGED <<mdCancel, pumps, ended, orderly>>
  PROVE  RequestTypes(AlpacaSteps)'
  BY DEF TypeOK, RequestTypes, Goto

\* The steps of a connect request keep the types.
LEMMA ConnectTypes ==
  ASSUME TypeOK, NEW r \in Connects, ConnectStep(r)
  PROVE  TypeOK'
  <1>0. r \in Requests
    BY DEF Requests
  <1>1. CASE SetKeys(r)
    <2>1. RequestTypes(AlpacaSteps)'
      BY <1>0, <1>1, RequestMoves DEF SetKeys, AlpacaSteps, TypeOK, RequestTypes
    <2> QED BY <1>1, <2>1 DEF SetKeys, TypeOK, feedVars, orderVars
  <1>2. CASE Ping(r)
    <2>1. RequestTypes(AlpacaSteps)'
      <3>1. PICK step \in {"feeds", "done"} : Goto(r, step)
        BY <1>2 DEF Ping, PingAnswered
      <3>2. step \in Steps \cup AlpacaSteps
        BY DEF Steps, AlpacaSteps
      <3> QED BY <1>0, <1>2, <3>1, <3>2, RequestMoves DEF Ping, TypeOK, RequestTypes
    <2> QED BY <1>2, <2>1 DEF Ping, TypeOK, feedVars, orderVars
  <1>3. CASE NewFeeds(r)
    <2>1. RequestTypes(AlpacaSteps)'
      BY <1>0, <1>3, RequestMoves DEF NewFeeds, AlpacaSteps, TypeOK, RequestTypes
    <2> QED BY <1>3, <2>1 DEF NewFeeds, TypeOK, orderVars
  <1>4. CASE StartFeed(r)
    <2>1. RequestTypes(AlpacaSteps)'
      BY <1>0, <1>4, RequestMoves DEF StartFeed, AlpacaSteps, TypeOK, RequestTypes
    <2>2. PICK kind \in Kinds : Launch(kind, r)
      BY <1>4 DEF StartFeed, Starts, Kinds
    <2> DEFINE f == current[kind]
    <2>3. /\ run' \in [Kinds -> [Connects -> RunStates]]
          /\ starter' \in [Kinds -> [Connects -> Connects \cup {NoRequest}]]
          /\ crashed' \in BOOLEAN
      <3>1. CASE f # NoRequest /\ run[kind][f] = "new"
        <4>1. f \in Connects
          BY <3>1 DEF TypeOK
        <4>2. PICK x \in RunStates : run' = [run EXCEPT ![kind][f] = x]
          BY <2>2, <3>1 DEF Launch, RunStates
        <4>3. run' \in [Kinds -> [Connects -> RunStates]]
          BY <4>1, <4>2, OneRuns
        <4>4. starter' = [starter EXCEPT ![kind][f] = r] /\ crashed' = crashed
          BY <2>2, <3>1 DEF Launch
        <4> QED BY <4>1, <4>3, <4>4 DEF TypeOK
      <3>2. CASE ~ (f # NoRequest /\ run[kind][f] = "new")
        BY <2>2, <3>2 DEF Launch, TypeOK, RunStates
      <3> QED BY <3>1, <3>2
    <2> QED BY <1>4, <2>1, <2>3 DEF StartFeed, TypeOK, RunStates, orderVars
  <1>5. CASE SetStatus(r)
    <2>1. RequestTypes(AlpacaSteps)'
      <3>1. Goto(r, "done") /\ "done" \in Steps \cup AlpacaSteps
        BY <1>5, AlpacaAssumption DEF SetStatus, Connected, Steps
      <3> QED BY <1>0, <1>5, <3>1, RequestMoves DEF SetStatus
    <2> QED BY <1>5, <2>1 DEF SetStatus, TypeOK, feedVars, orderVars
  <1> QED BY <1>1, <1>2, <1>3, <1>4, <1>5 DEF ConnectStep

\* The steps of a disconnect request keep the types.
LEMMA DisconnectTypes ==
  ASSUME TypeOK, NEW r \in Disconnects, Disconnect(r)
  PROVE  TypeOK'
  <1>0. r \in Requests
    BY DEF Requests
  <1>1. RequestTypes(AlpacaSteps)'
    <2>1. PICK step \in {"awaitMarket", "awaitTrade", "done"} : Goto(r, step)
      BY DEF Disconnect, StopMarket, StopTrade, Stopped
    <2>2. step \in Steps \cup AlpacaSteps
      BY DEF Steps, AlpacaSteps
    <2>3. status' \in {"Disconnected", "Connected"}
      BY DEF Disconnect, StopMarket, StopTrade, Stopped, TypeOK, RequestTypes
    <2> QED BY <1>0, <2>1, <2>2, <2>3, RequestMoves DEF Disconnect
  <1>2. /\ current' \in [Kinds -> Connects \cup {NoRequest}]
        /\ holder' \in Disconnects \cup {NoRequest}
    BY DEF Disconnect, StopMarket, StopTrade, Stopped, TypeOK
  <1>3. stopped' \in [Kinds -> SUBSET Connects]
    <2>1. \A kind \in Kinds : Stopping(kind) => stopped' \in [Kinds -> SUBSET Connects]
      <3> SUFFICES ASSUME NEW kind \in Kinds, Stopping(kind)
                   PROVE  stopped' \in [Kinds -> SUBSET Connects]
        OBVIOUS
      <3>1. stopped[kind] \cup ({current[kind]} \ {NoRequest}) \in SUBSET Connects
        BY DEF TypeOK
      <3> QED BY <3>1 DEF Stopping, TypeOK
    <2> QED BY <2>1 DEF Disconnect, StopMarket, StopTrade, Stopped, TypeOK, Kinds
  <1> QED BY <1>1, <1>2, <1>3 DEF Disconnect, TypeOK, orderVars

\* The steps of orders keep the types.
LEMMA OrderTypes ==
  ASSUME TypeOK, OrderStep
  PROVE  /\ TypeOK'
         /\ \A o \in Orders : venue'[o].fills = venue[o].fills
  <1>0. venue \in [Orders -> VenueTypes]
    BY DEF TypeOK, VenueTypes
  <1>1. PICK o \in Orders : SubmitOrder(o) \/ SubmitAnswer(o) \/ CancelOrder(o)
    BY DEF OrderStep
  <1>2. call' \in [Orders -> {"none", "sending", "acked", "failed"}]
    BY <1>1 DEF SubmitOrder, SubmitAnswer, CancelOrder, TypeOK
  <1>3. venue' = venue \/ \E x \in {"unknown", "open", "filled", "canceled"} :
                            venue' = [venue EXCEPT ![o].state = x]
    <2>1. CASE SubmitOrder(o)
      BY <2>1 DEF SubmitOrder
    <2>2. CASE SubmitAnswer(o)
      BY <1>0, <2>2 DEF SubmitAnswer, VenueTypes
    <2>3. CASE CancelOrder(o)
      BY <2>3 DEF CancelOrder
    <2> QED BY <1>1, <2>1, <2>2, <2>3
  <1>4. /\ venue' \in [Orders -> VenueTypes]
        /\ \A p \in Orders : venue'[p].fills = venue[p].fills
    BY <1>0, <1>3 DEF VenueTypes
  <1>5. TypeOK'
    BY <1>2, <1>4 DEF OrderStep, TypeOK, VenueTypes, RequestTypes, requestVars, feedVars
  <1> QED BY <1>4, <1>5

\* What does not change the requests leaves their types.
LEMMA RequestsStay ==
  ASSUME TypeOK, UNCHANGED <<status, requestVars>>
  PROVE  RequestTypes(AlpacaSteps)'
  BY DEF TypeOK, RequestTypes, requestVars

\* Every step keeps the types.
LEMMA TypesPreserved ==
  ASSUME AlpacaInv, Next
  PROVE  TypeOK'
  <1> USE DEF AlpacaInv
  <1>1. CASE HandlerStep
    <2>1. RequestTypes(AlpacaSteps)'
      BY <1>1, RequestTypesKept DEF HandlerStep, TypeOK
    <2> QED BY <1>1, <2>1 DEF HandlerStep, TypeOK, feedVars, orderVars
  <1>2. ASSUME NEW r \in Connects, ConnectStep(r) PROVE TypeOK'
    BY <1>2, ConnectTypes
  <1>3. ASSUME NEW r \in Disconnects, Disconnect(r) PROVE TypeOK'
    BY <1>3, DisconnectTypes
  <1>4. ASSUME NEW k \in Kinds, NEW f \in Connects, FeedStep(k, f) PROVE TypeOK'
    <2>1. run' \in [Kinds -> [Connects -> RunStates]] /\ inbox' \in [Connects -> Seq(Execs)]
      <3>1. inbox' = inbox \/ LosesInbox(k, f)
        BY <1>4, FeedEffects
      <3>2. inbox' \in [Connects -> Seq(Execs)]
        BY <3>1, InboxLost DEF TypeOK
      <3> QED BY <1>4, <3>2, FeedEffects
    <2>2. RequestTypes(AlpacaSteps)'
      BY <1>4, RequestsStay DEF FeedStep
    <2> QED BY <1>4, <2>1, <2>2 DEF FeedStep, TypeOK, RunStates, orderVars
  <1>5. ASSUME NEW f \in Connects, MarketMessage(f) PROVE TypeOK'
    <2>1. run' \in [Kinds -> [Connects -> RunStates]]
      <3>1. "market" \in Kinds /\ "read" \in RunStates /\ "close" \in RunStates
        BY DEF Kinds, RunStates
      <3> QED BY <1>5, <3>1, FeedGoesOn DEF MarketMessage
    <2>2. RequestTypes(AlpacaSteps)'
      BY <1>5, RequestsStay DEF MarketMessage
    <2> QED BY <1>5, <2>1, <2>2 DEF MarketMessage, TypeOK, RunStates, orderVars
  <1>6. ASSUME NEW f \in Connects, FillMessage(f) PROVE TypeOK'
    <2>1. /\ run' \in [Kinds -> [Connects -> RunStates]]
          /\ late' \in [Connects -> Nat]
          /\ inbox' \in [Connects -> Seq(Execs)]
          /\ copies' \in [Execs -> Nat]
      BY <1>6, FillEffects
    <2>2. RequestTypes(AlpacaSteps)'
      BY <1>6, RequestsStay DEF FillMessage
    <2>3. named' \subseteq Orders \cup {AlpacaId[o] : o \in Orders}
      <3>1. Head(inbox[f])[1] \in Orders
        <4>1. Head(inbox[f]) \in Execs
          BY <1>6, FillEffects
        <4> QED BY <4>1, ExecFields
      <3>2. OrderID(Head(inbox[f])) \in {AlpacaId[o] : o \in Orders}
        BY <3>1 DEF OrderID
      <3>3. named' = named \/ named' = named \cup {OrderID(Head(inbox[f]))}
        BY <1>6 DEF FillMessage
      <3> QED BY <3>2, <3>3 DEF TypeOK
    <2> QED BY <1>6, <2>1, <2>2, <2>3 DEF FillMessage, TypeOK, RunStates
  <1>7. CASE OrderStep
    BY <1>7, OrderTypes
  <1>8. ASSUME NEW o \in Orders, VenueFills(o) PROVE TypeOK'
    <2>1. inbox' \in [Connects -> Seq(Execs)] /\ venue' \in [Orders -> VenueTypes]
      BY <1>8, VenueEffects DEF VenueTypes
    <2>2. RequestTypes(AlpacaSteps)'
      BY <1>8, RequestsStay DEF VenueFills
    <2> QED BY <1>8, <2>1, <2>2 DEF VenueFills, TypeOK, VenueTypes
  <1> QED BY <1>1, <1>2, <1>3, <1>4, <1>5, <1>6, <1>7, <1>8 DEF Next

-----------------------------------------------------------------------------
\* Late messages

\* Only new feeds are started; this changes no other feed.
LEMMA LaunchEffects ==
  ASSUME TypeOK, NEW r \in Connects, StartFeed(r)
  PROVE  \A k \in Kinds, f \in Connects :
           /\ run[k][f] # "new" => run'[k][f] = run[k][f]
           /\ run'[k][f] # run[k][f] => run'[k][f] \in {"dial", "ended"}
  <1>1. PICK kind \in Kinds : Launch(kind, r)
    BY DEF StartFeed, Starts, Kinds
  <1> DEFINE f == current[kind]
  <1>2. CASE f # NoRequest /\ run[kind][f] = "new"
    <2>1. f \in Connects
      BY <1>2 DEF TypeOK
    <2>2. PICK x \in {"dial", "ended"} : run' = [run EXCEPT ![kind][f] = x]
      BY <1>1, <1>2 DEF Launch
    <2>3. /\ run'[kind][f] = x
          /\ \A k \in Kinds, g \in Connects : k # kind \/ g # f => run'[k][g] = run[k][g]
      <3>1. x \in RunStates
        BY DEF RunStates
      <3>2. run \in [Kinds -> [Connects -> RunStates]]
        BY DEF TypeOK, RunStates
      <3> HIDE DEF f
      <3> QED BY <2>1, <2>2, <3>1, <3>2
    <2> QED BY <1>2, <2>3
  <1>3. CASE ~ (f # NoRequest /\ run[kind][f] = "new")
    BY <1>1, <1>3 DEF Launch
  <1> QED BY <1>2, <1>3

\* What leaves the trade feeds alone takes no late message.
LEMMA LateStays ==
  ASSUME LateInv, late' = late,
         \A f \in Connects : run["trade"][f] \in {"close", "ended"} =>
                               run'["trade"][f] \in {"close", "ended"}
  PROVE  LateInv'
  BY DEF LateInv

\* Every step keeps LateInv.
LEMMA LatePreserved ==
  ASSUME AlpacaInv, Next
  PROVE  LateInv'
  <1> USE DEF AlpacaInv
  <1>0. "trade" \in Kinds /\ "market" \in Kinds
    BY DEF Kinds
  <1>1. CASE HandlerStep \/ OrderStep \/ \E o \in Orders : VenueFills(o)
    BY <1>1, LateStays DEF HandlerStep, OrderStep, VenueFills, feedVars
  <1>2. ASSUME NEW r \in Connects, ConnectStep(r) PROVE LateInv'
    <2>1. CASE StartFeed(r)
      <3>1. \A f \in Connects : run["trade"][f] # "new" => run'["trade"][f] = run["trade"][f]
        BY <1>0, <2>1, LaunchEffects
      <3> QED BY <2>1, <3>1, LateStays DEF StartFeed
    <2>2. CASE ~ StartFeed(r)
      BY <1>2, <2>2, LateStays DEF ConnectStep, SetKeys, Ping, NewFeeds, SetStatus, feedVars
    <2> QED BY <2>1, <2>2
  <1>3. ASSUME NEW r \in Disconnects, Disconnect(r) PROVE LateInv'
    BY <1>3, LateStays DEF Disconnect
  <1>4. ASSUME NEW k \in Kinds, NEW f \in Connects, FeedStep(k, f) PROVE LateInv'
    <2>1. \A g \in Connects : run["trade"][g] \in {"close", "ended"} =>
                                run'["trade"][g] \in {"close", "ended"}
      BY <1>0, <1>4, FeedEffects
    <2> QED BY <1>4, <2>1, LateStays DEF FeedStep
  <1>5. ASSUME NEW f \in Connects, MarketMessage(f) PROVE LateInv'
    <2>1. "read" \in RunStates /\ "close" \in RunStates
      BY DEF RunStates
    <2>2. \A k \in Kinds, g \in Connects : k # "market" \/ g # f => run'[k][g] = run[k][g]
      BY <1>0, <1>5, <2>1, FeedGoesOn DEF MarketMessage
    <2>3. \A g \in Connects : run'["trade"][g] = run["trade"][g]
      BY <1>0, <2>2
    <2> QED BY <1>5, <2>3, LateStays DEF MarketMessage
  <1>6. ASSUME NEW f \in Connects, FillMessage(f) PROVE LateInv'
    <2>1. /\ \A g \in Connects : g # f => run'["trade"][g] = run["trade"][g]
          /\ run'["trade"][f] = IF Canceled("trade", f) THEN "close" ELSE "read"
          /\ \A g \in Connects : g # f => late'[g] = late[g]
          /\ late'[f] = IF ContextEnded("trade", f) THEN 1 ELSE 0
      BY <1>0, <1>6, FillEffects
    <2> QED BY <2>1 DEF LateInv, Canceled
  <1> QED BY <1>1, <1>2, <1>3, <1>4, <1>5, <1>6 DEF Next

-----------------------------------------------------------------------------
\* Messages

\* Messages are only lost, and nothing is reported.
LEMMA MessagesShrink ==
  ASSUME MessagesInv, copies' = copies,
         \A f \in Connects : inbox'[f] = inbox[f] \/ inbox'[f] = << >>,
         \A o \in Orders : venue'[o].fills = venue[o].fills
  PROVE  MessagesInv'
  <1>1. \A f \in Connects : IsInjective(inbox'[f])
    BY DEF MessagesInv, IsInjective
  <1>2. \A e : Holders(inbox', e) \subseteq Holders(inbox, e)
    BY DEF Holders
  <1>3. ASSUME NEW e \in Execs, Holders(inbox', e) # {} \/ copies'[e] > 0
        PROVE  e[2] <= venue'[e[1]].fills
    <2>1. e[1] \in Orders
      BY ExecFields
    <2>2. Holders(inbox, e) # {} \/ copies[e] > 0
      BY <1>2, <1>3
    <2>3. e[2] <= venue[e[1]].fills
      BY <2>2 DEF MessagesInv
    <2> QED BY <2>1, <2>3
  <1> QED BY <1>1, <1>3 DEF MessagesInv

\* Every step keeps MessagesInv.
LEMMA MessagesPreserved ==
  ASSUME AlpacaInv, Next
  PROVE  MessagesInv'
  <1> USE DEF AlpacaInv
  <1>1. CASE HandlerStep
    BY <1>1, MessagesShrink DEF HandlerStep, feedVars, orderVars
  <1>2. ASSUME NEW r \in Connects, ConnectStep(r) PROVE MessagesInv'
    BY <1>2, MessagesShrink
       DEF ConnectStep, SetKeys, Ping, NewFeeds, StartFeed, SetStatus, feedVars, orderVars
  <1>3. ASSUME NEW r \in Disconnects, Disconnect(r) PROVE MessagesInv'
    BY <1>3, MessagesShrink DEF Disconnect, orderVars
  <1>4. ASSUME NEW k \in Kinds, NEW f \in Connects, FeedStep(k, f) PROVE MessagesInv'
    <2>1. inbox' = inbox \/ LosesInbox(k, f)
      BY <1>4, FeedEffects
    <2>2. \A g \in Connects : inbox'[g] = inbox[g] \/ inbox'[g] = << >>
      BY <2>1, InboxLost
    <2> QED BY <1>4, <2>2, MessagesShrink DEF FeedStep, orderVars
  <1>5. ASSUME NEW f \in Connects, MarketMessage(f) PROVE MessagesInv'
    BY <1>5, MessagesShrink DEF MarketMessage, orderVars
  <1>6. ASSUME NEW f \in Connects, FillMessage(f) PROVE MessagesInv'
    <2> DEFINE h == Head(inbox[f])
    <2>1. /\ h \in Execs /\ f \in Holders(inbox, h)
          /\ Holders(inbox', h) = Holders(inbox, h) \ {f}
          /\ \A e : e # h => Holders(inbox', e) = Holders(inbox, e)
          /\ \A g \in Connects : IsInjective(inbox'[g])
          /\ \A e \in Execs : e # h => copies'[e] = copies[e]
      BY <1>6, FillEffects
    <2>2. venue' = venue
      BY <1>6 DEF FillMessage
    <2> HIDE DEF h
    <2>3. \A e \in Execs : Holders(inbox', e) # {} \/ copies'[e] > 0 =>
                             Holders(inbox, e) # {} \/ copies[e] > 0
      BY <2>1
    <2> QED BY <2>1, <2>2, <2>3 DEF MessagesInv
  <1>7. CASE OrderStep
    BY <1>7, OrderTypes, MessagesShrink DEF OrderStep, feedVars
  <1>8. ASSUME NEW o \in Orders, VenueFills(o) PROVE MessagesInv'
    <2> DEFINE x == <<o, venue[o].fills + 1>>
    <2>1. /\ x \in Execs /\ Holders(inbox, x) = {}
          /\ \A d : d # x => Holders(inbox', d) = Holders(inbox, d)
          /\ \A f \in Connects : IsInjective(inbox'[f])
          /\ \A p \in Orders : venue'[p].fills = IF p = o THEN venue[p].fills + 1 ELSE venue[p].fills
      BY <1>8, VenueEffects
    <2>2. copies' = copies
      BY <1>8 DEF VenueFills
    <2>3. ASSUME NEW e \in Execs, Holders(inbox', e) # {} \/ copies'[e] > 0
          PROVE  e[2] <= venue'[e[1]].fills
      <3>1. e[1] \in Orders /\ e[2] \in Nat
        BY ExecFields, AlpacaAssumption
      <3>2. venue[e[1]].fills \in Nat
        BY <3>1 DEF TypeOK
      <3>3. CASE e = x
        BY <2>1, <3>1, <3>2, <3>3
      <3>4. CASE e # x
        <4>1. Holders(inbox, e) # {} \/ copies[e] > 0
          BY <2>1, <2>2, <2>3, <3>4
        <4>2. e[2] <= venue[e[1]].fills
          BY <4>1 DEF MessagesInv
        <4> QED BY <2>1, <3>1, <3>2, <4>2
      <3> QED BY <3>3, <3>4
    <2> QED BY <2>1, <2>3 DEF MessagesInv
  <1> QED BY <1>1, <1>2, <1>3, <1>4, <1>5, <1>6, <1>7, <1>8 DEF Next

-----------------------------------------------------------------------------
\* Orderly clients

\* Feeds that are started already go on; requests and credential are left alone.
LEMMA OrderlyStays ==
  ASSUME TypeOK, OrderlyInv,
         UNCHANGED <<status, pc, orderly, verified, current, crashed>>,
         \A k \in Kinds, f \in Connects : run[k][f] = "new" => run'[k][f] = "new"
  PROVE  OrderlyInv'
  <1>1. InFlight' = InFlight
    BY DEF InFlight
  <1>2. "market" \in Kinds /\ "trade" \in Kinds
    BY DEF Kinds
  <1> QED BY <1>1, <1>2 DEF OrderlyInv, ConnectInv

\* Of the other connect requests nothing is under way.
LEMMA OthersWait ==
  ASSUME TypeOK, OneAtATime, orderly, NEW r \in Requests, r \in InFlight
  PROVE  \A s \in Requests : s # r => pc[s] \in {"idle", "done"}
  BY DEF OneAtATime, InFlight

\* Every step of a connect request keeps OrderlyInv.
LEMMA ConnectOrderly ==
  ASSUME AlpacaInv, NEW r \in Connects, ConnectStep(r)
  PROVE  OrderlyInv'
  <1> USE DEF AlpacaInv
  <1>1. orderly' = orderly /\ r \in Requests /\ r \in InFlight
    BY DEF ConnectStep, SetKeys, Ping, NewFeeds, StartFeed, SetStatus, Requests, InFlight
  <1> SUFFICES ASSUME orderly, OrderlyInv
               PROVE  /\ ~crashed'
                      /\ status' = "Connected" => verified'
                      /\ \A s \in Connects : ConnectInv(s)'
    BY <1>1 DEF OrderlyInv
  <1>2. /\ ~crashed /\ status = "Disconnected" /\ ConnectInv(r)
        /\ \A s \in Connects : ConnectInv(s)
    BY <1>1 DEF OrderlyInv, ConnectInv
  <1>3. pc \in [Requests -> Steps \cup AlpacaSteps]
    BY DEF TypeOK, RequestTypes
  <1>4. /\ \A s \in Requests : s # r => pc'[s] = pc[s] /\ pc[s] \in {"idle", "done"}
        /\ \A step : Goto(r, step) => pc'[r] = step
    <2>1. \A s \in Requests : s # r => pc[s] \in {"idle", "done"}
      BY <1>1, OthersWait
    <2>2. \E step : Goto(r, step)
      BY DEF ConnectStep, SetKeys, Ping, PingAnswered, NewFeeds, StartFeed, SetStatus, Connected
    <2> QED BY <1>1, <1>3, <2>1, <2>2 DEF Goto
  <1>5. ASSUME NEW s \in Connects, s # r,
               \A k \in Kinds : run[k][s] = "new" => run'[k][s] = "new"
        PROVE  ConnectInv(s)'
    <2>1. s \in Requests /\ pc'[s] = pc[s] /\ pc[s] \in {"idle", "done"}
      BY <1>4, <1>5 DEF Requests
    <2>2. s \notin InFlight'
      BY <2>1 DEF InFlight
    <2>3. pc'[s] \notin Starting /\ pc'[s] \notin PingedSteps
      BY <2>1 DEF Starting, PingedSteps
    <2>4. "market" \in Kinds /\ "trade" \in Kinds
      BY DEF Kinds
    <2>5. /\ pc'[s] \in BeforeMarket => run'["market"][s] = "new"
          /\ pc'[s] \in BeforeTrade => run'["trade"][s] = "new"
      BY <1>2, <1>5, <2>1, <2>4 DEF ConnectInv
    <2> QED BY <2>2, <2>3, <2>5 DEF ConnectInv
  <1>6. CASE SetKeys(r)
    <2>1. pc'[r] = "ping" /\ run' = run /\ status' = status /\ crashed' = crashed /\ pc[r] = "connect"
      BY <1>4, <1>6 DEF SetKeys, feedVars
    <2>2. ConnectInv(r)'
      BY <1>2, <2>1 DEF ConnectInv, BeforeMarket, BeforeTrade, Starting, PingedSteps
    <2> QED BY <1>2, <1>5, <2>1, <2>2
  <1>7. CASE Ping(r)
    <2>1. PICK ok \in BOOLEAN : verified' = (verified \/ ok) /\ PingAnswered(r, ok)
      BY <1>7 DEF Ping
    <2>2. pc'[r] = (IF ok THEN "feeds" ELSE "done")
      BY <1>4, <2>1 DEF PingAnswered
    <2>3. run' = run /\ status' = status /\ crashed' = crashed /\ pc[r] = "ping"
      BY <1>7 DEF Ping, feedVars
    <2>4. ConnectInv(r)'
      <3>1. CASE ok
        <4>1. pc'[r] = "feeds" /\ verified'
          BY <2>1, <2>2, <3>1
        <4> QED BY <1>2, <2>3, <4>1 DEF ConnectInv, BeforeMarket, BeforeTrade, Starting, PingedSteps
      <3>2. CASE ~ok
        <4>1. pc'[r] = "done"
          BY <2>2, <3>2
        <4> QED BY <1>2, <2>3, <4>1 DEF ConnectInv, BeforeMarket, BeforeTrade, Starting, PingedSteps
      <3> QED BY <3>1, <3>2
    <2> QED BY <1>2, <1>5, <2>3, <2>4
  <1>8. CASE NewFeeds(r)
    <2>1. /\ pc'[r] = "startMarket" /\ run' = run /\ status' = status /\ crashed' = crashed
          /\ pc[r] = "feeds" /\ verified' = verified
      BY <1>4, <1>8 DEF NewFeeds
    <2>2. \A k \in Kinds : current'[k] = r
      BY <1>8 DEF NewFeeds
    <2>3. ConnectInv(r)'
      BY <1>2, <2>1, <2>2 DEF ConnectInv, BeforeMarket, BeforeTrade, Starting, PingedSteps
    <2> QED BY <1>2, <1>5, <2>1, <2>3
  <1>9. CASE StartFeed(r)
    <2> DEFINE k == Starts(pc[r])
    <2>1. k \in Kinds /\ Launch(k, r) /\ pc[r] \in Starting
      BY <1>9 DEF StartFeed, Starts, Kinds, Starting
    <2>2. current[k] = r /\ run[k][r] = "new"
      BY <1>2, <2>1 DEF ConnectInv, Starts, Starting, BeforeMarket, BeforeTrade
    <2>3. r # NoRequest
      BY RequestAssumption DEF Requests
    <2>4. PICK x \in RunStates : run' = [run EXCEPT ![k][r] = x]
      BY <2>1, <2>2, <2>3 DEF Launch, RunStates
    <2>5. \A g \in Kinds, s \in Connects : g # k \/ s # r => run'[g][s] = run[g][s]
      BY <2>1, <2>4, OneRuns
    <2>6. ~crashed' /\ status' = status /\ verified' = verified /\ current' = current
      BY <1>2, <1>9, <2>1, <2>2, <2>3 DEF Launch, StartFeed
    <2>7. pc'[r] = IF pc[r] = "startMarket" THEN "startTrade" ELSE "setStatus"
      BY <1>4, <1>9 DEF StartFeed
    <2>8. ConnectInv(r)'
      <3>1. CASE pc[r] = "startMarket"
        <4>1. k = "market" /\ "trade" \in Kinds /\ run[ "trade" ][r] = "new"
          BY <1>2, <3>1 DEF Starts, Kinds, ConnectInv, BeforeTrade, BeforeMarket
        <4>2. run'["trade"][r] = "new" /\ pc'[r] = "startTrade"
          BY <2>5, <2>7, <3>1, <4>1
        <4>3. (\A g \in Kinds : current'[g] = r) /\ verified'
          BY <1>2, <2>6, <3>1 DEF ConnectInv, Starting, PingedSteps
        <4> HIDE DEF k
        <4> QED BY <1>2, <2>6, <4>2, <4>3
                DEF ConnectInv, BeforeMarket, BeforeTrade, Starting, PingedSteps
      <3>2. CASE pc[r] = "startTrade"
        <4>1. pc'[r] = "setStatus"
          BY <2>7, <3>2
        <4>2. verified'
          BY <1>2, <2>6, <3>2 DEF ConnectInv, PingedSteps
        <4> HIDE DEF k
        <4> QED BY <1>2, <2>6, <4>1, <4>2
                DEF ConnectInv, BeforeMarket, BeforeTrade, Starting, PingedSteps
      <3> QED BY <2>1, <3>1, <3>2 DEF Starting
    <2> HIDE DEF k
    <2>9. \A s \in Connects : s # r => ConnectInv(s)'
      BY <1>5, <2>5
    <2> QED BY <1>2, <2>6, <2>8, <2>9
  <1>10. CASE SetStatus(r)
    <2>1. /\ pc'[r] = "done" /\ run' = run /\ crashed' = crashed
          /\ pc[r] = "setStatus" /\ verified' = verified
      BY <1>4, <1>10, AlpacaAssumption DEF SetStatus, Connected, feedVars
    <2>2. verified
      BY <1>2, <2>1 DEF ConnectInv, PingedSteps
    <2>3. ConnectInv(r)'
      BY <2>1 DEF ConnectInv, BeforeMarket, BeforeTrade, Starting, PingedSteps, InFlight
    <2> QED BY <1>2, <1>5, <2>1, <2>2, <2>3
  <1> QED BY <1>6, <1>7, <1>8, <1>9, <1>10 DEF ConnectStep

\* Every step of a disconnect request keeps OrderlyInv.
LEMMA DisconnectOrderly ==
  ASSUME AlpacaInv, NEW r \in Disconnects, Disconnect(r)
  PROVE  OrderlyInv'
  <1> USE DEF AlpacaInv
  <1>1. /\ orderly' = orderly /\ run' = run /\ crashed' = crashed /\ verified' = verified
        /\ r \in Requests /\ r \in InFlight
        /\ status' = status \/ status' = "Disconnected"
    BY DEF Disconnect, StopMarket, StopTrade, Stopped, Requests, InFlight
  <1> SUFFICES ASSUME orderly, OrderlyInv
               PROVE  \A s \in Connects : ConnectInv(s)'
    BY <1>1 DEF OrderlyInv
  <1>2. \E step : Goto(r, step)
    BY DEF Disconnect, StopMarket, StopTrade, Stopped
  <1>3. \A s \in Requests : s # r => pc[s] \in {"idle", "done"} /\ pc'[s] = pc[s]
    BY <1>1, <1>2, OthersWait DEF Goto, TypeOK, RequestTypes
  <1> TAKE s \in Connects
  <1>4. s \in Requests /\ s # r
    BY RequestAssumption DEF Requests
  <1>5. pc'[s] = pc[s] /\ pc[s] \in {"idle", "done"}
    BY <1>3, <1>4
  <1>6. ConnectInv(s)
    BY DEF OrderlyInv
  <1>7. s \notin InFlight'
    BY <1>5 DEF InFlight
  <1> QED BY <1>1, <1>5, <1>6, <1>7 DEF ConnectInv, Starting, PingedSteps

\* Every step of a handler keeps OrderlyInv.
LEMMA HandlerOrderly ==
  ASSUME AlpacaInv, HandlerStep
  PROVE  OrderlyInv'
  <1> USE DEF AlpacaInv
  <1>1. /\ run' = run /\ crashed' = crashed /\ verified' = verified
        /\ status' = status /\ current' = current
    BY DEF HandlerStep, feedVars
  <1>2. pc \in [Requests -> Steps \cup AlpacaSteps]
    BY DEF TypeOK, RequestTypes
  <1>3. ASSUME NEW r \in Requests, NEW expected, Arrive(r, expected), NEW step, Goto(r, step),
               r \in Connects => expected = "Disconnected" /\ step \in {"connect", "done"}
        PROVE  OrderlyInv'
    <2> SUFFICES ASSUME orderly'
                 PROVE  /\ ~crashed /\ (status = "Connected" => verified)
                        /\ \A s \in Connects : ConnectInv(s)'
      BY <1>1 DEF OrderlyInv
    <2>1. orderly /\ InFlight = {} /\ status = expected /\ pc[r] = "idle"
      BY <1>3 DEF Arrive
    <2>2. pc'[r] = step /\ \A s \in Requests : s # r => pc'[s] = pc[s]
      BY <1>2, <1>3 DEF Goto
    <2>3. /\ ~crashed /\ (status = "Connected" => verified)
          /\ \A s \in Connects : ConnectInv(s)
      BY <2>1 DEF OrderlyInv
    <2>4. ASSUME NEW s \in Connects, s # r
          PROVE  ConnectInv(s)'
      <3>1. s \in Requests /\ s \notin InFlight /\ pc'[s] = pc[s]
        BY <2>1, <2>2, <2>4 DEF Requests
      <3>2. s \notin InFlight'
        BY <3>1 DEF InFlight
      <3> QED BY <1>1, <2>3, <3>1, <3>2 DEF ConnectInv
    <2>5. ASSUME r \in Connects
          PROVE  ConnectInv(r)'
      <3>1. ConnectInv(r) /\ status = "Disconnected" /\ pc'[r] \in {"connect", "done"}
        BY <1>3, <2>1, <2>2, <2>3, <2>5
      <3> QED BY <1>1, <2>1, <3>1 DEF ConnectInv, BeforeMarket, BeforeTrade, Starting, PingedSteps
    <2> QED BY <2>3, <2>4, <2>5
  <1>4. ASSUME NEW r \in Requests, NEW step, Goto(r, step), orderly' = orderly,
               pc[r] \in {"register", "forget"}, step \in {"subscribe", "disconnect"}
        PROVE  OrderlyInv'
    <2> SUFFICES ASSUME orderly
                 PROVE  /\ ~crashed /\ (status = "Connected" => verified)
                        /\ \A s \in Connects : ConnectInv(s)'
      BY <1>1, <1>4 DEF OrderlyInv
    <2>1. pc'[r] = step /\ \A s \in Requests : s # r => pc'[s] = pc[s]
      BY <1>2, <1>4 DEF Goto
    <2>2. /\ ~crashed /\ (status = "Connected" => verified)
          /\ \A s \in Connects : ConnectInv(s)
      BY DEF OrderlyInv
    <2>3. InFlight' = InFlight
      BY <1>4, <2>1 DEF InFlight
    <2>4. ASSUME NEW s \in Connects
          PROVE  ConnectInv(s)'
      <3>1. s \in Requests
        BY DEF Requests
      <3>2. CASE s = r
        BY <1>1, <1>4, <2>1, <2>2, <2>3, <3>2
           DEF ConnectInv, BeforeMarket, BeforeTrade, Starting, PingedSteps
      <3>3. CASE s # r
        BY <1>1, <2>1, <2>2, <2>3, <3>1, <3>3 DEF ConnectInv
      <3> QED BY <3>2, <3>3
    <2> QED BY <2>2, <2>4
  <1>5. ASSUME NEW r \in Connects, ConnectArrives(r) PROVE OrderlyInv'
    <2>1. Arrive(r, "Disconnected") /\ \E step \in {"connect", "done"} : Goto(r, step)
      BY <1>5 DEF ConnectArrives
    <2> QED BY <1>3, <2>1 DEF Requests
  <1>6. ASSUME NEW r \in Disconnects, DisconnectArrives(r) PROVE OrderlyInv'
    <2>1. r \in Requests /\ r \notin Connects
      BY RequestAssumption DEF Requests
    <2>2. Arrive(r, "Connected") /\ \E step : Goto(r, step)
      BY <1>6 DEF DisconnectArrives
    <2> QED BY <1>3, <2>1, <2>2
  <1>7. ASSUME NEW r \in Connects, RegisterCancel(r) PROVE OrderlyInv'
    BY <1>4, <1>7 DEF RegisterCancel, Requests
  <1>8. ASSUME NEW r \in Disconnects, ForgetCancel(r) PROVE OrderlyInv'
    BY <1>4, <1>8 DEF ForgetCancel, Requests
  <1> QED BY <1>5, <1>6, <1>7, <1>8 DEF HandlerStep, RequestStep

\* Every step keeps OrderlyInv.
LEMMA OrderlyPreserved ==
  ASSUME AlpacaInv, Next
  PROVE  OrderlyInv'
  <1> USE DEF AlpacaInv
  <1>1. ASSUME NEW k \in Kinds, NEW f \in Connects, FeedStep(k, f) PROVE OrderlyInv'
    <2>1. \A j \in Kinds, g \in Connects : run[j][g] = "new" => run'[j][g] = "new"
      BY <1>1, FeedEffects
    <2> QED BY <1>1, <2>1, OrderlyStays DEF FeedStep, requestVars
  <1>2. ASSUME NEW f \in Connects, MarketMessage(f) PROVE OrderlyInv'
    <2>1. "market" \in Kinds /\ "read" \in RunStates /\ "close" \in RunStates
      BY DEF Kinds, RunStates
    <2>2. \A k \in Kinds, g \in Connects : k # "market" \/ g # f => run'[k][g] = run[k][g]
      BY <1>2, <2>1, FeedGoesOn DEF MarketMessage
    <2>3. \A j \in Kinds, g \in Connects : run[j][g] = "new" => run'[j][g] = "new"
      BY <1>2, <2>2 DEF MarketMessage
    <2> QED BY <1>2, <2>3, OrderlyStays DEF MarketMessage, requestVars
  <1>3. ASSUME NEW f \in Connects, FillMessage(f) PROVE OrderlyInv'
    <2>1. \A j \in Kinds, g \in Connects : run[j][g] = "new" => run'[j][g] = "new"
      BY <1>3, FillEffects
    <2> QED BY <1>3, <2>1, OrderlyStays DEF FillMessage, requestVars
  <1>4. CASE OrderStep
    BY <1>4, OrderlyStays DEF OrderStep, requestVars, feedVars
  <1>5. ASSUME NEW o \in Orders, VenueFills(o) PROVE OrderlyInv'
    BY <1>5, OrderlyStays DEF VenueFills, requestVars
  <1> QED BY <1>1, <1>2, <1>3, <1>4, <1>5, ConnectOrderly, DisconnectOrderly, HandlerOrderly DEF Next

\* Every step keeps OneAtATime.
LEMMA OnePreserved ==
  ASSUME AlpacaInv, Next
  PROVE  OneAtATime'
  <1> USE DEF AlpacaInv
  <1>0. pc \in [Requests -> Steps \cup AlpacaSteps]
    BY DEF TypeOK, RequestTypes
  <1>1. CASE HandlerStep
    BY <1>0, <1>1, RequestsOneAtATime DEF HandlerStep
  <1>2. ASSUME NEW r \in Requests, r \in InFlight, orderly' = orderly, \E step : Goto(r, step)
        PROVE  OneAtATime'
    BY <1>0, <1>2, AdapterOneAtATime
  <1>3. ASSUME NEW r \in Connects, ConnectStep(r) PROVE OneAtATime'
    <2>1. r \in Requests /\ r \in InFlight
      BY <1>3 DEF ConnectStep, SetKeys, Ping, NewFeeds, StartFeed, SetStatus, Requests, InFlight
    <2>2. orderly' = orderly /\ \E step : Goto(r, step)
      BY <1>3 DEF ConnectStep, SetKeys, Ping, PingAnswered, NewFeeds, StartFeed, SetStatus, Connected
    <2> QED BY <1>2, <2>1, <2>2
  <1>4. ASSUME NEW r \in Disconnects, Disconnect(r) PROVE OneAtATime'
    <2>1. r \in Requests /\ r \in InFlight
      BY <1>4 DEF Disconnect, StopMarket, StopTrade, Stopped, Requests, InFlight
    <2>2. orderly' = orderly /\ \E step : Goto(r, step)
      BY <1>4 DEF Disconnect, StopMarket, StopTrade, Stopped
    <2> QED BY <1>2, <2>1, <2>2
  <1>5. ASSUME pc' = pc, orderly' = orderly PROVE OneAtATime'
    BY <1>5 DEF OneAtATime, InFlight
  <1>6. CASE (\E k \in Kinds, f \in Connects : FeedStep(k, f))
             \/ (\E f \in Connects : MarketMessage(f) \/ FillMessage(f))
             \/ OrderStep \/ \E o \in Orders : VenueFills(o)
    BY <1>5, <1>6 DEF FeedStep, MarketMessage, FillMessage, OrderStep, VenueFills, requestVars
  <1> QED BY <1>1, <1>3, <1>4, <1>6 DEF Next

-----------------------------------------------------------------------------
\* The invariant

\* The invariant holds at first.
LEMMA AlpacaStarts == Init => AlpacaInv
  <1> SUFFICES ASSUME Init PROVE AlpacaInv
    OBVIOUS
  <1>1. TypeOK
    <2>1. << >> \in Seq(Execs)
      OBVIOUS
    <2> QED BY <2>1 DEF Init, TypeOK, RequestInit, RequestTypes, Steps
  <1>2. LateInv
    BY DEF Init, LateInv
  <1>3. MessagesInv
    BY DEF Init, MessagesInv, IsInjective, Holders
  <1>4. InFlight = {}
    BY DEF Init, RequestInit, InFlight
  <1>5. OneAtATime
    BY <1>4 DEF OneAtATime
  <1>6. OrderlyInv
    BY <1>4 DEF Init, RequestInit, OrderlyInv, ConnectInv, Starting, PingedSteps, Kinds, Requests
  <1> QED BY <1>1, <1>2, <1>3, <1>5, <1>6 DEF AlpacaInv

\* A step that changes nothing keeps the invariant.
LEMMA AlpacaStutters ==
  ASSUME AlpacaInv, UNCHANGED vars
  PROVE  AlpacaInv'
  <1> USE DEF vars, requestVars, feedVars, orderVars
  <1>1. TypeOK'
    BY DEF AlpacaInv, TypeOK, RequestTypes
  <1>2. LateInv'
    BY DEF AlpacaInv, LateInv
  <1>3. MessagesInv'
    BY DEF AlpacaInv, MessagesInv
  <1>4. InFlight' = InFlight
    BY DEF InFlight
  <1>5. OneAtATime' /\ OrderlyInv'
    BY <1>4 DEF AlpacaInv, OneAtATime, OrderlyInv, ConnectInv
  <1> QED BY <1>1, <1>2, <1>3, <1>5 DEF AlpacaInv

\* The Alpaca adapter keeps its invariant.
THEOREM AlpacaInvariance == Spec => []AlpacaInv
  <1>1. AlpacaInv /\ [Next]_vars => AlpacaInv'
    <2> SUFFICES ASSUME AlpacaInv, [Next]_vars PROVE AlpacaInv'
      OBVIOUS
    <2>1. CASE Next
      BY <2>1, TypesPreserved, LatePreserved, MessagesPreserved, OnePreserved, OrderlyPreserved
         DEF AlpacaInv
    <2> QED BY <2>1, AlpacaStutters
  <1> QED BY <1>1, AlpacaStarts, PTL DEF Spec

\* Every variable of the adapter stays in its type.
THEOREM AlpacaTypes == Spec => []TypeOK
  BY AlpacaInvariance, PTL DEF AlpacaInv

\* Once the request that started it is answered, a trade feed takes at most the
\* one message it is waiting for.
THEOREM OneLateFill == Spec => []AtMostOneLateFill
  <1>1. AlpacaInv => AtMostOneLateFill
    BY DEF AlpacaInv, LateInv, AtMostOneLateFill
  <1> QED BY <1>1, AlpacaInvariance, PTL

\* Clients that act in order never make a goroutine of the adapter panic.
THEOREM OrderlyClientsAreSafe == Spec => []NoCrashInOrder
  <1>1. AlpacaInv => NoCrashInOrder
    BY DEF AlpacaInv, OrderlyInv, NoCrashInOrder
  <1> QED BY <1>1, AlpacaInvariance, PTL

\* For clients that act in order a connected venue has a credential that Alpaca
\* accepted.
THEOREM ConnectedIsVerified == Spec => []KeyVerifiedInOrder
  <1>1. AlpacaInv => KeyVerifiedInOrder
    BY DEF AlpacaInv, OrderlyInv, KeyVerifiedInOrder
  <1> QED BY <1>1, AlpacaInvariance, PTL

-----------------------------------------------------------------------------
\* The contract of FillFeed()

StreamOpen == Cardinality(Listening)
StreamDue  == [e \in Execs |-> Due(e)]

\* However many requests there may be, finitely many feeds are listening, and
\* finitely many messages under way, at any time.
FiniteInv == /\ IsFiniteSet(Listening)
             /\ \A e \in Execs : IsFiniteSet(Holders(inbox, e))

\* What of the streams a feed's step changes: it starts to listen, stops, or
\* goes on.
LEMMA ListeningChanges ==
  ASSUME TypeOK, NEW f \in Connects,
         \A g \in Connects : g # f => run'["trade"][g] = run["trade"][g]
  PROVE  Listening' \in {Listening, Listening \cup {f}, Listening \ {f}}
  <1>1. \A g \in Connects : g # f => (g \in Listening' <=> g \in Listening)
    BY DEF Listening
  <1>2. Listening \subseteq Connects /\ Listening' \subseteq Connects
    BY DEF Listening
  <1>3. CASE f \in Listening'
    BY <1>1, <1>2, <1>3
  <1>4. CASE f \notin Listening'
    BY <1>1, <1>2, <1>4
  <1> QED BY <1>3, <1>4

\* Messages are lost and connections with them.
LEMMA StreamsClose ==
  ASSUME FiniteInv, Listening' \subseteq Listening, copies' = copies,
         \A f \in Connects : inbox'[f] = inbox[f] \/ inbox'[f] = << >>
  PROVE  Stream!CloseStreams /\ FiniteInv'
  <1>1. IsFiniteSet(Listening) /\ \A e \in Execs : IsFiniteSet(Holders(inbox, e))
    BY DEF FiniteInv
  <1>2. StreamOpen' \in 0 .. StreamOpen /\ IsFiniteSet(Listening')
    <2>1. /\ Cardinality(Listening) \in Nat /\ Cardinality(Listening') \in Nat
          /\ Cardinality(Listening') <= Cardinality(Listening)
          /\ IsFiniteSet(Listening')
      BY <1>1, HoldersCounted
    <2> QED BY <2>1 DEF StreamOpen
  <1>3. ASSUME NEW e \in Execs
        PROVE  /\ Due(e)' \in Nat /\ Due(e)' <= Due(e)
               /\ IsFiniteSet(Holders(inbox', e))
    <2>1. Holders(inbox', e) \subseteq Holders(inbox, e)
      BY DEF Holders
    <2>2. /\ Cardinality(Holders(inbox', e)) \in Nat
          /\ Cardinality(Holders(inbox', e)) <= Cardinality(Holders(inbox, e))
          /\ IsFiniteSet(Holders(inbox', e))
      BY <1>1, <2>1, HoldersCounted
    <2> QED BY <2>2 DEF Due, Holders
  <1>4. /\ StreamDue' \in [Execs -> Nat]
        /\ \A e \in Execs : StreamDue'[e] <= StreamDue[e]
    BY <1>3 DEF StreamDue
  <1>5. Stream!CloseStreams
    BY <1>2, <1>4 DEF Stream!CloseStreams, StreamOpen, StreamDue
  <1> QED BY <1>2, <1>3, <1>5 DEF FiniteInv

\* Feeds and messages stay as they are for the contract.
LEMMA StreamsStay ==
  ASSUME FiniteInv, Listening' = Listening, inbox' = inbox, copies' = copies
  PROVE  UNCHANGED Stream!vars /\ FiniteInv'
  BY DEF Stream!vars, Due, FiniteInv, Holders

\* What a step of a goroutine is for the contract.
LEMMA FeedStreams ==
  ASSUME FiniteInv, AlpacaInv, NEW k \in Kinds, NEW f \in Connects, FeedStep(k, f)
  PROVE  (Stream!Next \/ UNCHANGED Stream!vars) /\ FiniteInv'
  <1> USE DEF AlpacaInv
  <1>0. "trade" \in Kinds /\ "market" \in Kinds /\ copies' = copies
    BY DEF Kinds, FeedStep, orderVars
  <1>1. \A j \in Kinds, g \in Connects : j # k \/ g # f => run'[j][g] = run[j][g]
    BY FeedEffects
  <1>2. CASE k = "market"
    <2>1. Listening' = Listening
      BY <1>0, <1>1, <1>2 DEF Listening
    <2>2. inbox' = inbox
      BY <1>2, FeedEffects DEF LosesInbox
    <2> QED BY <1>0, <2>1, <2>2, StreamsStay
  <1>3. CASE k = "trade"
    <2>1. Listening' \in {Listening, Listening \cup {f}, Listening \ {f}}
      BY <1>0, <1>1, <1>3, ListeningChanges
    <2>2. CASE run[k][f] = "dial" /\ inbox' = inbox
      <3>1. f \notin Listening
        BY <1>3, <2>2 DEF Listening
      <3>2. CASE Listening' = Listening
        BY <1>0, <2>2, <3>2, StreamsStay
      <3>3. CASE Listening' = Listening \cup {f}
        <4>1. IsFiniteSet(Listening)
          BY DEF FiniteInv
        <4>2. StreamOpen' = StreamOpen + 1 /\ IsFiniteSet(Listening')
          BY <3>1, <3>3, <4>1, HoldersCounted DEF StreamOpen
        <4>3. Stream!OpenStream
          BY <1>0, <2>2, <4>2 DEF Stream!OpenStream, StreamOpen, Due
        <4>4. FiniteInv'
          BY <2>2, <4>2 DEF FiniteInv, Holders
        <4> QED BY <4>3, <4>4 DEF Stream!Next
      <3> QED BY <2>1, <3>1, <3>2, <3>3
    <2>3. CASE run[k][f] \in {"read", "close"} /\ LosesInbox(k, f)
      <3>1. f \in Listening
        BY <1>3, <2>3 DEF Listening
      <3>2. \A g \in Connects : inbox'[g] = inbox[g] \/ inbox'[g] = << >>
        BY <2>3, InboxLost
      <3>3. Listening' \subseteq Listening
        BY <2>1, <3>1
      <3> QED BY <1>0, <3>2, <3>3, StreamsClose DEF Stream!Next
    <2> QED BY <2>2, <2>3, FeedEffects
  <1> QED BY <1>2, <1>3 DEF Kinds

\* A fill that was read is reported or dropped.
LEMMA FillStreams ==
  ASSUME FiniteInv, AlpacaInv, NEW f \in Connects, FillMessage(f)
  PROVE  Stream!Next /\ FiniteInv'
  <1> USE DEF AlpacaInv
  <1> DEFINE h == Head(inbox[f])
  <1>1. /\ \A k \in Kinds, g \in Connects : k # "trade" \/ g # f => run'[k][g] = run[k][g]
        /\ run["trade"][f] = "read" /\ run'["trade"][f] \in {"close", "read"}
        /\ h \in Execs /\ f \in Holders(inbox, h)
        /\ Holders(inbox', h) = Holders(inbox, h) \ {f}
        /\ \A e : e # h => Holders(inbox', e) = Holders(inbox, e)
        /\ copies' \in [Execs -> Nat]
        /\ \A e \in Execs : e # h => copies'[e] = copies[e]
        /\ copies'[h] \in {copies[h], copies[h] + 1}
    BY FillEffects
  <1>2. copies \in [Execs -> Nat] /\ "trade" \in Kinds
    BY DEF TypeOK, Kinds
  <1> HIDE DEF h
  <1>3. Listening' = Listening
    BY <1>1, <1>2 DEF Listening
  <1>4. IsFiniteSet(Holders(inbox, h))
    BY <1>1 DEF FiniteInv
  <1>5. \A e : Due(e) = Cardinality(Holders(inbox, e)) /\ Due(e)' = Cardinality(Holders(inbox', e))
    BY DEF Due, Holders
  <1>6. /\ Cardinality(Holders(inbox, h)) \in Nat
        /\ Cardinality(Holders(inbox, h)) > 0
        /\ Cardinality(Holders(inbox', h)) = Cardinality(Holders(inbox, h)) - 1
    <2>1. /\ Cardinality(Holders(inbox, h)) \in Nat
          /\ Cardinality(Holders(inbox, h)) # 0
          /\ Cardinality(Holders(inbox, h) \ {f}) = Cardinality(Holders(inbox, h)) - 1
      BY <1>1, <1>4, HoldersCounted
    <2> QED BY <1>1, <2>1
  <1>7. StreamDue[h] > 0 /\ StreamDue' = [StreamDue EXCEPT ![h] = @ - 1]
    BY <1>1, <1>5, <1>6 DEF StreamDue
  <1>8. ASSUME copies'[h] = copies[h] PROVE Stream!Next
    <2>1. copies' = copies
      BY <1>1, <1>2, <1>8
    <2> QED BY <1>1, <1>3, <1>7, <2>1 DEF Stream!Next, Stream!Drop, StreamDue
  <1>9. ASSUME copies'[h] = copies[h] + 1 PROVE Stream!Next
    <2>1. copies' = [copies EXCEPT ![h] = @ + 1]
      BY <1>1, <1>2, <1>9
    <2> QED BY <1>1, <1>3, <1>7, <2>1 DEF Stream!Next, Stream!Report, StreamDue
  <1>10. FiniteInv'
    <2>1. IsFiniteSet(Holders(inbox', h))
      BY <1>1, <1>4, HoldersCounted
    <2> QED BY <1>1, <1>3, <2>1 DEF FiniteInv
  <1> QED BY <1>1, <1>8, <1>9, <1>10

\* A fill at the venue is told to every stream.
LEMMA VenueStreams ==
  ASSUME FiniteInv, AlpacaInv, NEW o \in Orders, VenueFills(o)
  PROVE  Stream!Next /\ FiniteInv'
  <1> USE DEF AlpacaInv
  <1> DEFINE x == <<o, venue[o].fills + 1>>
  <1>1. /\ x \in Execs /\ Holders(inbox, x) = {} /\ copies[x] = 0
        /\ Holders(inbox', x) = Listening
        /\ \A d : d # x => Holders(inbox', d) = Holders(inbox, d)
    BY VenueEffects
  <1>2. Listening' = Listening /\ copies' = copies
    BY DEF VenueFills, Listening
  <1> HIDE DEF x
  <1>3. \A e : Due(e) = Cardinality(Holders(inbox, e)) /\ Due(e)' = Cardinality(Holders(inbox', e))
    BY DEF Due, Holders
  <1>4. StreamDue[x] = 0 /\ StreamDue' = [StreamDue EXCEPT ![x] = StreamOpen]
    BY <1>1, <1>3, FS_EmptySet DEF StreamDue, StreamOpen
  <1>5. Stream!Execute(x)
    BY <1>1, <1>2, <1>4 DEF Stream!Execute, StreamDue, StreamOpen
  <1>6. FiniteInv'
    BY <1>1, <1>2 DEF FiniteInv
  <1> QED BY <1>1, <1>5, <1>6 DEF Stream!Next

\* Every execution is reported at most once per trade feed that was listening
\* when it happened, for any set of requests: the adapter keeps the contract of
\* FillFeed().
THEOREM FillsFollow == Spec => FillsFollowStream
  <1>1. Init => Stream!Init /\ FiniteInv
    <2> SUFFICES ASSUME Init PROVE Stream!Init /\ FiniteInv
      OBVIOUS
    <2>1. Listening = {}
      BY DEF Init, Listening, Kinds
    <2>2. ASSUME NEW e \in Execs PROVE Due(e) = 0
      <3>1. {f \in Connects : \E i \in DOMAIN inbox[f] : inbox[f][i] = e} = {}
        BY DEF Init
      <3> QED BY <3>1, FS_EmptySet DEF Due
    <2>3. Stream!Init
      BY <2>1, <2>2, FS_EmptySet DEF Stream!Init, Init
    <2>4. ASSUME NEW e \in Execs PROVE Holders(inbox, e) = {}
      BY DEF Init, Holders
    <2> QED BY <2>1, <2>3, <2>4, FS_EmptySet DEF FiniteInv
  <1>2. AlpacaInv /\ FiniteInv /\ [Next]_vars => [Stream!Next]_(Stream!vars) /\ FiniteInv'
    <2> DEFINE Follows == (Stream!Next \/ UNCHANGED Stream!vars) /\ FiniteInv'
    <2> SUFFICES ASSUME AlpacaInv, FiniteInv, [Next]_vars
                 PROVE  Follows
      OBVIOUS
    <2>1. ASSUME NEW k \in Kinds, NEW f \in Connects, FeedStep(k, f)
          PROVE  Follows
      BY <2>1, FeedStreams
    <2>2. ASSUME NEW f \in Connects, FillMessage(f) PROVE Follows
      BY <2>2, FillStreams
    <2>3. ASSUME NEW o \in Orders, VenueFills(o) PROVE Follows
      BY <2>3, VenueStreams
    <2>4. ASSUME NEW f \in Connects, MarketMessage(f) PROVE Follows
      <3>1. "market" \in Kinds /\ "trade" \in Kinds /\ "read" \in RunStates /\ "close" \in RunStates
        BY DEF Kinds, RunStates
      <3>2. \A k \in Kinds, g \in Connects : k # "market" \/ g # f => run'[k][g] = run[k][g]
        BY <2>4, <3>1, FeedGoesOn DEF MarketMessage, AlpacaInv
      <3>3. Listening' = Listening
        BY <3>1, <3>2 DEF Listening
      <3> QED BY <2>4, <3>3, StreamsStay DEF MarketMessage, orderVars
    <2>5. ASSUME NEW r \in Connects, StartFeed(r) PROVE Follows
      <3>1. \A f \in Connects : \/ run'["trade"][f] = run["trade"][f]
                                \/ run["trade"][f] = "new" /\ run'["trade"][f] \in {"dial", "ended"}
        BY <2>5, LaunchEffects DEF Kinds, AlpacaInv
      <3>2. \A f \in Connects : f \in Listening' <=> f \in Listening
        BY <3>1 DEF Listening
      <3>3. Listening' = Listening
        BY <3>2 DEF Listening
      <3> QED BY <2>5, <3>3, StreamsStay DEF StartFeed, orderVars
    <2>6. ASSUME run' = run, inbox' = inbox, copies' = copies PROVE Follows
      BY <2>6, StreamsStay DEF Listening
    <2>7. ASSUME NEW r \in Connects, ConnectStep(r), ~ StartFeed(r) PROVE Follows
      BY <2>6, <2>7 DEF ConnectStep, SetKeys, Ping, NewFeeds, SetStatus, feedVars, orderVars
    <2>8. CASE HandlerStep \/ (\E r \in Disconnects : Disconnect(r)) \/ OrderStep \/ UNCHANGED vars
      BY <2>6, <2>8 DEF HandlerStep, Disconnect, OrderStep, vars, feedVars, orderVars
    <2> QED BY <2>1, <2>2, <2>3, <2>4, <2>5, <2>7, <2>8 DEF Next
  <1> QED BY <1>1, <1>2, AlpacaInvariance, PTL DEF Spec, FillsFollowStream, Stream!Spec
=============================================================================
