----------------------- MODULE SimulatedExchangeProofs -----------------------
(***************************************************************************)
(* Theorems about the simulated exchange, for any orders, prices, channel  *)
(* capacity and requests.                                                  *)
(***************************************************************************)
EXTENDS SimulatedExchange, VenueRequestsProofs, SequenceTheorems

-----------------------------------------------------------------------------
\* The inductive invariant

\* Outside of a sweep nothing is set aside, and no order is in the book twice.
BookInv ==
  /\ mutex = NoRequest => todo = << >> /\ kept = << >>
  /\ IsInjective(book) /\ IsInjective(todo) /\ IsInjective(kept)
  /\ ToSet(todo) \cap ToSet(kept) = {}

\* The orders the book holds, as Working has it, without the order of the book.
Held == IF mutex = NoRequest THEN ToSet(book) ELSE ToSet(todo) \cup ToSet(kept)

Taken(o) == call[o] \in {"acked", "canceling", "canceled"}

\* A limit order that was not taken is nowhere; one that was is in one place.
InOnePlace(o) ==
  /\ ~Taken(o) => filled[o] = 0 /\ o \notin Held \cup removed
  /\ Taken(o) => \/ filled[o] = 1 /\ o \notin Held /\ o \notin removed
                 \/ filled[o] = 0 /\ o \in Held /\ o \notin removed
                 \/ filled[o] = 0 /\ o \notin Held /\ o \in removed

PlacesInv == \A o \in Orders : Type[o] = "limit" => InOnePlace(o)

\* A walker has its stop signal, or the ticker is stopped already.
Stopping == ~ticking \/ \E w \in Connects : walk[w] = "stopping"

\* Unless a Start came in between, a walker stops the ticker of a connection
\* that is gone, or that a Disconnect is about to end.
TickerInv ==
  orderly /\ ~overtaken /\ Stopping =>
    /\ status = "Disconnected" \/ \E r \in Disconnects : pc[r] = "clearStatus"
    /\ \A r \in Requests : pc[r] # "setStatus"

ExchangeInv == TypeOK /\ BookInv /\ PlacesInv /\ OneAtATime /\ TickerInv

-----------------------------------------------------------------------------
\* Lemmas about the book

\* An order is taken out.
LEMMA RemoveOnce ==
  ASSUME NEW S, NEW s \in Seq(S), IsInjective(s), NEW at \in DOMAIN s
  PROVE  /\ RemoveAt(s, at) \in Seq(S)
         /\ ToSet(RemoveAt(s, at)) = ToSet(s) \ {s[at]}
         /\ IsInjective(RemoveAt(s, at))
  <1> DEFINE a == SubSeq(s, 1, at - 1)
             b == SubSeq(s, at + 1, Len(s))
             t == RemoveAt(s, at)
             n == Len(s)
  <1>1. n \in Nat /\ DOMAIN s = 1 .. n /\ at \in 1 .. n /\ \A k \in 1 .. n : s[k] \in S
    OBVIOUS
  <1>2. /\ a \in Seq(S) /\ Len(a) = at - 1
        /\ \A k \in 1 .. at - 1 : a[k] = s[k]
    <2>1. \A k \in 1 .. at - 1 : s[k] \in S
      BY <1>1
    <2> QED BY <1>1, <2>1, SubSeqProperties
  <1>3. /\ b \in Seq(S) /\ Len(b) = n - at
        /\ \A k \in 1 .. n - at : b[k] = s[at + k]
    <2>1. \A k \in at + 1 .. n : s[k] \in S
      BY <1>1
    <2>2. at + 1 \in Int /\ n \in Int
      BY <1>1
    <2>3. /\ b \in Seq(S)
          /\ Len(b) = IF at + 1 <= n THEN n - (at + 1) + 1 ELSE 0
          /\ \A k \in 1 .. n - (at + 1) + 1 : b[k] = s[(at + 1) + k - 1]
      BY <2>1, <2>2, SubSeqProperties
    <2>4. Len(b) = n - at
      BY <1>1, <2>3
    <2>5. n - (at + 1) + 1 = n - at
      BY <1>1
    <2>6. \A k \in 1 .. n - at : (at + 1) + k - 1 = at + k
      BY <1>1
    <2> QED BY <2>3, <2>4, <2>5, <2>6
  <1> HIDE DEF a, b, n
  <1>4. /\ t \in Seq(S) /\ DOMAIN t = 1 .. n - 1
        /\ \A k \in 1 .. n - 1 : t[k] = IF k < at THEN s[k] ELSE s[k + 1]
    <2>1. t = a \o b
      BY DEF RemoveAt, a, b
    <2>2. /\ a \o b \in Seq(S) /\ Len(a \o b) = n - 1
          /\ \A k \in 1 .. n - 1 : (a \o b)[k] = IF k <= at - 1 THEN a[k] ELSE b[k - (at - 1)]
      <3>1. /\ a \o b \in Seq(S)
            /\ Len(a \o b) = Len(a) + Len(b)
            /\ \A k \in 1 .. Len(a) + Len(b) :
                 (a \o b)[k] = IF k <= Len(a) THEN a[k] ELSE b[k - Len(a)]
        BY <1>2, <1>3, ConcatProperties
      <3>2. Len(a) + Len(b) = n - 1
        BY <1>1, <1>2, <1>3
      <3> QED BY <1>2, <3>1, <3>2
    <2>3. ASSUME NEW k \in 1 .. n - 1
          PROVE  t[k] = IF k < at THEN s[k] ELSE s[k + 1]
      <3>1. CASE k < at
        <4>1. k \in 1 .. at - 1 /\ k <= at - 1
          BY <1>1, <3>1
        <4> QED BY <1>2, <2>1, <2>2, <3>1, <4>1
      <3>2. CASE ~ (k < at)
        <4>1. ~ (k <= at - 1) /\ k - (at - 1) \in 1 .. n - at /\ at + (k - (at - 1)) = k + 1
          BY <1>1, <3>2
        <4>2. b[k - (at - 1)] = s[at + (k - (at - 1))]
          BY <1>3, <4>1
        <4>3. t[k] = b[k - (at - 1)]
          BY <2>1, <2>2, <4>1
        <4> QED BY <3>2, <4>1, <4>2, <4>3
      <3> QED BY <3>1, <3>2
    <2>4. DOMAIN t = 1 .. n - 1 /\ t \in Seq(S)
      BY <2>1, <2>2
    <2> QED BY <2>3, <2>4
  <1> HIDE DEF t
  <1>5. \A j, k \in 1 .. n : s[j] = s[k] => j = k
    BY <1>1 DEF IsInjective
  \* t[k] = s[from(k)]
  <1> DEFINE from(k) == IF k < at THEN k ELSE k + 1
  <1>6. \A k \in 1 .. n - 1 : from(k) \in 1 .. n /\ from(k) # at
    BY <1>1
  <1>7. \A k \in 1 .. n - 1 : t[k] = s[from(k)]
    BY <1>4
  <1>8. \A j, k \in 1 .. n - 1 : from(j) = from(k) => j = k
    BY <1>1
  <1>9. \A j \in 1 .. n : j = at \/ \E k \in 1 .. n - 1 : from(k) = j
    <2> TAKE j \in 1 .. n
    <2>1. CASE j < at
      <3>1. j \in 1 .. n - 1 /\ from(j) = j
        BY <1>1, <2>1
      <3> QED BY <3>1
    <2>2. CASE j > at
      <3>1. j - 1 \in 1 .. n - 1 /\ from(j - 1) = j
        BY <1>1, <2>2
      <3> QED BY <3>1
    <2> QED BY <1>1, <2>1, <2>2
  <1> HIDE DEF from
  <1>10. IsInjective(t)
    BY <1>4, <1>5, <1>6, <1>7, <1>8 DEF IsInjective
  <1>11. ToSet(t) = ToSet(s) \ {s[at]}
    <2>1. \A x \in ToSet(t) : x \in ToSet(s) /\ x # s[at]
      BY <1>1, <1>4, <1>5, <1>6, <1>7 DEF ToSet
    <2>2. ASSUME NEW x \in ToSet(s), x # s[at]
          PROVE  x \in ToSet(t)
      <3>1. PICK j \in 1 .. n : x = s[j]
        BY <1>1 DEF ToSet
      <3>2. PICK k \in 1 .. n - 1 : from(k) = j
        BY <1>9, <2>2, <3>1
      <3>3. t[k] = x
        BY <1>7, <3>1, <3>2
      <3> QED BY <1>4, <3>3 DEF ToSet
    <2> QED BY <2>1, <2>2
  <1> QED BY <1>4, <1>10, <1>11 DEF t

\* Working as a set of what is in the book.
LEMMA WorkingIsHeld ==
  ASSUME TypeOK
  PROVE  Working = Held
  <1>1. CASE mutex = NoRequest
    BY <1>1 DEF Working, Held
  <1>2. CASE mutex # NoRequest
    <2>1. todo \in Seq(Orders) /\ kept \in Seq(Orders)
      BY DEF TypeOK
    <2> DEFINE t == todo \o kept
               m == Len(todo)
               n == Len(kept)
    <2>2. /\ m \in Nat /\ n \in Nat /\ DOMAIN todo = 1 .. m /\ DOMAIN kept = 1 .. n
          /\ DOMAIN t = 1 .. m + n
          /\ \A k \in 1 .. m + n : t[k] = IF k <= m THEN todo[k] ELSE kept[k - m]
      BY <2>1, ConcatProperties
    <2> HIDE DEF t, m, n
    <2>3. \A k \in 1 .. m : k \in 1 .. m + n /\ k <= m
      BY <2>2
    <2>4. \A k \in 1 .. n : m + k \in 1 .. m + n /\ ~ (m + k <= m) /\ (m + k) - m = k
      BY <2>2
    <2>5. \A k \in 1 .. m + n : k \in 1 .. m \/ (~ (k <= m) /\ k - m \in 1 .. n)
      BY <2>2
    <2>6. ASSUME NEW x \in ToSet(t)
          PROVE  x \in ToSet(todo) \cup ToSet(kept)
      <3>1. PICK k \in 1 .. m + n : x = t[k]
        BY <2>2 DEF ToSet
      <3>2. CASE k \in 1 .. m
        BY <2>2, <2>3, <3>1, <3>2 DEF ToSet
      <3>3. CASE ~ (k <= m) /\ k - m \in 1 .. n
        BY <2>2, <3>1, <3>3 DEF ToSet
      <3> QED BY <2>5, <3>2, <3>3
    <2>7. ASSUME NEW x \in ToSet(todo)
          PROVE  x \in ToSet(t)
      <3>1. PICK k \in 1 .. m : x = todo[k]
        BY <2>2 DEF ToSet
      <3>2. k \in 1 .. m + n /\ t[k] = x
        BY <2>2, <2>3, <3>1
      <3> QED BY <2>2, <3>2 DEF ToSet
    <2>8. ASSUME NEW x \in ToSet(kept)
          PROVE  x \in ToSet(t)
      <3>1. PICK k \in 1 .. n : x = kept[k]
        BY <2>2 DEF ToSet
      <3>2. m + k \in 1 .. m + n /\ t[m + k] = x
        BY <2>2, <2>4, <3>1
      <3> QED BY <2>2, <3>2 DEF ToSet
    <2>9. ToSet(t) = ToSet(todo) \cup ToSet(kept)
      BY <2>6, <2>7, <2>8
    <2> QED BY <1>2, <2>9 DEF Working, Held, t
  <1> QED BY <1>1, <1>2

-----------------------------------------------------------------------------
\* The types

\* The steps of the sweeps keep the types.
LEMMA SweepTypes ==
  ASSUME TypeOK, BookInv, NEW s \in Connects, SweepStep(s)
  PROVE  TypeOK'
  <1>1. RequestTypes({"setStatus", "clearStatus"})'
    BY DEF SweepStep, TypeOK, RequestTypes, requestVars
  <1>2. /\ price' \in Prices /\ ticking' \in BOOLEAN /\ overtaken' \in BOOLEAN
        /\ walk' \in [Connects -> {"none", "select", "stopping"}]
        /\ sweepers' \subseteq Connects /\ removed' \subseteq Orders
        /\ call' \in [Orders -> {"none", "checked", "acked", "failed", "canceling", "canceled"}]
    BY DEF SweepStep, walkVars, TypeOK
  <1>3. /\ book \in Seq(Orders) /\ todo \in Seq(Orders) /\ kept \in Seq(Orders)
        /\ << >> \in Seq(Orders)
    BY DEF TypeOK
  <1>4. queued \in Nat /\ FillCap \in Nat
    BY SimulatedAssumption DEF TypeOK
  <1>5. CASE ReadPrice(s)
    BY <1>1, <1>2, <1>5 DEF ReadPrice, bookVars, TypeOK
  <1>6. CASE LockBook(s)
    <2>1. book' \in Seq(Orders) /\ todo' \in Seq(Orders) /\ kept' \in Seq(Orders)
      BY <1>3, <1>6 DEF LockBook
    <2> QED BY <1>1, <1>2, <1>6, <2>1 DEF LockBook, TypeOK
  <1>7. CASE Match(s)
    <2>1. /\ Head(todo) \in Orders /\ Tail(todo) \in Seq(Orders)
          /\ Append(kept, Head(todo)) \in Seq(Orders)
      BY <1>3, <1>7, TailOnce, AppendOnce DEF Match, BookInv
    <2>2. book' \in Seq(Orders) /\ todo' \in Seq(Orders) /\ kept' \in Seq(Orders)
      BY <1>3, <1>7, <2>1 DEF Match
    <2>3. filled' \in [Orders -> Nat]
      <3>1. filled' = filled \/ filled' = [filled EXCEPT ![Head(todo)] = @ + 1]
        BY <1>7 DEF Match
      <3> QED BY <2>1, <3>1 DEF TypeOK
    <2>4. queued' \in 0 .. FillCap
      <3>1. queued' = queued \/ (queued < FillCap /\ queued' = queued + 1)
        BY <1>7 DEF Match, HasRoom
      <3>2. queued \in 0 .. FillCap
        BY DEF TypeOK
      <3> QED BY <1>4, <3>1, <3>2
    <2> QED BY <1>1, <1>2, <1>7, <2>2, <2>3, <2>4 DEF Match, TypeOK
  <1>8. CASE UnlockBook(s)
    <2>1. book' \in Seq(Orders) /\ todo' \in Seq(Orders) /\ kept' \in Seq(Orders)
      BY <1>3, <1>8 DEF UnlockBook
    <2> QED BY <1>1, <1>2, <1>8, <2>1 DEF UnlockBook, TypeOK
  <1> QED BY <1>5, <1>6, <1>7, <1>8 DEF SweepStep

\* The steps of the orders keep the types.
LEMMA OrderTypes ==
  ASSUME TypeOK, BookInv, NEW o \in Orders, OrderStep(o)
  PROVE  TypeOK'
  <1>1. RequestTypes({"setStatus", "clearStatus"})'
    BY DEF OrderStep, TypeOK, RequestTypes, requestVars
  <1>2. /\ price' \in Prices /\ ticking' \in BOOLEAN /\ overtaken' \in BOOLEAN
        /\ walk' \in [Connects -> {"none", "select", "stopping"}]
        /\ sweepers' \subseteq Connects /\ sweep' \in [Connects -> Prices \cup {Unread}]
        /\ mutex' \in Connects \cup {NoRequest}
        /\ todo' \in Seq(Orders) /\ kept' \in Seq(Orders)
    BY DEF OrderStep, walkVars, sweepVars, TypeOK
  <1>3. call' \in [Orders -> {"none", "checked", "acked", "failed", "canceling", "canceled"}]
    BY DEF OrderStep, SubmitOrder, ProcessOrder, CancelOrder, RemoveOrder, TypeOK
  <1>4. book' \in Seq(Orders)
    <2>1. book \in Seq(Orders) /\ Append(book, o) \in Seq(Orders)
          /\ \A k \in DOMAIN book : RemoveAt(book, k) \in Seq(Orders)
      BY AppendOnce, RemoveOnce DEF TypeOK, BookInv
    <2> QED BY <2>1 DEF OrderStep, SubmitOrder, ProcessOrder, FillMarketOrder, QueueLimitOrder,
                        CancelOrder, RemoveOrder
  <1>5. filled' \in [Orders -> Nat] /\ removed' \subseteq Orders
    <2>0. filled \in [Orders -> Nat] /\ removed \subseteq Orders
      BY DEF TypeOK
    <2>1. CASE SubmitOrder(o) \/ ProcessOrder(o)
      <3>1. CASE SubmitOrder(o)
        BY <2>0, <3>1 DEF SubmitOrder
      <3>2. CASE ProcessOrder(o)
        BY <2>0, <3>2 DEF ProcessOrder, FillMarketOrder, QueueLimitOrder
      <3> QED BY <2>1, <3>1, <3>2
    <2>2. CASE CancelOrder(o) \/ RemoveOrder(o)
      BY <2>2 DEF CancelOrder, RemoveOrder, TypeOK
    <2> QED BY <2>1, <2>2 DEF OrderStep
  <1>6. queued' \in 0 .. FillCap
    <2>1. queued' = queued \/ (queued < FillCap /\ queued' = queued + 1)
      <3>1. CASE SubmitOrder(o) \/ ProcessOrder(o)
        BY <3>1 DEF SubmitOrder, ProcessOrder, FillMarketOrder, QueueLimitOrder, HasRoom
      <3>2. CASE CancelOrder(o) \/ RemoveOrder(o)
        BY <3>2 DEF CancelOrder, RemoveOrder
      <3> QED BY <3>1, <3>2 DEF OrderStep
    <2>2. queued \in 0 .. FillCap /\ FillCap \in Nat
      BY SimulatedAssumption DEF TypeOK
    <2> QED BY <2>1, <2>2
  <1> QED BY <1>1, <1>2, <1>3, <1>4, <1>5, <1>6 DEF TypeOK

\* The steps that connect and disconnect keep the types.
LEMMA ConnectionTypes ==
  ASSUME TypeOK, ConnectionStep
  PROVE  TypeOK'
  <1>1. /\ sweep' = sweep /\ mutex' = mutex /\ book' = book /\ todo' = todo /\ kept' = kept
        /\ call' = call /\ filled' = filled /\ removed' = removed /\ queued' = queued
        /\ mdCancel' = mdCancel /\ pumps' = pumps /\ ended' = ended /\ orderly' = orderly
    BY DEF ConnectionStep, bookVars, orderVars
  <1>2. ASSUME NEW r \in Connects, StartEngine(r)
        PROVE  TypeOK'
    <2>1. r \in Requests
      BY DEF Requests
    <2>2. RequestTypes({"setStatus", "clearStatus"})'
      BY <1>1, <1>2, <2>1 DEF StartEngine, Goto, RequestTypes, TypeOK
    <2>3. /\ price' \in Prices /\ ticking' \in BOOLEAN /\ overtaken' \in BOOLEAN
          /\ walk' \in [Connects -> {"none", "select", "stopping"}]
          /\ sweepers' \subseteq Connects
      BY <1>2 DEF StartEngine, NewTicker, TypeOK
    <2> QED BY <1>1, <2>2, <2>3 DEF TypeOK
  <1>3. ASSUME NEW r \in Disconnects, StopEngine(r)
        PROVE  TypeOK'
    <2>1. r \in Requests
      BY DEF Requests
    <2>2. RequestTypes({"setStatus", "clearStatus"})'
      BY <1>1, <1>3, <2>1 DEF StopEngine, Goto, RequestTypes, TypeOK
    <2>3. walk' \in [Connects -> {"none", "select", "stopping"}]
      BY <1>3 DEF StopEngine, TypeOK
    <2> QED BY <1>1, <1>3, <2>2, <2>3 DEF StopEngine, TypeOK
  <1>4. ASSUME NEW r \in Requests, SetStatus(r)
        PROVE  TypeOK'
    <2>1. RequestTypes({"setStatus", "clearStatus"})'
      BY <1>1, <1>4, SimulatedAssumption
      DEF SetStatus, Connected, Goto, RequestTypes, TypeOK, Steps
    <2> QED BY <1>1, <1>4, <2>1 DEF SetStatus, walkVars, TypeOK
  <1> QED BY <1>2, <1>3, <1>4 DEF ConnectionStep

\* Every step keeps the types.
LEMMA TypesPreserved ==
  ASSUME TypeOK, BookInv, Next
  PROVE  TypeOK'
  <1>1. CASE HandlerStep
    <2>1. RequestTypes({"setStatus", "clearStatus"})'
      BY <1>1, RequestTypesKept DEF HandlerStep, TypeOK
    <2> QED BY <1>1, <2>1 DEF HandlerStep, walkVars, sweepVars, bookVars, orderVars, TypeOK
  <1>2. ASSUME NEW w \in Connects, WalkStep(w)
        PROVE  TypeOK'
    <2>1. RequestTypes({"setStatus", "clearStatus"})'
      BY <1>2 DEF WalkStep, TypeOK, RequestTypes, requestVars
    <2>2. /\ price' \in Prices /\ ticking' \in BOOLEAN
          /\ walk' \in [Connects -> {"none", "select", "stopping"}]
      BY <1>2 DEF WalkStep, WalkMove, WalkEnds, TypeOK
    <2> QED BY <1>2, <2>1, <2>2 DEF WalkStep, sweepVars, bookVars, orderVars, TypeOK
  <1>3. CASE CollectFill
    <2>1. RequestTypes({"setStatus", "clearStatus"})'
      BY <1>3 DEF CollectFill, TypeOK, RequestTypes, requestVars
    <2>2. queued' \in 0 .. FillCap
      <3>1. queued \in 0 .. FillCap /\ queued > 0 /\ queued' = queued - 1 /\ FillCap \in Nat
        BY <1>3, SimulatedAssumption DEF CollectFill, TypeOK
      <3> QED BY <3>1
    <2> QED BY <1>3, <2>1, <2>2 DEF CollectFill, walkVars, sweepVars, bookVars, TypeOK
  <1> QED BY <1>1, <1>2, <1>3, ConnectionTypes, SweepTypes, OrderTypes DEF Next

-----------------------------------------------------------------------------
\* The book and the places of the orders

\* A sweep moves orders about, and fills each it takes from the book once.
LEMMA SweepPlaces ==
  ASSUME TypeOK, BookInv, PlacesInv, NEW s \in Connects, SweepStep(s)
  PROVE  BookInv' /\ PlacesInv'
  <1>1. call' = call /\ removed' = removed
    BY DEF SweepStep
  <1>2. s # NoRequest
    BY RequestAssumption DEF Requests
  <1>3. /\ IsInjective(<< >>) /\ ToSet(<< >>) = {}
    BY DEF IsInjective, ToSet
  <1>4. ASSUME filled' = filled, Held' = Held
        PROVE  PlacesInv'
    BY <1>1, <1>4 DEF PlacesInv, InOnePlace, Taken
  <1>5. CASE ReadPrice(s)
    <2>1. /\ book' = book /\ mutex' = mutex /\ todo' = todo /\ kept' = kept /\ filled' = filled
      BY <1>5 DEF ReadPrice, bookVars
    <2>2. Held' = Held
      BY <2>1 DEF Held
    <2>3. BookInv'
      BY <2>1 DEF BookInv
    <2> QED BY <1>4, <2>1, <2>2, <2>3
  <1>6. CASE LockBook(s)
    <2>1. /\ book' = book /\ mutex = NoRequest /\ mutex' = s /\ todo' = book /\ kept' = << >>
          /\ filled' = filled
      BY <1>6 DEF LockBook
    <2>2. Held' = Held
      BY <1>2, <1>3, <2>1 DEF Held
    <2>3. BookInv'
      BY <1>2, <1>3, <2>1 DEF BookInv
    <2> QED BY <1>4, <2>1, <2>2, <2>3
  <1>7. CASE Match(s)
    <2> DEFINE o == Head(todo)
    <2>1. mutex = s /\ mutex' = s /\ todo # << >> /\ todo' = Tail(todo) /\ book' = book
      BY <1>7 DEF Match
    <2>2. /\ o \in Orders /\ o \in ToSet(todo)
          /\ ToSet(todo') = ToSet(todo) \ {o} /\ IsInjective(todo')
      BY <2>1, TailOnce DEF TypeOK, BookInv
    <2>3. o \notin ToSet(kept)
      BY <2>2 DEF BookInv
    <2>4. Held = ToSet(todo) \cup ToSet(kept) /\ Held' = ToSet(todo') \cup ToSet(kept')
      BY <1>2, <2>1 DEF Held
    <2>5. CASE Crosses(o, sweep[s])
      <3>1. kept' = kept /\ filled' = [filled EXCEPT ![o] = @ + 1]
        BY <1>7, <2>5 DEF Match
      <3>2. Held' = Held \ {o}
        BY <2>2, <2>3, <2>4, <3>1
      <3>3. BookInv'
        BY <1>2, <2>1, <2>2, <3>1 DEF BookInv
      <3>4. ASSUME NEW p \in Orders, Type[p] = "limit"
            PROVE  InOnePlace(p)'
        <4>1. InOnePlace(p)
          BY <3>4 DEF PlacesInv
        <4>2. CASE p = o
          <5>1. p \in Held /\ p \notin Held'
            BY <2>2, <2>4, <3>2, <4>2
          <5>2. filled[p] = 0 /\ Taken(p) /\ p \notin removed
            BY <4>1, <5>1 DEF InOnePlace
          <5>3. filled'[p] = 1
            BY <3>1, <4>2, <5>2 DEF TypeOK
          <5> QED BY <1>1, <5>1, <5>2, <5>3 DEF InOnePlace, Taken
        <4>3. CASE p # o
          <5>1. filled'[p] = filled[p] /\ (p \in Held' <=> p \in Held)
            BY <3>1, <3>2, <4>3 DEF TypeOK
          <5> QED BY <1>1, <4>1, <5>1 DEF InOnePlace, Taken
        <4> QED BY <4>2, <4>3
      <3> QED BY <3>3, <3>4 DEF PlacesInv
    <2>6. CASE ~Crosses(o, sweep[s])
      <3>1. kept' = Append(kept, o) /\ filled' = filled
        BY <1>7, <2>6 DEF Match
      <3>2. /\ kept \in Seq(Orders) /\ IsInjective(kept)
        BY DEF TypeOK, BookInv
      <3>3. /\ ToSet(Append(kept, o)) = ToSet(kept) \cup {o}
            /\ IsInjective(Append(kept, o))
        BY <2>2, <2>3, <3>2, AppendOnce
      <3>4. ToSet(kept') = ToSet(kept) \cup {o} /\ IsInjective(kept')
        BY <3>1, <3>3
      <3>5. Held' = Held
        BY <2>2, <2>4, <3>4
      <3>6. ToSet(todo') \cap ToSet(kept') = {}
        BY <2>2, <3>4 DEF BookInv
      <3>7. BookInv'
        BY <1>2, <2>1, <2>2, <3>4, <3>6 DEF BookInv
      <3> QED BY <1>4, <3>1, <3>5, <3>7
    <2> QED BY <2>5, <2>6
  <1>8. CASE UnlockBook(s)
    <2>1. /\ mutex = s /\ todo = << >> /\ book' = kept /\ kept' = << >> /\ mutex' = NoRequest
          /\ todo' = todo /\ filled' = filled
      BY <1>8 DEF UnlockBook
    <2>2. Held' = Held
      BY <1>2, <1>3, <2>1 DEF Held
    <2>3. BookInv'
      BY <1>3, <2>1 DEF BookInv
    <2> QED BY <1>4, <2>1, <2>2, <2>3
  <1> QED BY <1>5, <1>6, <1>7, <1>8 DEF SweepStep

\* An order enters the book once, and leaves it once when it is canceled.
LEMMA OrderPlaces ==
  ASSUME TypeOK, BookInv, PlacesInv, NEW o \in Orders, OrderStep(o)
  PROVE  BookInv' /\ PlacesInv'
  <1>1. mutex' = mutex /\ todo' = todo /\ kept' = kept
    BY DEF OrderStep
  <1>2. \A p \in Orders : p # o => call'[p] = call[p]
    BY DEF OrderStep, SubmitOrder, ProcessOrder, CancelOrder, RemoveOrder, TypeOK
  <1>3. ASSUME book' = book, removed' = removed, filled' = filled,
               Taken(o)' <=> Taken(o)
        PROVE  BookInv' /\ PlacesInv'
    <2>1. Held' = Held
      BY <1>1, <1>3 DEF Held
    <2>2. \A p \in Orders : Taken(p)' <=> Taken(p)
      BY <1>2, <1>3 DEF Taken
    <2>3. PlacesInv'
      BY <1>3, <2>1, <2>2 DEF PlacesInv, InOnePlace
    <2> QED BY <1>1, <1>3, <2>3 DEF BookInv
  <1>4. CASE SubmitOrder(o)
    BY <1>3, <1>4 DEF SubmitOrder, Taken, TypeOK
  <1>5. CASE CancelOrder(o)
    BY <1>3, <1>5 DEF CancelOrder, Taken, TypeOK
  <1>6. CASE ProcessOrder(o)
    <2>1. ~Taken(o) /\ Taken(o)' /\ removed' = removed
      BY <1>6 DEF ProcessOrder, Taken, TypeOK
    <2>2. CASE FillMarketOrder(o)
      <3>1. Type[o] # "limit" /\ book' = book /\ filled' = [filled EXCEPT ![o] = @ + 1]
        BY <2>2 DEF FillMarketOrder
      <3>2. Held' = Held
        BY <1>1, <3>1 DEF Held
      <3>3. BookInv'
        BY <1>1, <3>1 DEF BookInv
      <3>4. ASSUME NEW p \in Orders, Type[p] = "limit"
            PROVE  InOnePlace(p)'
        <4>1. p # o /\ filled'[p] = filled[p] /\ (Taken(p)' <=> Taken(p))
          BY <1>2, <3>1, <3>4 DEF Taken, TypeOK
        <4> QED BY <2>1, <3>2, <3>4, <4>1 DEF PlacesInv, InOnePlace
      <3> QED BY <3>3, <3>4 DEF PlacesInv
    <2>3. CASE QueueLimitOrder(o)
      <3>1. /\ Type[o] = "limit" /\ mutex = NoRequest /\ book' = Append(book, o)
            /\ filled' = filled
        BY <2>3 DEF QueueLimitOrder, BookFree
      <3>2. Held = ToSet(book) /\ Held' = ToSet(book')
        BY <1>1, <3>1 DEF Held
      <3>3. filled[o] = 0 /\ o \notin ToSet(book) /\ o \notin removed
        BY <2>1, <3>1, <3>2 DEF PlacesInv, InOnePlace
      <3>4. /\ ToSet(book') = ToSet(book) \cup {o} /\ IsInjective(book')
        BY <3>1, <3>3, AppendOnce DEF TypeOK, BookInv
      <3>5. BookInv'
        BY <1>1, <3>4 DEF BookInv
      <3>6. ASSUME NEW p \in Orders, Type[p] = "limit"
            PROVE  InOnePlace(p)'
        <4>1. CASE p = o
          BY <2>1, <3>1, <3>2, <3>3, <3>4, <4>1 DEF InOnePlace
        <4>2. CASE p # o
          <5>1. (p \in Held' <=> p \in Held) /\ (Taken(p)' <=> Taken(p))
            BY <1>2, <3>2, <3>4, <4>2 DEF Taken
          <5> QED BY <2>1, <3>1, <3>6, <5>1 DEF PlacesInv, InOnePlace
        <4> QED BY <4>1, <4>2
      <3> QED BY <3>5, <3>6 DEF PlacesInv
    <2> QED BY <1>6, <2>2, <2>3 DEF ProcessOrder
  <1>7. CASE RemoveOrder(o)
    <2>1. /\ mutex = NoRequest /\ removed' = removed \cup ({o} \cap ToSet(book))
          /\ Taken(o) /\ Taken(o)' /\ filled' = filled
      BY <1>7 DEF RemoveOrder, BookFree, Taken, TypeOK
    <2>2. ToSet(book') = ToSet(book) \ {o} /\ IsInjective(book')
      <3>1. CASE o \notin ToSet(book) /\ book' = book
        BY <3>1 DEF BookInv
      <3>2. ASSUME NEW k \in DOMAIN book, book[k] = o, book' = RemoveAt(book, k)
            PROVE  ToSet(book') = ToSet(book) \ {o} /\ IsInjective(book')
        BY <3>2, RemoveOnce DEF TypeOK, BookInv
      <3> QED BY <1>7, <3>1, <3>2 DEF RemoveOrder
    <2>3. Held = ToSet(book) /\ Held' = ToSet(book')
      BY <1>1, <2>1 DEF Held
    <2>4. BookInv'
      BY <1>1, <2>2 DEF BookInv
    <2>5. ASSUME NEW p \in Orders, Type[p] = "limit"
          PROVE  InOnePlace(p)'
      <3>1. InOnePlace(p)
        BY <2>5 DEF PlacesInv
      <3>2. Taken(p)' <=> Taken(p)
        BY <1>2, <2>1 DEF Taken
      <3>3. CASE p = o
        BY <2>1, <2>2, <2>3, <3>1, <3>2, <3>3 DEF InOnePlace
      <3>4. CASE p # o
        <4>1. (p \in Held' <=> p \in Held) /\ (p \in removed' <=> p \in removed)
          BY <2>1, <2>2, <2>3, <3>4
        <4> QED BY <2>1, <3>1, <3>2, <4>1 DEF InOnePlace
      <3> QED BY <3>3, <3>4
    <2> QED BY <2>4, <2>5 DEF PlacesInv
  <1> QED BY <1>4, <1>5, <1>6, <1>7 DEF OrderStep

\* Every step keeps each limit order in one place.
LEMMA PlacesPreserved ==
  ASSUME TypeOK, BookInv, PlacesInv, Next
  PROVE  BookInv' /\ PlacesInv'
  <1>1. ASSUME UNCHANGED <<bookVars, call, filled, removed>>
        PROVE  BookInv' /\ PlacesInv'
    <2>1. Held' = Held
      BY <1>1 DEF Held, bookVars
    <2>2. PlacesInv'
      BY <1>1, <2>1 DEF PlacesInv, InOnePlace, Taken
    <2> QED BY <1>1, <2>2 DEF bookVars, BookInv
  <1>2. CASE HandlerStep
    BY <1>1, <1>2 DEF HandlerStep, orderVars
  <1>3. CASE ConnectionStep
    BY <1>1, <1>3 DEF ConnectionStep, orderVars
  <1>4. ASSUME NEW w \in Connects, WalkStep(w)
        PROVE  BookInv' /\ PlacesInv'
    BY <1>1, <1>4 DEF WalkStep, orderVars
  <1>5. CASE CollectFill
    BY <1>1, <1>5 DEF CollectFill
  <1> QED BY <1>2, <1>3, <1>4, <1>5, SweepPlaces, OrderPlaces DEF Next

-----------------------------------------------------------------------------
\* Requests and the ticker

\* Every step keeps requests of orderly clients apart.
LEMMA ApartPreserved ==
  ASSUME TypeOK, OneAtATime, Next
  PROVE  OneAtATime'
  <1> DEFINE S == Steps \cup {"setStatus", "clearStatus"}
  <1>1. pc \in [Requests -> S]
    BY DEF TypeOK, RequestTypes
  <1>2. CASE HandlerStep
    BY <1>1, <1>2, RequestsOneAtATime DEF HandlerStep
  <1>3. CASE ConnectionStep
    <2>1. orderly' = orderly
      BY <1>3 DEF ConnectionStep
    <2>2. ASSUME NEW r \in Requests, r \in InFlight, NEW step, Goto(r, step)
          PROVE  OneAtATime'
      BY <1>1, <2>1, <2>2, AdapterOneAtATime
    <2>3. ASSUME NEW r \in Connects, StartEngine(r)
          PROVE  OneAtATime'
      BY <2>2, <2>3 DEF StartEngine, Requests, InFlight
    <2>4. ASSUME NEW r \in Disconnects, StopEngine(r)
          PROVE  OneAtATime'
      BY <2>2, <2>4 DEF StopEngine, Requests, InFlight
    <2>5. ASSUME NEW r \in Requests, SetStatus(r)
          PROVE  OneAtATime'
      BY <2>2, <2>5 DEF SetStatus, Connected, InFlight
    <2> QED BY <1>3, <2>3, <2>4, <2>5 DEF ConnectionStep
  <1>4. ASSUME pc' = pc, orderly' = orderly
        PROVE  OneAtATime'
    BY <1>4 DEF OneAtATime, InFlight
  <1>5. CASE (\E w \in Connects : WalkStep(w)) \/ (\E s \in Connects : SweepStep(s))
             \/ (\E o \in Orders : OrderStep(o)) \/ CollectFill
    BY <1>4, <1>5 DEF WalkStep, SweepStep, OrderStep, CollectFill, requestVars
  <1> QED BY <1>2, <1>3, <1>5 DEF Next

\* Every step keeps the ticker of a connected exchange from being stopped.
LEMMA TickerPreserved ==
  ASSUME TypeOK, OneAtATime, TickerInv, Next
  PROVE  TickerInv'
  <1>1. CASE HandlerStep
    <2>1. /\ ticking' = ticking /\ walk' = walk /\ status' = status /\ overtaken' = overtaken
          /\ RequestStep
      BY <1>1 DEF HandlerStep, walkVars
    <2>2. orderly' => orderly
      BY <2>1 DEF RequestStep, ConnectArrives, DisconnectArrives, RegisterCancel, ForgetCancel,
                  Arrive
    <2>3. \A r \in Requests : (pc'[r] = "setStatus" => pc[r] = "setStatus")
                            /\ (pc[r] = "clearStatus" => pc'[r] = "clearStatus")
      <3>1. ASSUME NEW r \in Requests, NEW step, step # "setStatus", Goto(r, step),
                   pc[r] # "clearStatus"
            PROVE  \A s \in Requests : (pc'[s] = "setStatus" => pc[s] = "setStatus")
                                     /\ (pc[s] = "clearStatus" => pc'[s] = "clearStatus")
        BY <3>1 DEF Goto, TypeOK, RequestTypes
      <3>2. ASSUME NEW r \in Connects, ConnectArrives(r) \/ RegisterCancel(r)
            PROVE  \E step : step # "setStatus" /\ Goto(r, step) /\ pc[r] # "clearStatus"
        BY <3>2 DEF ConnectArrives, RegisterCancel, Arrive
      <3>3. ASSUME NEW r \in Disconnects, DisconnectArrives(r) \/ ForgetCancel(r)
            PROVE  \E step : step # "setStatus" /\ Goto(r, step) /\ pc[r] # "clearStatus"
        BY <3>3 DEF DisconnectArrives, ForgetCancel, Arrive
      <3> QED BY <2>1, <3>1, <3>2, <3>3 DEF RequestStep, Requests
    <2>4. Stopping' = Stopping
      BY <2>1 DEF Stopping
    <2> QED BY <2>1, <2>2, <2>3, <2>4 DEF TickerInv, Requests
  <1>2. ASSUME NEW r \in Connects, StartEngine(r)
        PROVE  TickerInv'
    <2>1. /\ ticking' = TRUE
          /\ overtaken' = (overtaken \/ \E w \in Connects : walk[w] = "stopping")
          /\ walk' = [walk EXCEPT ![r] = "select"]
      BY <1>2 DEF StartEngine, NewTicker
    <2>2. \A w \in Connects : walk'[w] = "stopping" => walk[w] = "stopping"
      BY <2>1 DEF TypeOK
    <2>3. ~overtaken' => ~Stopping'
      BY <2>1, <2>2 DEF Stopping
    <2> QED BY <2>3 DEF TickerInv
  <1>3. ASSUME NEW r \in Disconnects, StopEngine(r), ConnectionStep
        PROVE  TickerInv'
    <2>1. r \in Requests /\ pc[r] = "disconnect" /\ pc' = [pc EXCEPT ![r] = "clearStatus"]
          /\ orderly' = orderly
      BY <1>3 DEF StopEngine, Goto, Requests, ConnectionStep
    <2>2. pc'[r] = "clearStatus"
      BY <2>1 DEF TypeOK, RequestTypes
    <2>3. orderly => \A s \in Requests : pc'[s] # "setStatus"
      <3> SUFFICES ASSUME orderly, NEW s \in Requests, pc'[s] = "setStatus" PROVE FALSE
        OBVIOUS
      <3>1. s # r /\ pc[s] = "setStatus"
        BY <2>1, <2>2 DEF TypeOK, RequestTypes
      <3>2. s \in InFlight /\ r \in InFlight
        BY <2>1, <3>1 DEF InFlight
      <3> QED BY <3>1, <3>2 DEF OneAtATime
    <2> QED BY <2>1, <2>2, <2>3 DEF TickerInv
  <1>4. ASSUME NEW r \in Requests, SetStatus(r), ConnectionStep
        PROVE  TickerInv'
    <2>1. /\ orderly' = orderly /\ ticking' = ticking /\ walk' = walk /\ overtaken' = overtaken
      BY <1>4 DEF SetStatus, ConnectionStep, walkVars
    <2>2. Stopping' = Stopping
      BY <2>1 DEF Stopping
    <2>3. CASE pc[r] = "setStatus"
      BY <2>1, <2>2, <2>3 DEF TickerInv
    <2>4. CASE pc[r] = "clearStatus"
      <3>1. status' = "Disconnected" /\ pc' = [pc EXCEPT ![r] = "done"]
        BY <1>4, <2>4 DEF SetStatus, Goto
      <3>2. \A s \in Requests : pc'[s] = "setStatus" => pc[s] = "setStatus"
        BY <3>1 DEF TypeOK, RequestTypes
      <3> QED BY <2>1, <2>2, <3>1, <3>2 DEF TickerInv
    <2> QED BY <1>4, <2>3, <2>4 DEF SetStatus
  <1>5. ASSUME NEW w \in Connects, WalkStep(w)
        PROVE  TickerInv'
    <2>1. pc' = pc /\ orderly' = orderly /\ status' = status /\ overtaken' = overtaken
      BY <1>5 DEF WalkStep, requestVars
    <2>2. Stopping' => Stopping
      BY <1>5 DEF WalkStep, WalkMove, WalkEnds, Stopping
    <2> QED BY <2>1, <2>2 DEF TickerInv
  <1>6. ASSUME pc' = pc, orderly' = orderly, status' = status, UNCHANGED walkVars
        PROVE  TickerInv'
    <2>1. Stopping' = Stopping /\ overtaken' = overtaken
      BY <1>6 DEF Stopping, walkVars
    <2> QED BY <1>6, <2>1 DEF TickerInv
  <1>7. CASE (\E s \in Connects : SweepStep(s)) \/ (\E o \in Orders : OrderStep(o)) \/ CollectFill
    BY <1>6, <1>7 DEF SweepStep, OrderStep, CollectFill, requestVars
  <1> QED BY <1>1, <1>2, <1>3, <1>4, <1>5, <1>7 DEF Next, ConnectionStep

-----------------------------------------------------------------------------
\* The theorems

\* The exchange starts with an empty book and a stopped ticker, disconnected.
LEMMA ExchangeStarts ==
  ASSUME Init
  PROVE  ExchangeInv
  <1>1. RequestTypes({"setStatus", "clearStatus"})
    BY DEF Init, RequestInit, RequestTypes, Steps
  <1>2. << >> \in Seq(Orders) /\ IsInjective(<< >>) /\ ToSet(<< >>) = {}
    BY DEF IsInjective, ToSet
  <1>3. TypeOK
    <2>1. /\ filled \in [Orders -> Nat]
          /\ call \in [Orders -> {"none", "checked", "acked", "failed", "canceling", "canceled"}]
          /\ sweep \in [Connects -> Prices \cup {Unread}]
          /\ walk \in [Connects -> {"none", "select", "stopping"}]
      BY DEF Init
    <2>2. queued \in 0 .. FillCap
      BY SimulatedAssumption DEF Init
    <2>3. {book, todo, kept} \subseteq Seq(Orders)
      BY <1>2 DEF Init
    <2> QED BY <1>1, <2>1, <2>2, <2>3 DEF Init, TypeOK
  <1>4. BookInv
    BY <1>2 DEF Init, BookInv
  <1>5. PlacesInv
    BY <1>2 DEF Init, PlacesInv, InOnePlace, Taken, Held
  <1>6. OneAtATime
    BY DEF Init, RequestInit, OneAtATime, InFlight
  <1>7. TickerInv
    BY DEF Init, RequestInit, TickerInv
  <1> QED BY <1>3, <1>4, <1>5, <1>6, <1>7 DEF ExchangeInv

\* A step that changes nothing keeps the invariant.
LEMMA ExchangeStutters ==
  ASSUME ExchangeInv, UNCHANGED vars
  PROVE  ExchangeInv'
  <1> USE DEF vars, requestVars, walkVars, sweepVars, bookVars, orderVars
  <1>1. TypeOK'
    BY DEF ExchangeInv, TypeOK, RequestTypes
  <1>2. BookInv' /\ OneAtATime'
    BY DEF ExchangeInv, BookInv, OneAtATime, InFlight
  <1>3. PlacesInv'
    BY DEF ExchangeInv, PlacesInv, InOnePlace, Taken, Held
  <1>4. TickerInv'
    BY DEF ExchangeInv, TickerInv, Stopping
  <1> QED BY <1>1, <1>2, <1>3, <1>4 DEF ExchangeInv

\* The exchange keeps its invariant.
THEOREM ExchangeInvariance == Spec => []ExchangeInv
  <1>1. ExchangeInv /\ [Next]_vars => ExchangeInv'
    <2> SUFFICES ASSUME ExchangeInv, [Next]_vars PROVE ExchangeInv'
      OBVIOUS
    <2>1. CASE Next
      BY <2>1, TypesPreserved, PlacesPreserved, ApartPreserved, TickerPreserved DEF ExchangeInv
    <2> QED BY <2>1, ExchangeStutters
  <1> QED BY <1>1, ExchangeStarts, PTL DEF Spec

\* Every variable of the exchange stays in its type: the channel of fills among
\* them, which never holds more than its capacity.
THEOREM ExchangeTypes == Spec => []TypeOK
  BY ExchangeInvariance, PTL DEF ExchangeInv

\* Sweep loops left over from reconnections and cancellations that race them
\* lose no limit order and fill none twice.
THEOREM LimitOrdersSurvive == Spec => []LimitOrdersConserved
  <1>1. ASSUME NEW o, NEW S
        PROVE  Cardinality({o} \cap S) = IF o \in S THEN 1 ELSE 0
    <2>1. CASE o \in S
      <3>1. {o} \cap S = {o}
        BY <2>1
      <3> QED BY <2>1, <3>1, FS_Singleton
    <2>2. CASE o \notin S
      <3>1. {o} \cap S = {}
        BY <2>2
      <3> QED BY <2>2, <3>1, FS_EmptySet
    <2> QED BY <2>1, <2>2
  <1>2. ASSUME ExchangeInv, NEW o \in Orders, Type[o] = "limit",
               call[o] \in {"acked", "canceling", "canceled"}
        PROVE  filled[o] + Cardinality({o} \cap Working) + Cardinality({o} \cap removed) = 1
    <2>1. InOnePlace(o) /\ Taken(o) /\ Working = Held
      BY <1>2, WorkingIsHeld DEF ExchangeInv, PlacesInv, Taken
    <2>2. /\ Cardinality({o} \cap Working) = IF o \in Held THEN 1 ELSE 0
          /\ Cardinality({o} \cap removed) = IF o \in removed THEN 1 ELSE 0
      BY <1>1, <2>1
    <2> QED BY <2>1, <2>2 DEF InOnePlace
  <1>3. ExchangeInv => LimitOrdersConserved
    BY <1>2 DEF LimitOrdersConserved
  <1> QED BY <1>3, ExchangeInvariance, PTL

\* The price of a connected exchange is frozen only when a Start overtook a
\* walker that had its stop signal.
THEOREM TickerSurvives == Spec => []FrozenOnlyIfOvertaken
  <1>1. ASSUME ExchangeInv, status = "Connected", InFlight = {}, orderly, ~ticking, ~overtaken
        PROVE  FALSE
    <2>1. PICK r \in Disconnects : pc[r] = "clearStatus"
      BY <1>1 DEF ExchangeInv, TickerInv, Stopping
    <2>2. r \in InFlight
      BY <2>1 DEF InFlight, Requests
    <2> QED BY <1>1, <2>2
  <1>2. ExchangeInv => FrozenOnlyIfOvertaken
    BY <1>1 DEF FrozenOnlyIfOvertaken
  <1> QED BY <1>2, ExchangeInvariance, PTL
=============================================================================
