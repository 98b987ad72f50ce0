------------------------ MODULE OrderPipelineProofs ------------------------
(***************************************************************************)
(* Theorems about the order pipeline, for any sets of orders, venues and   *)
(* quantities, any capacities and any subset of failing calls.             *)
(***************************************************************************)
EXTENDS OrderPipeline, FiniteSetTheorems, FunctionTheorems, TLAPS

-----------------------------------------------------------------------------
\* The inductive invariant

\* The stages of an order that has been handed to a venue's SubmitOrder.
Sent == {"calling", "rejArgs", "rejSave", "done"}

\* A record whose status says that the order is past New.
PastNew(ord) == ord.status \notin {"None", "New"}

\* How the stage of an order, the order in memory, its row and the venue's
\* knowledge of it go together.
OrderInv(o) ==
  /\ stage[o] = "gone" => order[o] = NoOrder
  /\ stage[o] = "acked" => order[o].status = "Acknowledged"
  /\ stage[o] \in {"calling", "rejArgs", "rejSave"} => PastNew(order[o])
  /\ stage[o] = "calling" => PastNew(rows[o]) /\ rows[o].venue = order[o].venue
  /\ stage[o] = "rejSave" => PastNew(arg[o])
  /\ book[o].at # NoVenue =>
       /\ stage[o] \in Sent \cup {"gone"}
       /\ PastNew(rows[o])
       /\ rows[o].venue = book[o].at
       /\ stage[o] # "gone" => PastNew(order[o]) /\ order[o].venue = book[o].at
  /\ o \in late => book[o].at # NoVenue /\ stage[o] # "calling"

\* A fill in a venue's channel or in its collector is of an order the venue
\* holds; the order of the collector is still in memory.
FillInv(v) ==
  /\ \A i \in 1 .. Len(feed[v]) : book[feed[v][i].order].at = v
  /\ coll[v].pc # "idle" => /\ coll[v].fill \in Fill
                            /\ book[coll[v].fill.order].at = v
                            /\ stage[coll[v].fill.order] # "gone"

PipelineInv == /\ \A o \in Orders : OrderInv(o)
               /\ \A v \in Venues : FillInv(v)

IInv == TypeOK /\ PipelineInv

\* A list of events without a rejection.
NoRejection(s) == \A i \in 1 .. Len(s) : s[i] # "order_rejected"

-----------------------------------------------------------------------------
\* Lemmas about the operators

\* ApplyTransition returns an order record that differs at most in its status,
\* and then has the status asked for; an order past New stays past New.
LEMMA TransitionResult ==
  ASSUME NEW ord \in OrderRecord, NEW s \in Statuses
  PROVE  /\ Transition(ord, s) \in OrderRecord
         /\ Transition(ord, s).venue = ord.venue
         /\ Transition(ord, s).status \in {s, ord.status}
         /\ CanTransition(ord, s) => Transition(ord, s).status = s
         /\ PastNew(ord) /\ s # "New" => PastNew(Transition(ord, s))
  BY DEF Transition, OrderRecord, Statuses, PastNew

\* ApplyFill returns an order record of the same venue that is past New and
\* not rejected.
LEMMA ApplyFillResult ==
  ASSUME NEW ord \in OrderRecord, NEW q \in Nat
  PROVE  /\ ApplyFill(ord, q) \in OrderRecord
         /\ ApplyFill(ord, q).venue = ord.venue
         /\ ApplyFill(ord, q).status \in {"PartiallyFilled", "Filled"}
  <1> DEFINE s == IF ord.filled + q = ord.qty THEN "Filled" ELSE "PartiallyFilled"
             n == ord.filled + q
  <1>1. s \in {"PartiallyFilled", "Filled"}
    OBVIOUS
  <1>2. n \in Nat
    BY DEF OrderRecord
  <1>3. ApplyFill(ord, q) = [ord EXCEPT !.filled = n, !.status = s]
    BY DEF ApplyFill
  <1> HIDE DEF s, n
  <1> QED BY <1>1, <1>2, <1>3 DEF OrderRecord, Statuses

\* An order the fill collector can fill is a live record past New.
LEMMA FillableOrder ==
  ASSUME NEW ord, NEW q, CanFill(ord, q)
  PROVE  PastNew(ord) /\ ord # NoOrder
  BY DEF CanFill, PastNew, NoOrder

\* Appending events to the events of an order gives a list of events, without
\* a rejection if neither part has one.
LEMMA AppendEvents ==
  ASSUME NEW s \in Seq(Events), NEW t \in Seq(Events)
  PROVE  /\ s \o t \in Seq(Events)
         /\ NoRejection(s) /\ NoRejection(t) => NoRejection(s \o t)
  <1>1. s \o t \in Seq(Events)
    OBVIOUS
  <1>2. ASSUME NoRejection(s), NoRejection(t), NEW i \in 1 .. Len(s \o t)
        PROVE  (s \o t)[i] # "order_rejected"
    <2>1. CASE i <= Len(s)
      BY <1>2, <2>1 DEF NoRejection
    <2>2. CASE i > Len(s)
      <3>1. (s \o t)[i] = t[i - Len(s)] /\ i - Len(s) \in 1 .. Len(t)
        BY <2>2
      <3> QED BY <1>2, <3>1 DEF NoRejection
    <2> QED BY <2>1, <2>2
  <1> QED BY <1>1, <1>2 DEF NoRejection

\* A list of at most one event, which is not a rejection.
LEMMA OneEvent ==
  ASSUME NEW e \in Events
  PROVE  /\ <<e>> \in Seq(Events) /\ << >> \in Seq(Events)
         /\ e # "order_rejected" => NoRejection(<<e>>)
         /\ NoRejection(<< >>)
  BY DEF NoRejection

\* Sending on a channel.
LEMMA SendResult ==
  ASSUME NEW S, NEW s \in Seq(S), NEW e \in S
  PROVE  /\ Append(s, e) \in Seq(S)
         /\ Len(Append(s, e)) = Len(s) + 1
         /\ \A i \in 1 .. Len(s) + 1 : Append(s, e)[i] = IF i = Len(s) + 1 THEN e ELSE s[i]
  OBVIOUS

\* Receiving from a channel.
LEMMA ReceiveResult ==
  ASSUME NEW S, NEW s \in Seq(S), s # << >>
  PROVE  /\ Head(s) \in S /\ Head(s) = s[1] /\ 1 \in 1 .. Len(s)
         /\ Tail(s) \in Seq(S)
         /\ \A i \in 1 .. Len(Tail(s)) : Tail(s)[i] = s[i + 1] /\ i + 1 \in 1 .. Len(s)
  OBVIOUS

\* The event of a status is a list of events, and order_rejected is the event
\* of the status Rejected only.
LEMMA EventsOfResult ==
  ASSUME NEW status \in Statuses \cup {"None"}
  PROVE  /\ EventsOf(status) \in Seq(Events)
         /\ status # "Rejected" => NoRejection(EventsOf(status))
  <1>2. CASE status \in {"None", "PartiallyFilled"}
    <2>1. EventsOf(status) = << >>
      BY <1>2 DEF EventsOf
    <2> QED BY <2>1, OneEvent DEF Events
  <1>3. CASE status = "New"
    <2>1. EventsOf(status) = <<"order_created">>
      BY <1>3 DEF EventsOf
    <2> QED BY <2>1, OneEvent DEF Events
  <1>4. CASE status = "Acknowledged"
    <2>1. EventsOf(status) = <<"order_acknowledged">>
      BY <1>4 DEF EventsOf
    <2> QED BY <2>1, OneEvent DEF Events
  <1>5. CASE status = "Filled"
    <2>1. EventsOf(status) = <<"order_filled">>
      BY <1>5 DEF EventsOf
    <2> QED BY <2>1, OneEvent DEF Events
  <1>6. CASE status = "Canceled"
    <2>1. EventsOf(status) = <<"order_canceled">>
      BY <1>6 DEF EventsOf
    <2> QED BY <2>1, OneEvent DEF Events
  <1>7. CASE status = "Rejected"
    <2>1. EventsOf(status) = <<"order_rejected">>
      BY <1>7 DEF EventsOf
    <2> QED BY <1>7, <2>1, OneEvent DEF Events
  <1> QED BY <1>2, <1>3, <1>4, <1>5, <1>6, <1>7 DEF Statuses

\* What processFill publishes is a list of events without a rejection.
LEMMA FillEventsResult ==
  ASSUME NEW a, NEW b, NEW full
  PROVE  /\ FillEvents(a, b, full) \in Seq(Events)
         /\ NoRejection(FillEvents(a, b, full))
  <1> DEFINE x == IF a THEN <<"fill_received">> ELSE <<>>
             y == IF b /\ full THEN <<"order_filled">> ELSE <<>>
  <1>1. x \in Seq(Events) /\ NoRejection(x)
    BY OneEvent DEF Events
  <1>2. y \in Seq(Events) /\ NoRejection(y)
    BY OneEvent DEF Events
  <1>3. FillEvents(a, b, full) = x \o y
    BY DEF FillEvents
  <1> HIDE DEF x, y
  <1> QED BY <1>1, <1>2, <1>3, AppendEvents

\* Events appended for one order: the topic keeps its type and the events of
\* the other orders.
LEMMA TopicAppend ==
  ASSUME topic \in [Orders -> Seq(Events)], NEW o \in Orders, NEW t \in Seq(Events),
         topic' = [topic EXCEPT ![o] = @ \o t]
  PROVE  /\ topic' \in [Orders -> Seq(Events)]
         /\ \A p \in Orders : p # o => topic'[p] = topic[p]
         /\ NoRejection(t) /\ NoRejection(topic[o]) => NoRejection(topic'[o])
  <1>1. topic[o] \in Seq(Events)
    OBVIOUS
  <1>2. topic[o] \o t \in Seq(Events)
    BY <1>1
  <1> QED BY <1>1, <1>2, AppendEvents

\* notifyOrderUpdate appends at most the event of the status it is given.
LEMMA NotifyResult ==
  ASSUME topic \in [Orders -> Seq(Events)], NEW o \in Orders,
         NEW s \in Statuses \cup {"None"}, Notify(o, s)
  PROVE  /\ topic' \in [Orders -> Seq(Events)]
         /\ \A p \in Orders : p # o => topic'[p] = topic[p]
         /\ s # "Rejected" /\ NoRejection(topic[o]) => NoRejection(topic'[o])
  <1>1. topic' = [topic EXCEPT ![o] = @ \o EventsOf(s)] \/ topic' = topic
    BY DEF Notify
  <1>2. CASE topic' = topic
    BY <1>2
  <1>3. CASE topic' = [topic EXCEPT ![o] = @ \o EventsOf(s)]
    BY <1>3, EventsOfResult, TopicAppend
  <1> QED BY <1>1, <1>2, <1>3

\* What the pipeline holds for an order, in memory and in the store, and what
\* it passes on about it, has the fields of an order.
LEMMA OrderFields ==
  ASSUME TypeOK, NEW o \in Orders
  PROVE  /\ order[o] \in OrderRecord /\ rows[o] \in OrderRecord
         /\ order[o].status \in Statuses \cup {"None"}
         /\ order[o].qty \in Nat /\ order[o].filled \in Nat
         /\ arg[o].status \in Statuses \cup {"None"} /\ arg[o].filled \in Nat
  <1>1. order[o] \in OrderRecord /\ rows[o] \in OrderRecord
    BY DEF TypeOK
  <1>2. arg[o] \in [status : Statuses \cup {"None"}, filled : Nat]
    BY DEF TypeOK
  <1> QED BY <1>1, <1>2 DEF OrderRecord

\* The order whose fill a collector processes is in memory under that venue.
LEMMA CollectorOrder ==
  ASSUME IInv, NEW v \in Venues, coll[v].pc # "idle"
  PROVE  /\ coll[v].fill \in Fill /\ coll[v].fill.order \in Orders
         /\ order[coll[v].fill.order].venue = v
  <1> DEFINE o == coll[v].fill.order
  <1>1. FillInv(v)
    BY DEF IInv, PipelineInv
  <1>2. coll[v].fill \in Fill /\ book[o].at = v /\ stage[o] # "gone"
    BY <1>1 DEF FillInv
  <1>3. o \in Orders
    BY <1>2 DEF Fill
  <1>4. OrderInv(o)
    BY <1>3 DEF IInv, PipelineInv
  <1>5. v # NoVenue
    BY VenueAssumption
  <1> HIDE DEF o
  <1>6. order[o].venue = v
    BY <1>2, <1>4, <1>5 DEF OrderInv
  <1> QED BY <1>2, <1>3, <1>6 DEF o
-----------------------------------------------------------------------------
\* Type correctness

\* A step of an order, or of the venue that holds it, keeps the types.
LEMMA OrderStepTyped ==
  ASSUME IInv, NEW o \in Orders, OrderStep(o)
  PROVE  TypeOK'
  <1>0. order[o].status \in Statuses \cup {"None"} /\ order[o].filled \in Nat
    BY OrderFields DEF IInv
  <1>01. arg \in [Orders -> [status : Statuses \cup {"None"}, filled : Nat]]
    BY DEF IInv, TypeOK
  <1>15. CASE SubmitError(o)
    <2>1. Transition(order[o], "Rejected") \in OrderRecord
      BY OrderFields, TransitionResult DEF IInv, Statuses
    <2>2. arg' \in [Orders -> [status : Statuses \cup {"None"}, filled : Nat]]
      BY <1>0, <1>01, <1>15 DEF SubmitError
    <2>3. order' = [order EXCEPT ![o] = Transition(order[o], "Rejected")]
      BY <1>15 DEF SubmitError
    <2>4. order' \in [Orders -> OrderRecord]
      BY <2>1, <2>3 DEF IInv, TypeOK
    <2>5. stage' \in [Orders -> Stages]
      BY <1>15 DEF SubmitError, MoveTo, IInv, TypeOK, Stages
    <2>6. UNCHANGED <<tracked, first, smart, ready, tables, book, feed, coll, pricer,
                      topic, canceled, restarts>>
      BY <1>15 DEF SubmitError
    <2>7. late' \subseteq Orders
      BY <1>15 DEF SubmitError, IInv, TypeOK
    <2> QED BY <2>2, <2>4, <2>5, <2>6, <2>7 DEF IInv, TypeOK, tables
  <1>16. CASE ReadStatusArg(o)
    <2>1. arg' \in [Orders -> [status : Statuses \cup {"None"}, filled : Nat]]
      BY <1>0, <1>01, <1>16 DEF ReadStatusArg
    <2>2. stage' \in [Orders -> Stages]
      BY <1>16 DEF ReadStatusArg, MoveTo, IInv, TypeOK, Stages
    <2>3. UNCHANGED <<order, tracked, first, smart, ready, tables, book, feed, coll,
                      pricer, topic, canceled, restarts, late>>
      BY <1>16 DEF ReadStatusArg
    <2> QED BY <2>1, <2>2, <2>3 DEF IInv, TypeOK, tables
  <1> USE DEF IInv, TypeOK, Stages, Fill
  <1>1. ASSUME NEW q \in Quantities, NEW v \in Venues \cup {NoVenue}, Submit(o, q, v)
        PROVE  TypeOK'
    BY <1>1, PipelineAssumption DEF Submit, MoveTo, NewOrder, OrderRecord, Statuses
  <1>2. ASSUME NEW q \in Quantities, NEW v \in Venues \cup {NoVenue}, SubmitRefused(o, q, v)
        PROVE  TypeOK'
    BY <1>2 DEF SubmitRefused, MoveTo, tables
  <1>3. CASE Enqueue(o)
    BY <1>3 DEF Enqueue, MoveTo, tables
  <1>4. CASE Abandon(o)
    BY <1>4 DEF Abandon, MoveTo, tables
  <1>5. CASE Cancel(o)
    BY <1>5 DEF Cancel, memory, tables
  <1>6. CASE TakeForRisk(o)
    BY <1>6 DEF TakeForRisk, MoveTo, tables
  <1>7. CASE RiskPass(o)
    BY <1>7 DEF RiskPass, MoveTo, tables
  <1>8. CASE RiskReject(o)
    <2>1. order[o] \in OrderRecord
      BY <1>8 DEF RiskReject
    <2>2. Transition(order[o], "Rejected") \in OrderRecord
      BY <2>1, TransitionResult DEF Statuses
    <2>3. Notify(o, Transition(order[o], "Rejected").status)
      BY <1>8 DEF RiskReject, Reject
    <2>4. topic' \in [Orders -> Seq(Events)]
      BY <2>2, <2>3, NotifyResult DEF OrderRecord
    <2>5. order' \in [Orders -> OrderRecord]
      BY <1>8, <2>2 DEF RiskReject, Reject
    <2>6. rows' = [rows EXCEPT ![o] = Transition(order[o], "Rejected")] \/ rows' = rows
      BY <1>8 DEF RiskReject, Reject
    <2>7. rows' \in [Orders -> OrderRecord]
      BY <2>2, <2>6
    <2>8. stage' \in [Orders -> Stages]
      BY <1>8 DEF RiskReject, Reject, MoveTo
    <2> QED BY <1>8, <2>4, <2>5, <2>7, <2>8 DEF RiskReject
  <1>9. CASE Route(o)
    <2>1. order[o] \in OrderRecord /\ Target(o) \in Venues \cup {NoVenue}
      BY DEF Target, OrderRecord
    <2>2. [order[o] EXCEPT !.venue = Target(o)] \in OrderRecord
      BY <2>1 DEF OrderRecord
    <2>3. order' = [order EXCEPT ![o] = [order[o] EXCEPT !.venue = Target(o)]]
      BY <1>9 DEF Route
    <2>4. order' \in [Orders -> OrderRecord]
      BY <2>2, <2>3
    <2>5. rows' \in [Orders -> OrderRecord]
      BY <1>9, <2>4 DEF Route
    <2> QED BY <1>9, <2>4, <2>5 DEF Route, MoveTo
  <1>10. CASE RejectDisconnected(o)
    <2>1. order[o] \in OrderRecord
      BY <1>10 DEF RejectDisconnected
    <2>2. Transition(order[o], "Rejected") \in OrderRecord
      BY <2>1, TransitionResult DEF Statuses
    <2>3. Notify(o, Transition(order[o], "Rejected").status)
      BY <1>10 DEF RejectDisconnected, Reject
    <2>4. topic' \in [Orders -> Seq(Events)]
      BY <2>2, <2>3, NotifyResult DEF OrderRecord
    <2>5. order' \in [Orders -> OrderRecord]
      BY <1>10, <2>2 DEF RejectDisconnected, Reject
    <2>6. rows' = [rows EXCEPT ![o] = Transition(order[o], "Rejected")] \/ rows' = rows
      BY <1>10 DEF RejectDisconnected, Reject
    <2>7. rows' \in [Orders -> OrderRecord]
      BY <2>2, <2>6
    <2>8. stage' \in [Orders -> Stages]
      BY <1>10 DEF RejectDisconnected, Reject, MoveTo
    <2> QED BY <1>10, <2>4, <2>5, <2>7, <2>8 DEF RejectDisconnected
  <1>20. CASE PassVenueCheck(o)
    BY <1>20 DEF PassVenueCheck, MoveTo, tables
  <1>11. CASE Dispatch(o)
    BY <1>11 DEF Dispatch, MoveTo, tables
  <1>12. CASE Acknowledge(o)
    <2>1. Transition(order[o], "Acknowledged") \in OrderRecord
      BY TransitionResult DEF Statuses
    <2> QED BY <1>12, <2>1 DEF Acknowledge, MoveTo, tables
  <1>13. CASE SaveAck(o)
    <2>1. topic' \in [Orders -> Seq(Events)]
      <3>1. CASE Notify(o, order[o].status)
        BY <3>1, NotifyResult DEF OrderRecord
      <3> QED BY <1>13, <3>1 DEF SaveAck
    <2> QED BY <1>13, <2>1 DEF SaveAck, MoveTo
  <1>14. CASE SubmitOk(o)
    BY <1>14 DEF SubmitOk, MoveTo, tables
  <1>17. CASE SaveRejected(o)
    <2>1. topic' \in [Orders -> Seq(Events)]
      BY <1>17, NotifyResult DEF SaveRejected, OrderRecord
    <2>2. [rows[o] EXCEPT !.status = arg[o].status, !.filled = arg[o].filled] \in OrderRecord
      <3>1. rows[o] \in OrderRecord /\ arg[o].filled \in Nat
              /\ arg[o].status \in Statuses \cup {"None"}
        OBVIOUS
      <3> QED BY <3>1 DEF OrderRecord
    <2>3. \/ rows' = [rows EXCEPT ![o] = [rows[o] EXCEPT !.status = arg[o].status,
                                                       !.filled = arg[o].filled]]
          \/ rows' = rows
      BY <1>17 DEF SaveRejected
    <2>4. rows' \in [Orders -> OrderRecord]
      BY <2>2, <2>3
    <2> QED BY <1>17, <2>1, <2>4 DEF SaveRejected, MoveTo, NoArg
  <1>18. CASE VenueAccept(o)
    BY <1>18 DEF VenueAccept, memory, tables, OrderRecord
  <1>19. ASSUME NEW q \in 1 .. book[o].left, VenueFill(o, q) \/ LoseFill(o, q)
        PROVE  TypeOK'
    <2> DEFINE w == book[o].at
               f == [order |-> o, n |-> book[o].n + 1, qty |-> q]
               b == [at |-> w, left |-> book[o].left - q, n |-> f.n]
    <2>1. book[o] \in [at : Venues \cup {NoVenue}, left : Nat, n : Nat]
      OBVIOUS
    <2>2. w \in Venues
      BY <1>19, <2>1, PipelineAssumption DEF VenueFill, LoseFill
    <2>3. f \in Fill
      BY <2>1
    <2>4. b \in [at : Venues \cup {NoVenue}, left : Nat, n : Nat]
      BY <2>1, <2>2
    <2>5. book' = [book EXCEPT ![o] = b]
      BY <1>19 DEF VenueFill, LoseFill
    <2>6. feed' = [feed EXCEPT ![w] = Append(feed[w], f)] \/ feed' = feed
      BY <1>19 DEF VenueFill, LoseFill
    <2> HIDE DEF f, b, w
    <2>7. Append(feed[w], f) \in Seq(Fill)
      BY <2>2, <2>3, SendResult
    <2>8. feed' \in [Venues -> Seq(Fill)]
      BY <2>6, <2>7
    <2>9. book' \in [Orders -> [at : Venues \cup {NoVenue}, left : Nat, n : Nat]]
      BY <2>4, <2>5
    <2> QED BY <1>19, <2>8, <2>9 DEF VenueFill, LoseFill, memory, tables
  <1> QED BY <1>1, <1>2, <1>3, <1>4, <1>5, <1>6, <1>7, <1>8, <1>9, <1>10,
             <1>11, <1>12, <1>13, <1>14, <1>15, <1>16, <1>17, <1>18, <1>19, <1>20
       DEF OrderStep

\* A step of a venue's adapter, fill collector or pricer keeps the types.
LEMMA VenueStepTyped ==
  ASSUME IInv, NEW v \in Venues, VenueStep(v)
  PROVE  TypeOK'
  <1>01. coll[v].pc # "idle" => order[coll[v].fill.order].venue = v
    BY CollectorOrder
  <1> USE DEF IInv, TypeOK
  <1> DEFINE CollRecord == [pc : {"idle", "fill", "order", "read", "write"},
                            fill : Fill \cup {NoFill}, row : SUBSET Fill]
  <1>0. coll[v] \in CollRecord /\ (coll[v].pc # "idle" => coll[v].fill \in Fill)
    BY DEF PipelineInv, FillInv
  <1>00. Idle \in CollRecord
    BY DEF Idle
  <1>1. CASE Connect(v)
    BY <1>1 DEF Connect, memory, tables
  <1>2. CASE Disconnect(v)
    BY <1>2 DEF Disconnect, memory, tables
  <1>3. CASE TakeFill(v)
    <2> DEFINE f == Head(feed[v])
    <2>1. f \in Fill /\ Tail(feed[v]) \in Seq(Fill)
      BY <1>3, ReceiveResult DEF TakeFill
    <2>2. f.order \in Orders /\ f.qty \in Nat
      BY <2>1 DEF Fill
    <2>3. ApplyFill(order[f.order], f.qty) \in OrderRecord
      BY <2>2, ApplyFillResult
    <2>4. order' \in [Orders -> OrderRecord]
      BY <1>3, <2>2, <2>3 DEF TakeFill
    <2>5. [pc |-> "fill", fill |-> f, row |-> {}] \in CollRecord
      BY <2>1
    <2>6. coll' \in [Venues -> CollRecord]
      BY <1>3, <2>5 DEF TakeFill
    <2> QED BY <1>3, <2>1, <2>4, <2>6 DEF TakeFill, tables
  <1>4. CASE DropFill(v)
    <2>1. Tail(feed[v]) \in Seq(Fill)
      BY <1>4, ReceiveResult DEF DropFill
    <2> QED BY <1>4, <2>1 DEF DropFill, memory, tables
  <1>5. CASE SaveFill(v)
    <2>1. coll' = [coll EXCEPT ![v] = [coll[v] EXCEPT !.pc = "order"]]
            \/ coll' = [coll EXCEPT ![v] = Idle]
      BY <1>5 DEF SaveFill
    <2>2. coll' \in [Venues -> CollRecord]
      <3>1. [coll[v] EXCEPT !.pc = "order"] \in CollRecord
        BY <1>0
      <3> QED BY <1>00, <2>1, <3>1
    <2>3. fills' \subseteq Fill
      BY <1>0, <1>5 DEF SaveFill
    <2> QED BY <1>5, <2>2, <2>3 DEF SaveFill, memory
  <1>6. CASE SaveOrder(v)
    <2>1. coll' = [coll EXCEPT ![v] = [coll[v] EXCEPT !.pc = "read"]]
            \/ coll' = [coll EXCEPT ![v] = Idle]
      BY <1>6 DEF SaveOrder
    <2>2. coll' \in [Venues -> CollRecord]
      <3>1. [coll[v] EXCEPT !.pc = "read"] \in CollRecord
        BY <1>0
      <3> QED BY <1>00, <2>1, <3>1
    <2>3. coll[v].fill.order \in Orders
      BY <1>0, <1>6 DEF SaveOrder, Fill
    <2>4. rows' \in [Orders -> OrderRecord]
      <3>1. order[coll[v].fill.order] \in OrderRecord
        BY <2>3
      <3> QED BY <1>6, <3>1 DEF SaveOrder
    <2> QED BY <1>6, <2>2, <2>4 DEF SaveOrder, memory
  <1>7. CASE ReadPosition(v)
    <2> DEFINE o == coll[v].fill.order
    <2>1. coll[v].fill \in Fill /\ o \in Orders
      BY <1>0, <1>7 DEF ReadPosition, Fill
    <2>3. order[o].venue = v
      BY <1>01, <1>7 DEF ReadPosition
    <2>4. PICK row \in SUBSET Fill :
            coll' = [coll EXCEPT ![v] = [pc |-> "write", fill |-> coll[v].fill, row |-> row]]
      BY <1>7, <2>3 DEF ReadPosition
    <2>5. coll' \in [Venues -> CollRecord]
      BY <2>1, <2>4
    <2> QED BY <1>7, <2>5 DEF ReadPosition, memory, tables
  <1>8. CASE SavePosition(v)
    <2> DEFINE o == coll[v].fill.order
    <2>1. coll[v].fill \in Fill /\ o \in Orders
      BY <1>0, <1>8 DEF SavePosition, Fill
    <2>2. coll' \in [Venues -> CollRecord]
      BY <1>8 DEF SavePosition, Idle
    <2>3. NewRow(v) \subseteq Fill
      BY <1>0, <2>1 DEF NewRow
    <2>4. pos' \in [Venues -> SUBSET Fill]
      <3>1. pos \in [Venues -> SUBSET Fill]
        OBVIOUS
      <3>2. pos' = [pos EXCEPT ![order[o].venue] = NewRow(v)] \/ pos' = pos
        BY <1>8 DEF SavePosition
      <3> HIDE DEF IInv, TypeOK
      <3> QED BY <2>3, <3>1, <3>2
    <2>5. tracked' \subseteq Orders
      BY <1>8 DEF SavePosition, Forget
    <2>6. topic' \in [Orders -> Seq(Events)]
      <3>1. ASSUME NEW a, NEW b,
                   topic' = [topic EXCEPT ![o] =
                               @ \o FillEvents(a, b, order[o].status = "Filled")]
            PROVE  topic' \in [Orders -> Seq(Events)]
        BY <2>1, <3>1, FillEventsResult, TopicAppend
      <3> QED BY <1>8, <3>1 DEF SavePosition
    <2> QED BY <1>8, <2>2, <2>4, <2>5, <2>6 DEF SavePosition
  <1>9. CASE ReadForPrice(v)
    BY <1>9 DEF ReadForPrice, memory, tables
  <1>10. CASE SavePrice(v)
    BY <1>10 DEF SavePrice, NotPricing, memory
  <1> QED BY <1>1, <1>2, <1>3, <1>4, <1>5, <1>6, <1>7, <1>8, <1>9, <1>10 DEF VenueStep

\* A restart keeps the types.
LEMMA RestartTyped ==
  ASSUME IInv, Restart
  PROVE  TypeOK'
  <1> USE DEF IInv, TypeOK
  <1>1. order' \in [Orders -> OrderRecord]
    BY DEF Restart, NoOrder, OrderRecord
  <1>2. stage' \in [Orders -> Stages]
    BY DEF Restart, Stages
  <1>3. arg' \in [Orders -> [status : Statuses \cup {"None"}, filled : Nat]]
    BY DEF Restart, NoArg
  <1>4. coll' \in [Venues -> [pc : {"idle", "fill", "order", "read", "write"},
                              fill : Fill \cup {NoFill}, row : SUBSET Fill]]
    BY DEF Restart, Idle
  <1>5. book' \in [Orders -> [at : Venues \cup {NoVenue}, left : Nat, n : Nat]]
    <2>1. ASSUME NEW o \in Orders
          PROVE  [book[o] EXCEPT !.left = 0] \in [at : Venues \cup {NoVenue}, left : Nat, n : Nat]
      <3> HIDE DEF IInv, TypeOK
      <3>1. book[o] \in [at : Venues \cup {NoVenue}, left : Nat, n : Nat]
        BY DEF IInv, TypeOK
      <3> QED BY <3>1
    <2> QED BY <2>1 DEF Restart
  <1>6. feed' \in [Venues -> Seq(Fill)]
    <2>1. << >> \in Seq(Fill)
      OBVIOUS
    <2>2. feed' = [v \in Venues |-> << >>]
      BY DEF Restart
    <2> QED BY <2>1, <2>2
  <1>7. pricer' \in [Venues -> [busy : BOOLEAN, row : SUBSET Fill]]
    <2>1. NotPricing \in [busy : BOOLEAN, row : SUBSET Fill]
      BY DEF NotPricing
    <2>2. pricer' = [v \in Venues |-> NotPricing]
      BY DEF Restart
    <2> QED BY <2>1, <2>2
  <1>8. /\ tracked' = {} /\ ready' = {} /\ first' \in Venues
        /\ smart' = FALSE /\ restarts' = restarts + 1
    BY DEF Restart
  <1>9. UNCHANGED <<rows, fills, pos, topic, canceled, late>>
    BY DEF Restart, tables
  <1>10. tracked' \subseteq Orders /\ ready' \subseteq Venues /\ smart' \in BOOLEAN
    BY <1>8
  <1>11. restarts' \in Nat
    BY <1>8
  <1> QED BY <1>1, <1>2, <1>3, <1>4, <1>5, <1>6, <1>7, <1>8, <1>9, <1>10, <1>11

\* Every step keeps the types; reading a position row takes the invariant: the
\* row is that of the venue whose fill is being booked.
LEMMA NextTyped ==
  ASSUME IInv, [Next]_vars
  PROVE  TypeOK'
  <1>1. CASE \E o \in Orders : OrderStep(o)
    BY <1>1, OrderStepTyped
  <1>2. CASE \E v \in Venues : VenueStep(v)
    BY <1>2, VenueStepTyped
  <1>3. CASE Restart
    BY <1>3, RestartTyped
  <1>4. CASE UNCHANGED vars
    BY <1>4 DEF vars, IInv, TypeOK
  <1> QED BY <1>1, <1>2, <1>3, <1>4 DEF Next

\* The initial state has its types and satisfies the invariant.
LEMMA InitInv == Init => IInv
  <1> SUFFICES ASSUME Init PROVE IInv
    OBVIOUS
  <1>1. NoOrder \in OrderRecord /\ NoOrder.venue = NoVenue
    BY DEF NoOrder, OrderRecord
  <1>2. order \in [Orders -> OrderRecord] /\ rows \in [Orders -> OrderRecord]
    BY <1>1 DEF Init
  <1>3. arg \in [Orders -> [status : Statuses \cup {"None"}, filled : Nat]]
    BY DEF Init, NoArg
  <1>4. stage \in [Orders -> Stages] /\ tracked = {} /\ ready = {} /\ canceled = {}
    BY DEF Init, Stages
  <1>5. pos \in [Venues -> SUBSET Fill] /\ fills = {}
    BY DEF Init
  <1>6. book \in [Orders -> [at : Venues \cup {NoVenue}, left : Nat, n : Nat]]
    BY DEF Init, Unknown
  <1>7. feed \in [Venues -> Seq(Fill)] /\ topic \in [Orders -> Seq(Events)]
    BY DEF Init
  <1>8. coll \in [Venues -> [pc : {"idle", "fill", "order", "read", "write"},
                             fill : Fill \cup {NoFill}, row : SUBSET Fill]]
    BY DEF Init, Idle
  <1>9. pricer \in [Venues -> [busy : BOOLEAN, row : SUBSET Fill]]
    BY DEF Init, NotPricing
  <1>10. TypeOK
    BY <1>2, <1>3, <1>4, <1>5, <1>6, <1>7, <1>8, <1>9 DEF Init, TypeOK
  <1>11. ASSUME NEW o \in Orders PROVE OrderInv(o)
    BY DEF Init, OrderInv, Unknown
  <1>12. ASSUME NEW v \in Venues PROVE FillInv(v)
    BY DEF Init, FillInv, Idle
  <1> QED BY <1>10, <1>11, <1>12 DEF IInv, PipelineInv

-----------------------------------------------------------------------------
\* The inductive invariant

\* A step changes nothing of the other orders.
OnlyOrder(o) ==
  \A p \in Orders \ {o} : /\ order'[p] = order[p]
                         /\ stage'[p] = stage[p]
                         /\ arg'[p] = arg[p]
                         /\ rows'[p] = rows[p]
                         /\ book'[p] = book[p]
                         /\ (p \in late') = (p \in late)

\* Every element of a venue's channel is a fill of some order.
LEMMA FeedElements ==
  ASSUME TypeOK, NEW v \in Venues, NEW i \in 1 .. Len(feed[v])
  PROVE  feed[v][i] \in Fill /\ feed[v][i].order \in Orders
  <1>1. feed[v] \in Seq(Fill)
    BY DEF TypeOK
  <1>2. feed[v][i] \in Fill
    BY <1>1
  <1> QED BY <1>2 DEF Fill

\* A step of one order that leaves the channels of the venues and the
\* collectors alone keeps the invariant if it keeps the part of that order.
LEMMA OneOrderStep ==
  ASSUME IInv, NEW o \in Orders, OnlyOrder(o), OrderInv(o)',
         feed' = feed, coll' = coll,
         stage'[o] = stage[o] \/ stage'[o] # "gone",
         book[o].at \in {NoVenue, book'[o].at}
  PROVE  PipelineInv'
  <1>1. ASSUME NEW p \in Orders PROVE OrderInv(p)'
    <2>1. CASE p = o
      BY <2>1
    <2>2. CASE p # o
      BY <2>2 DEF OnlyOrder, OrderInv, PastNew, IInv, PipelineInv
    <2> QED BY <2>1, <2>2
  <1>2. ASSUME NEW v \in Venues PROVE FillInv(v)'
    <2>1. FillInv(v)
      BY DEF IInv, PipelineInv
    <2>2. ASSUME NEW i \in 1 .. Len(feed[v]) PROVE book'[feed[v][i].order].at = v
      <3>1. feed[v][i].order \in Orders
        BY FeedElements DEF IInv
      <3>2. book[feed[v][i].order].at = v
        BY <2>1 DEF FillInv
      <3> QED BY <3>1, <3>2, VenueAssumption DEF OnlyOrder
    <2>3. ASSUME coll[v].pc # "idle"
          PROVE  /\ coll[v].fill \in Fill
                 /\ book'[coll[v].fill.order].at = v
                 /\ stage'[coll[v].fill.order] # "gone"
      <3>1. /\ coll[v].fill \in Fill
            /\ book[coll[v].fill.order].at = v
            /\ stage[coll[v].fill.order] # "gone"
        BY <2>1, <2>3 DEF FillInv
      <3>2. coll[v].fill.order \in Orders
        BY <3>1 DEF Fill
      <3> QED BY <3>1, <3>2, VenueAssumption DEF OnlyOrder
    <2> QED BY <2>2, <2>3 DEF FillInv
  <1> QED BY <1>1, <1>2 DEF PipelineInv

\* Every step of an order keeps the invariant.
LEMMA OrderStepInv ==
  ASSUME IInv, NEW o \in Orders, OrderStep(o)
  PROVE  PipelineInv'
  <1>0. OrderInv(o) /\ TypeOK
    BY DEF IInv, PipelineInv
  <1> DEFINE G == /\ OnlyOrder(o) /\ OrderInv(o)' /\ feed' = feed /\ coll' = coll
                  /\ stage'[o] = stage[o] \/ stage'[o] # "gone"
                  /\ book[o].at \in {NoVenue, book'[o].at}
  <1> SUFFICES G \/ PipelineInv'
    BY OneOrderStep
  <1> USE DEF TypeOK, Sent, PastNew
  <1>1. ASSUME NEW q \in Quantities, NEW v \in Venues \cup {NoVenue}, Submit(o, q, v)
        PROVE  G
    BY <1>0, <1>1 DEF Submit, OnlyOrder, OrderInv, MoveTo, NewOrder
  <1>2. ASSUME NEW q \in Quantities, NEW v \in Venues \cup {NoVenue}, SubmitRefused(o, q, v)
        PROVE  G
    BY <1>0, <1>2 DEF SubmitRefused, OnlyOrder, OrderInv, MoveTo, tables
  <1>3. ASSUME Enqueue(o) PROVE G
    BY <1>0, <1>3 DEF Enqueue, OnlyOrder, OrderInv, MoveTo, tables
  <1>4. ASSUME Abandon(o) PROVE G
    BY <1>0, <1>4 DEF Abandon, OnlyOrder, OrderInv, MoveTo, tables
  <1>5. ASSUME Cancel(o) PROVE G
    BY <1>0, <1>5 DEF Cancel, OnlyOrder, OrderInv, memory, tables
  <1>6. ASSUME TakeForRisk(o) PROVE G
    BY <1>0, <1>6 DEF TakeForRisk, OnlyOrder, OrderInv, MoveTo, tables
  <1>7. ASSUME RiskPass(o) PROVE G
    BY <1>0, <1>7 DEF RiskPass, OnlyOrder, OrderInv, MoveTo, tables
  <1>8. ASSUME RiskReject(o) PROVE G
    BY <1>0, <1>8 DEF RiskReject, OnlyOrder, OrderInv, MoveTo, Reject
  <1>9. ASSUME Route(o) PROVE G
    BY <1>0, <1>9 DEF Route, OnlyOrder, OrderInv, MoveTo
  <1>10. ASSUME RejectDisconnected(o) PROVE G
    BY <1>0, <1>10 DEF RejectDisconnected, OnlyOrder, OrderInv, MoveTo, Reject
  <1>20. ASSUME PassVenueCheck(o) PROVE G
    BY <1>0, <1>20 DEF PassVenueCheck, OnlyOrder, OrderInv, MoveTo, tables
  <1>11. ASSUME Dispatch(o) PROVE G
    BY <1>0, <1>11 DEF Dispatch, OnlyOrder, OrderInv, MoveTo, tables
  <1>12. ASSUME Acknowledge(o) PROVE G
    <2>1. order[o] \in OrderRecord
      BY <1>0
    <2>2. CanTransition(order[o], "Acknowledged") =>
            Transition(order[o], "Acknowledged").status = "Acknowledged"
      BY <2>1, TransitionResult DEF Statuses
    <2> QED BY <1>0, <1>12, <2>2 DEF Acknowledge, OnlyOrder, OrderInv, MoveTo, tables
  <1>13. ASSUME SaveAck(o) PROVE G
    BY <1>0, <1>13 DEF SaveAck, OnlyOrder, OrderInv, MoveTo
  <1>14. ASSUME SubmitOk(o) PROVE G
    BY <1>0, <1>14 DEF SubmitOk, OnlyOrder, OrderInv, MoveTo, tables
  <1>15. ASSUME SubmitError(o) PROVE G
    <2>1. order[o] \in OrderRecord
      BY <1>0
    <2>2. /\ PastNew(order[o]) => PastNew(Transition(order[o], "Rejected"))
          /\ Transition(order[o], "Rejected").venue = order[o].venue
      BY <2>1, TransitionResult DEF Statuses
    <2> QED BY <1>0, <1>15, <2>2 DEF SubmitError, OnlyOrder, OrderInv, MoveTo, tables
  <1>16. ASSUME ReadStatusArg(o) PROVE G
    BY <1>0, <1>16 DEF ReadStatusArg, OnlyOrder, OrderInv, MoveTo, tables
  <1>17. ASSUME SaveRejected(o) PROVE G
    BY <1>0, <1>17 DEF SaveRejected, OnlyOrder, OrderInv, MoveTo
  <1>18. ASSUME VenueAccept(o) PROVE G
    BY <1>0, <1>18, VenueAssumption DEF VenueAccept, OnlyOrder, OrderInv, memory, tables
  <1>19. ASSUME NEW q \in 1 .. book[o].left, VenueFill(o, q) \/ LoseFill(o, q)
        PROVE  PipelineInv'
    <2> DEFINE w == book[o].at
               f == [order |-> o, n |-> book[o].n + 1, qty |-> q]
    <2>0. book[o] \in [at : Venues \cup {NoVenue}, left : Nat, n : Nat]
      BY <1>0
    <2>1. w \in Venues /\ feed[w] \in Seq(Fill) /\ f \in Fill
      <3>1. w \in Venues
        BY <1>19, <2>0, PipelineAssumption DEF VenueFill, LoseFill
      <3>2. f \in Fill
        BY <2>0 DEF Fill
      <3> QED BY <1>0, <3>1, <3>2
    <2>2. \A p \in Orders : book'[p].at = book[p].at
      <3>1. book' = [book EXCEPT ![o] = [at |-> w, left |-> book[o].left - q,
                                                   n |-> book[o].n + 1]]
        BY <1>19 DEF VenueFill, LoseFill
      <3> QED BY <1>0, <3>1
    <2>3. feed' = [feed EXCEPT ![w] = Append(feed[w], f)] \/ feed' = feed
      BY <1>19 DEF VenueFill, LoseFill
    <2>4. UNCHANGED <<order, stage, arg, rows, coll, late>>
      BY <1>19 DEF VenueFill, LoseFill, memory, tables
    <2>5. ASSUME NEW p \in Orders PROVE OrderInv(p)'
      BY <2>2, <2>4 DEF OrderInv, IInv, PipelineInv
    <2>6. ASSUME NEW v \in Venues PROVE FillInv(v)'
      <3>1. FillInv(v)
        BY DEF IInv, PipelineInv
      <3>2. ASSUME NEW i \in 1 .. Len(feed'[v])
            PROVE  book'[feed'[v][i].order].at = v
        <4>1. CASE v = w /\ feed' = [feed EXCEPT ![w] = Append(feed[w], f)]
          <5>1. feed'[v] = Append(feed[w], f)
            BY <1>0, <2>1, <4>1
          <5>2. CASE i = Len(feed[w]) + 1
            <6>1. feed'[v][i] = f
              BY <2>1, <5>1, <5>2, SendResult
            <6>2. f.order = o
              OBVIOUS
            <6> HIDE DEF f, w
            <6>3. w = book[o].at
              BY DEF w
            <6> QED BY <1>0, <2>2, <4>1, <6>1, <6>2, <6>3
          <5>3. CASE i # Len(feed[w]) + 1
            <6>1. i \in 1 .. Len(feed[w]) /\ feed'[v][i] = feed[w][i]
              BY <2>1, <3>2, <5>1, <5>3, SendResult
            <6>2. feed[w][i].order \in Orders
              BY <1>0, <2>1, <6>1, FeedElements
            <6> QED BY <2>2, <3>1, <4>1, <6>1, <6>2 DEF FillInv
          <5> QED BY <5>2, <5>3
        <4>2. CASE feed'[v] = feed[v]
          <5>1. feed[v][i].order \in Orders
            BY <1>0, <3>2, <4>2, FeedElements
          <5> QED BY <2>2, <3>1, <3>2, <4>2, <5>1 DEF FillInv
        <4> QED BY <1>0, <2>1, <2>3, <4>1, <4>2
      <3>3. coll'[v].pc # "idle" => coll'[v].fill.order \in Orders
        BY <2>4, <3>1 DEF FillInv, Fill
      <3> QED BY <2>2, <2>4, <3>1, <3>2, <3>3 DEF FillInv
    <2> QED BY <2>5, <2>6 DEF PipelineInv
  <1> QED BY <1>1, <1>2, <1>3, <1>4, <1>5, <1>6, <1>7, <1>8, <1>9, <1>10,
             <1>11, <1>12, <1>13, <1>14, <1>15, <1>16, <1>17, <1>18, <1>19, <1>20
       DEF OrderStep

\* A step of a venue's adapter, fill collector or pricer keeps the invariant.
LEMMA VenueStepInv ==
  ASSUME IInv, NEW v \in Venues, VenueStep(v)
  PROVE  PipelineInv'
  <1>0. TypeOK /\ (\A p \in Orders : OrderInv(p)) /\ (\A w \in Venues : FillInv(w))
    BY DEF IInv, PipelineInv
  <1>00. coll[v].pc # "idle" => coll[v].fill \in Fill /\ coll[v].fill.order \in Orders
    BY <1>0 DEF FillInv, Fill
  <1>1. ASSUME UNCHANGED <<order, stage, arg, rows, book, feed, coll, late>>
        PROVE  PipelineInv'
    BY <1>0, <1>1 DEF PipelineInv, OrderInv, FillInv, PastNew
  <1>2. CASE Connect(v) \/ Disconnect(v)
    BY <1>1, <1>2 DEF Connect, Disconnect, memory, tables
  <1>3. CASE ReadForPrice(v) \/ SavePrice(v)
    BY <1>1, <1>3 DEF ReadForPrice, SavePrice, memory, tables
  \* The orders and the channels stay, and the collector goes on or stops.
  <1>4. ASSUME UNCHANGED <<order, stage, arg, rows, book, feed, late>>,
               \A w \in Venues \ {v} : coll'[w] = coll[w],
               coll'[v].pc # "idle" => coll'[v].fill = coll[v].fill /\ coll[v].pc # "idle"
        PROVE  PipelineInv'
    <2>1. ASSUME NEW p \in Orders PROVE OrderInv(p)'
      BY <1>0, <1>4 DEF OrderInv, PastNew
    <2>2. ASSUME NEW w \in Venues PROVE FillInv(w)'
      BY <1>0, <1>4 DEF FillInv
    <2> QED BY <2>1, <2>2 DEF PipelineInv
  <1>5. CASE SaveFill(v)
    BY <1>0, <1>4, <1>5 DEF SaveFill, TypeOK, memory, Idle
  <1>6. CASE ReadPosition(v)
    BY <1>0, <1>4, <1>6 DEF ReadPosition, TypeOK, memory, tables
  <1>7. CASE SavePosition(v)
    BY <1>0, <1>4, <1>7 DEF SavePosition, TypeOK, Idle
  \* The channel of v loses its first fill.
  <1>8. ASSUME feed[v] # << >>, feed' = [feed EXCEPT ![v] = Tail(@)],
               NEW w \in Venues, NEW i \in 1 .. Len(feed'[w])
        PROVE  book[feed'[w][i].order].at = w
    <2>1. CASE w = v
      <3>1. feed'[w] = Tail(feed[v]) /\ feed[v] \in Seq(Fill)
        BY <1>0, <1>8, <2>1 DEF TypeOK
      <3>2. feed'[w][i] = feed[v][i + 1] /\ i + 1 \in 1 .. Len(feed[v])
        BY <1>8, <3>1, ReceiveResult
      <3> QED BY <1>0, <2>1, <3>2 DEF FillInv
    <2>2. CASE w # v
      BY <1>0, <1>8, <2>2 DEF TypeOK, FillInv
    <2> QED BY <2>1, <2>2
  <1>9. CASE DropFill(v)
    <2>1. ASSUME NEW p \in Orders PROVE OrderInv(p)'
      BY <1>0, <1>9 DEF DropFill, memory, tables, OrderInv, PastNew
    <2>2. ASSUME NEW w \in Venues PROVE FillInv(w)'
      BY <1>0, <1>8, <1>9 DEF DropFill, memory, FillInv
    <2> QED BY <2>1, <2>2 DEF PipelineInv
  <1>10. CASE TakeFill(v)
    <2> DEFINE f == Head(feed[v])
    <2>1. f = feed[v][1] /\ 1 \in 1 .. Len(feed[v])
      BY <1>0, <1>10 DEF TakeFill, TypeOK
    <2>2. f \in Fill /\ f.order \in Orders
      BY <1>0, <2>1, FeedElements
    <2>3. book[f.order].at = v
      BY <1>0, <2>1 DEF FillInv
    <2>4. order[f.order] # NoOrder
      BY <1>10, FillableOrder DEF TakeFill
    <2>5. stage[f.order] # "gone"
      BY <1>0, <2>2, <2>4 DEF OrderInv
    <2>6. order' = [order EXCEPT ![f.order] = ApplyFill(order[f.order], f.qty)]
      BY <1>10 DEF TakeFill
    <2>7. UNCHANGED <<stage, arg, rows, book, late>>
      BY <1>10 DEF TakeFill, tables
    <2>8. ASSUME NEW p \in Orders PROVE OrderInv(p)'
      <3>1. CASE p # f.order
        BY <1>0, <2>2, <2>6, <2>7, <3>1 DEF OrderInv, PastNew, TypeOK
      <3>2. CASE p = f.order
        <4>1. order'[p] = ApplyFill(order[p], f.qty)
          BY <1>0, <2>2, <2>6, <3>2 DEF TypeOK
        <4>2. order[p] \in OrderRecord /\ f.qty \in Nat
          BY <1>0, <2>2 DEF TypeOK, Fill
        <4>3. order'[p].venue = order[p].venue /\ PastNew(order'[p])
          BY <4>1, <4>2, ApplyFillResult DEF PastNew
        <4>4. stage[p] \in Sent
          BY <1>0, <2>2, <2>3, <2>5, <3>2, VenueAssumption DEF OrderInv
        <4> QED BY <1>0, <2>7, <4>3, <4>4 DEF OrderInv, PastNew, Sent
      <3> QED BY <3>1, <3>2
    <2>9. ASSUME NEW w \in Venues PROVE FillInv(w)'
      <3>1. \A i \in 1 .. Len(feed'[w]) : book'[feed'[w][i].order].at = w
        BY <1>8, <1>10, <2>7 DEF TakeFill
      <3>2. CASE w = v
        <4>1. coll'[v].fill = f
          BY <1>0, <1>10 DEF TakeFill, TypeOK
        <4> QED BY <2>2, <2>3, <2>5, <2>7, <3>1, <3>2, <4>1 DEF FillInv
      <3>3. CASE w # v
        <4>1. coll'[w] = coll[w]
          BY <1>0, <1>10, <3>3 DEF TakeFill, TypeOK
        <4> QED BY <1>0, <2>7, <3>1, <4>1 DEF FillInv
      <3> QED BY <3>2, <3>3
    <2> QED BY <2>8, <2>9 DEF PipelineInv
  <1>11. CASE SaveOrder(v)
    <2> DEFINE o == coll[v].fill.order
    <2>1. o \in Orders /\ book[o].at = v /\ stage[o] # "gone"
      BY <1>0, <1>00, <1>11 DEF SaveOrder, FillInv
    <2>2. UNCHANGED <<order, stage, arg, book, feed, late>>
      BY <1>11 DEF SaveOrder, memory
    <2>3. rows' = [rows EXCEPT ![o] = order[o]] \/ rows' = rows
      BY <1>11 DEF SaveOrder
    <2>4. ASSUME NEW p \in Orders PROVE OrderInv(p)'
      <3>1. CASE rows'[p] = rows[p]
        BY <1>0, <2>2, <3>1 DEF OrderInv, PastNew
      <3>2. CASE p = o /\ rows'[p] = order[p]
        BY <1>0, <2>1, <2>2, <3>2, VenueAssumption DEF OrderInv, PastNew
      <3> QED BY <1>0, <2>1, <2>3, <3>1, <3>2 DEF TypeOK
    <2>5. ASSUME NEW w \in Venues PROVE FillInv(w)'
      <3>1. CASE w = v
        <4>1. coll'[v].pc = "idle" \/ coll'[v].fill = coll[v].fill
          BY <1>0, <1>11 DEF SaveOrder, TypeOK, Idle
        <4>2. coll[v].pc # "idle"
          BY <1>11 DEF SaveOrder
        <4> QED BY <1>0, <2>2, <3>1, <4>1, <4>2 DEF FillInv
      <3>2. CASE w # v
        <4>1. coll'[w] = coll[w]
          BY <1>0, <1>11, <3>2 DEF SaveOrder, TypeOK
        <4> QED BY <1>0, <2>2, <4>1 DEF FillInv
      <3> QED BY <3>1, <3>2
    <2> QED BY <2>4, <2>5 DEF PipelineInv
  <1> QED BY <1>2, <1>3, <1>5, <1>6, <1>7, <1>9, <1>10, <1>11 DEF VenueStep

\* A restart keeps the invariant: what was in memory is forgotten, and the
\* orders at the venues stay on record.
LEMMA RestartInv ==
  ASSUME IInv, Restart
  PROVE  PipelineInv'
  <1>0. TypeOK /\ (\A p \in Orders : OrderInv(p))
    BY DEF IInv, PipelineInv
  <1>1. ASSUME NEW o \in Orders PROVE OrderInv(o)'
    <2>1. book'[o].at = book[o].at
      BY <1>0 DEF Restart, TypeOK
    <2>2. order'[o] = NoOrder /\ rows'[o] = rows[o] /\ late' = late
      BY DEF Restart, tables
    <2>3. stage'[o] \in {"none", "gone"} /\ (stage[o] # "none" => stage'[o] = "gone")
      BY DEF Restart
    <2> QED BY <1>0, <2>1, <2>2, <2>3 DEF OrderInv, Sent, PastNew
  <1>2. ASSUME NEW v \in Venues PROVE FillInv(v)'
    <2>1. feed'[v] = << >> /\ coll'[v] = Idle
      BY DEF Restart
    <2> QED BY <2>1 DEF FillInv, Idle
  <1> QED BY <1>1, <1>2 DEF PipelineInv

\* Every step keeps the invariant.
LEMMA NextInv ==
  ASSUME IInv, [Next]_vars
  PROVE  IInv'
  <1>1. ASSUME \E o \in Orders : OrderStep(o) PROVE PipelineInv'
    BY <1>1, OrderStepInv
  <1>2. ASSUME \E v \in Venues : VenueStep(v) PROVE PipelineInv'
    BY <1>2, VenueStepInv
  <1>3. ASSUME Restart PROVE PipelineInv'
    BY <1>3, RestartInv
  <1>4. ASSUME UNCHANGED vars PROVE PipelineInv'
    BY <1>4 DEF vars, IInv, PipelineInv, OrderInv, FillInv, PastNew
  <1>5. PipelineInv'
    BY <1>1, <1>2, <1>3, <1>4 DEF Next
  <1> QED BY <1>5, NextTyped DEF IInv

-----------------------------------------------------------------------------
\* Theorems

\* The inductive invariant holds of every behaviour of the pipeline.
THEOREM Invariance == Spec => []IInv
  BY InitInv, NextInv, PTL DEF Spec

\* Every variable keeps its type; in particular a position row is only read
\* for a venue that exists (processFill looks it up by order.VenueID).
THEOREM TypeCorrectness == Spec => []TypeOK
  <1>1. IInv => TypeOK
    BY DEF IInv
  <1> QED BY <1>1, Invariance, PTL

\* Whatever calls fail and whenever the gateway restarts, an order that lives
\* at a venue is in the orders table, past New and with that venue: the order
\* in which Submit, the router and venueDispatch persist and send guarantees it.
THEOREM VenueOrdersRecorded == Spec => []VenueOrdersOnRecord
  <1>1. IInv => VenueOrdersOnRecord
    BY DEF IInv, PipelineInv, OrderInv, PastNew, VenueOrdersOnRecord
  <1> QED BY <1>1, Invariance, PTL

-----------------------------------------------------------------------------
(***************************************************************************)
(* Executions: what is filled and booked is what the venues executed, and  *)
(* what they can still execute fits in what is not filled, whatever calls  *)
(* fail, SubmitOrder among them, and whenever the gateway restarts.        *)
(***************************************************************************)

\* The inductive invariant of the executions

\* What the venue can still execute fits in what is not filled yet.
FilledInv(o) ==
  /\ o \in tracked => stage[o] # "gone"
  /\ book[o].at = NoVenue => book[o].n = 0 /\ order[o].filled = 0
  /\ book[o].at # NoVenue /\ stage[o] # "gone" =>
        order[o].filled + book[o].left <= order[o].qty

\* Fills are executions, numbered by the venue; a collector has its fill in the
\* table before it goes on, and position rows count fills of the table.
ReportInv(v) ==
  /\ \A i \in 1 .. Len(feed[v]) : feed[v][i].n \in 1 .. book[feed[v][i].order].n
  /\ coll[v].pc # "idle" => /\ coll[v].fill.n \in 1 .. book[coll[v].fill.order].n
                            /\ coll[v].row \subseteq fills
  /\ coll[v].pc \in {"order", "read", "write"} => coll[v].fill \in fills
  /\ pricer[v].row \subseteq fills
  /\ pos[v] \subseteq fills

\* The position w of each fill of the channel in the quantity of its order: it
\* comes after what is filled in memory and before what the venue has left, and
\* the fills of one order do not overlap.
Placed(v, w) ==
  /\ \A i \in 1 .. Len(feed[v]) :
        stage[feed[v][i].order] # "gone" =>
          /\ order[feed[v][i].order].filled <= w[i]
          /\ w[i] + feed[v][i].qty + book[feed[v][i].order].left
                <= order[feed[v][i].order].qty
  /\ \A i, j \in 1 .. Len(feed[v]) :
        i < j /\ feed[v][i].order = feed[v][j].order
              /\ stage[feed[v][i].order] # "gone"
          => w[i] + feed[v][i].qty <= w[j]

PlacedInv(v) == \E w \in [1 .. Len(feed[v]) -> Nat] : Placed(v, w)

FillsInv ==
  /\ \A o \in Orders : FilledInv(o)
  /\ \A v \in Venues : ReportInv(v) /\ PlacedInv(v)
  /\ \A f \in fills : f.n \in 1 .. book[f.order].n

-----------------------------------------------------------------------------
\* Steps of one order

\* A fill in a channel, or in a collector, is of an order at that venue.
LEMMA FillOrders ==
  ASSUME IInv, NEW v \in Venues
  PROVE  /\ \A i \in 1 .. Len(feed[v]) : /\ feed[v][i].order \in Orders
                                         /\ book[feed[v][i].order].at = v
                                         /\ feed[v][i].qty \in Nat
                                         /\ feed[v][i].n \in Nat
         /\ coll[v].pc # "idle" => /\ coll[v].fill \in Fill
                                   /\ coll[v].fill.order \in Orders
                                   /\ coll[v].fill.qty \in Nat
                                   /\ book[coll[v].fill.order].at = v
                                   /\ stage[coll[v].fill.order] # "gone"
  BY FeedElements DEF IInv, PipelineInv, FillInv, Fill


\* A step of one order that leaves the channels, collectors and position rows
\* alone, and of an order at a venue the quantities, keeps the invariant if it
\* keeps the part of that order.
LEMMA OneOrderFills ==
  ASSUME IInv, FillsInv, NEW o \in Orders, OnlyOrder(o), FilledInv(o)',
         UNCHANGED <<feed, coll, fills, pos, pricer>>,
         \A p \in tracked' : p \in tracked \/ p = o,
         stage[o] = "gone" => stage'[o] = "gone",
         book'[o].n = book[o].n,
         book[o].at # NoVenue => /\ order'[o].filled = order[o].filled
                                 /\ order'[o].qty = order[o].qty
                                 /\ book'[o] = book[o]
  PROVE  FillsInv'
  <1>1. ASSUME NEW p \in Orders PROVE FilledInv(p)'
    <2>1. CASE p = o
      BY <2>1
    <2>2. CASE p # o
      BY <2>2 DEF OnlyOrder, FillsInv, FilledInv
    <2> QED BY <2>1, <2>2
  <1>2. \A p \in Orders : book'[p].n = book[p].n
    BY DEF OnlyOrder
  <1>3. \A p \in Orders : book[p].at # NoVenue => /\ order'[p].filled = order[p].filled
                                                 /\ order'[p].qty = order[p].qty
                                                 /\ book'[p] = book[p]
    BY DEF OnlyOrder
  <1>4. \A p \in Orders : stage'[p] # "gone" => stage[p] # "gone"
    BY DEF OnlyOrder
  <1>5. ASSUME NEW v \in Venues PROVE ReportInv(v)'
    BY <1>2, FillOrders DEF FillsInv, ReportInv
  <1>6. ASSUME NEW v \in Venues PROVE PlacedInv(v)'
    <2>1. PICK w \in [1 .. Len(feed[v]) -> Nat] : Placed(v, w)
      BY DEF FillsInv, PlacedInv
    <2>2. ASSUME NEW i \in 1 .. Len(feed[v])
          PROVE  LET p == feed[v][i].order IN
                 /\ order'[p].filled = order[p].filled
                 /\ order'[p].qty = order[p].qty
                 /\ book'[p] = book[p]
                 /\ stage'[p] # "gone" => stage[p] # "gone"
      BY <1>3, <1>4, FillOrders, VenueAssumption
    <2>3. Placed(v, w)'
      BY <2>1, <2>2 DEF Placed
    <2> QED BY <2>1, <2>3 DEF PlacedInv
  <1>7. \A f \in fills' : f.n \in 1 .. book'[f.order].n
    <2>1. fills \subseteq Fill
      BY DEF IInv, TypeOK
    <2> QED BY <1>2, <2>1 DEF FillsInv, Fill
  <1> QED BY <1>1, <1>5, <1>6, <1>7 DEF FillsInv

\* ApplyTransition does not change the quantities.
LEMMA TransitionQuantities ==
  ASSUME NEW ord \in OrderRecord, NEW s
  PROVE  Transition(ord, s).filled = ord.filled /\ Transition(ord, s).qty = ord.qty
  BY DEF Transition, OrderRecord

\* Every step of an order but the executions of its venue keeps the invariant:
\* it fills nothing, and the venue starts with the whole order.
LEMMA OrderStepFills ==
  ASSUME IInv, FillsInv, NEW o \in Orders, OrderStep(o),
         ~ \E q \in 1 .. book[o].left : VenueFill(o, q) \/ LoseFill(o, q)
  PROVE  FillsInv'
  <1>0. TypeOK /\ OrderInv(o) /\ FilledInv(o)
    BY DEF IInv, PipelineInv, FillsInv
  <1>00. order[o] \in OrderRecord /\ order[o].filled \in Nat /\ order[o].qty \in Nat
    BY <1>0 DEF TypeOK, OrderRecord
  \* A step that keeps the quantities of an order in memory.
  <1>m. ASSUME OnlyOrder(o), UNCHANGED <<feed, coll, fills, pos, pricer, book>>,
               \A p \in tracked' : p \in tracked \/ p = o,
               stage[o] # "gone", stage'[o] # "gone",
               order'[o].filled = order[o].filled, order'[o].qty = order[o].qty
        PROVE  FillsInv'
    <2>1. FilledInv(o)'
      BY <1>0, <1>m DEF FilledInv
    <2> QED BY <1>m, <2>1, OneOrderFills
  \* A step that only moves the order to the next stage.
  <1>s. ASSUME NEW s \in Stages, MoveTo(o, s), stage[o] # "gone", s # "gone",
               UNCHANGED <<order, arg, rows, tracked, feed, coll, fills, pos, pricer, book, late>>
        PROVE  FillsInv'
    BY <1>0, <1>m, <1>s DEF MoveTo, OnlyOrder, TypeOK
  <1>1. ASSUME NEW q \in Quantities, NEW v \in Venues \cup {NoVenue}, Submit(o, q, v)
        PROVE  FillsInv'
    <2>1. order'[o] = NewOrder(q, v) /\ stage'[o] = "submitted" /\ OnlyOrder(o)
      BY <1>0, <1>1 DEF Submit, MoveTo, OnlyOrder, TypeOK
    <2>2. book' = book /\ book[o].at = NoVenue /\ stage[o] # "gone"
      BY <1>0, <1>1 DEF Submit, OrderInv, Sent
    <2>3. FilledInv(o)'
      BY <1>0, <2>1, <2>2 DEF FilledInv, NewOrder
    <2> QED BY <1>0, <1>1, <2>1, <2>2, <2>3, OneOrderFills DEF Submit, TypeOK
  <1>2. ASSUME NEW q \in Quantities, NEW v \in Venues \cup {NoVenue}, SubmitRefused(o, q, v)
        PROVE  FillsInv'
    BY <1>2, <1>s DEF SubmitRefused, Stages, tables
  <1>3. CASE Enqueue(o)
    BY <1>3, <1>s DEF Enqueue, Stages, tables
  <1>4. CASE Abandon(o)
    BY <1>4, <1>s DEF Abandon, Stages, tables
  <1>5. CASE Cancel(o)
    <2>1. /\ UNCHANGED <<order, stage, arg, rows, tracked, late>>
          /\ UNCHANGED <<feed, coll, fills, pos, pricer, book>>
      BY <1>5 DEF Cancel, memory, tables
    <2>2. OnlyOrder(o) /\ FilledInv(o)'
      BY <1>0, <2>1 DEF OnlyOrder, FilledInv
    <2> QED BY <2>1, <2>2, OneOrderFills
  <1>6. CASE TakeForRisk(o)
    BY <1>6, <1>s DEF TakeForRisk, Stages, tables
  <1>7. CASE RiskPass(o)
    BY <1>7, <1>s DEF RiskPass, Stages, tables
  \* A rejection before the order reaches a dispatcher.
  <1>r. ASSUME stage[o] # "gone", Reject(o),
               UNCHANGED <<tracked, arg, fills, pos, book, feed, coll, pricer, late>>
        PROVE  FillsInv'
    <2>1. /\ order'[o] = Transition(order[o], "Rejected") /\ stage'[o] = "done"
          /\ OnlyOrder(o)
      BY <1>0, <1>r DEF Reject, MoveTo, OnlyOrder, TypeOK
    <2> QED BY <1>00, <1>m, <1>r, <2>1, TransitionQuantities
  <1>8. CASE RiskReject(o)
    BY <1>8, <1>r DEF RiskReject
  <1>9. CASE Route(o)
    <2>1. /\ order' = [order EXCEPT ![o] = [order[o] EXCEPT !.venue = Target(o)]]
          /\ stage[o] # "gone"
      BY <1>9 DEF Route
    <2>2. order'[o] = [order[o] EXCEPT !.venue = Target(o)]
      BY <1>0, <2>1 DEF TypeOK
    <2>3. order'[o].filled = order[o].filled /\ order'[o].qty = order[o].qty
      BY <1>00, <2>2 DEF OrderRecord
    <2>4. OnlyOrder(o) /\ stage'[o] \in {"routed", "stuck"}
      BY <1>0, <1>9, <2>1 DEF Route, MoveTo, OnlyOrder, TypeOK
    <2> QED BY <1>9, <1>m, <2>1, <2>3, <2>4 DEF Route
  <1>10. CASE RejectDisconnected(o)
    BY <1>10, <1>r DEF RejectDisconnected
  <1>11. CASE PassVenueCheck(o)
    BY <1>11, <1>s DEF PassVenueCheck, Stages, tables
  <1>12. CASE Dispatch(o)
    BY <1>12, <1>s DEF Dispatch, Stages, tables
  <1>13. CASE Acknowledge(o)
    <2>1. /\ order'[o] = Transition(order[o], "Acknowledged")
          /\ stage[o] # "gone" /\ stage'[o] \in {"acked", "stuck"}
          /\ OnlyOrder(o)
      BY <1>0, <1>13 DEF Acknowledge, MoveTo, OnlyOrder, TypeOK, tables
    <2> QED BY <1>00, <1>13, <1>m, <2>1, TransitionQuantities DEF Acknowledge, tables
  <1>14. CASE SaveAck(o)
    <2>1. /\ OnlyOrder(o) /\ stage[o] # "gone" /\ stage'[o] \in {"calling", "stuck"}
          /\ order' = order
      BY <1>0, <1>14 DEF SaveAck, MoveTo, OnlyOrder, TypeOK
    <2> QED BY <1>14, <1>m, <2>1 DEF SaveAck
  <1>15. CASE SubmitOk(o)
    BY <1>15, <1>s DEF SubmitOk, Stages, tables
  <1>16. CASE SubmitError(o)
    <2>1. /\ order'[o] = Transition(order[o], "Rejected")
          /\ stage[o] # "gone" /\ stage'[o] = "rejArgs"
          /\ OnlyOrder(o)
      BY <1>0, <1>16 DEF SubmitError, MoveTo, OnlyOrder, TypeOK, tables
    <2> QED BY <1>00, <1>16, <1>m, <2>1, TransitionQuantities DEF SubmitError, tables
  <1>17. CASE ReadStatusArg(o)
    <2>1. /\ OnlyOrder(o) /\ stage[o] # "gone" /\ stage'[o] = "rejSave" /\ order' = order
      BY <1>0, <1>17 DEF ReadStatusArg, MoveTo, OnlyOrder, TypeOK, tables
    <2> QED BY <1>17, <1>m, <2>1 DEF ReadStatusArg, tables
  <1>18. CASE SaveRejected(o)
    <2>1. /\ OnlyOrder(o) /\ stage[o] # "gone" /\ stage'[o] = "done" /\ order' = order
      BY <1>0, <1>18 DEF SaveRejected, MoveTo, OnlyOrder, TypeOK
    <2> QED BY <1>18, <1>m, <2>1 DEF SaveRejected
  <1>19. CASE VenueAccept(o)
    <2>1. /\ book[o].at = NoVenue /\ stage[o] = "calling"
          /\ book'[o] = [at |-> order[o].venue, left |-> order[o].qty, n |-> 0]
          /\ OnlyOrder(o) /\ UNCHANGED <<order, stage, tracked>>
      BY <1>0, <1>19 DEF VenueAccept, memory, tables, TypeOK, OnlyOrder
    <2>2. FilledInv(o)' /\ book'[o].n = book[o].n
      BY <1>0, <1>00, <2>1 DEF FilledInv
    <2> QED BY <1>19, <2>1, <2>2, OneOrderFills DEF VenueAccept, memory, tables
  <1> QED BY <1>1, <1>2, <1>3, <1>4, <1>5, <1>6, <1>7, <1>8, <1>9, <1>10,
             <1>11, <1>12, <1>13, <1>14, <1>15, <1>16, <1>17, <1>18, <1>19
       DEF OrderStep

-----------------------------------------------------------------------------
\* Executions

\* An execution, reported or not, takes its quantity from what the venue has
\* left and gets the next number.
LEMMA ExecutionResult ==
  ASSUME IInv, NEW o \in Orders, NEW q \in 1 .. book[o].left,
         VenueFill(o, q) \/ LoseFill(o, q)
  PROVE  /\ book[o].at \in Venues
         /\ book[o].left \in Nat /\ book[o].n \in Nat /\ q \in Nat
         /\ book'[o].at = book[o].at
         /\ book'[o].left = book[o].left - q
         /\ book'[o].n = book[o].n + 1
         /\ \A p \in Orders : p # o => book'[p] = book[p]
         /\ UNCHANGED <<order, stage, arg, rows, tracked, fills, pos, coll, pricer,
                         late>>
  <1> DEFINE b == [at |-> book[o].at, left |-> book[o].left - q, n |-> book[o].n + 1]
  <1>1. book \in [Orders -> [at : Venues \cup {NoVenue}, left : Nat, n : Nat]]
    BY DEF IInv, TypeOK
  <1>2. book' = [book EXCEPT ![o] = b]
    BY DEF VenueFill, LoseFill
  <1>3. book[o].at \in Venues
    BY <1>1, PipelineAssumption DEF VenueFill, LoseFill
  <1>4. UNCHANGED <<order, stage, arg, rows, tracked, fills, pos, coll, pricer, late>>
    BY DEF VenueFill, LoseFill, memory, tables
  <1> QED BY <1>1, <1>2, <1>3, <1>4

\* The channel of the venue gets the fill, or nothing if it is lost; no other
\* channel changes.
LEMMA ExecutionFeed ==
  ASSUME IInv, NEW o \in Orders, NEW q \in 1 .. book[o].left,
         VenueFill(o, q) \/ LoseFill(o, q), NEW v \in Venues
  PROVE  \/ feed'[v] = feed[v]
         \/ /\ book[o].at = v
            /\ Len(feed[v]) \in Nat
            /\ Len(feed'[v]) = Len(feed[v]) + 1
            /\ \A i \in 1 .. Len(feed[v]) : feed'[v][i] = feed[v][i]
            /\ feed'[v][Len(feed[v]) + 1] = [order |-> o, n |-> book[o].n + 1, qty |-> q]
  <1> DEFINE f == [order |-> o, n |-> book[o].n + 1, qty |-> q]
  <1>1. feed \in [Venues -> Seq(Fill)] /\ feed[v] \in Seq(Fill)
    BY DEF IInv, TypeOK
  <1>2. feed' = [feed EXCEPT ![book[o].at] = Append(feed[book[o].at], f)] \/ feed' = feed
    BY DEF VenueFill, LoseFill
  <1>3. book[o].at \in Venues /\ book[o].n \in Nat /\ q \in Nat
    BY ExecutionResult
  <1>4. f \in Fill
    BY <1>3 DEF Fill
  <1> HIDE DEF f
  <1>5. feed'[v] = feed[v] \/ (book[o].at = v /\ feed'[v] = Append(feed[v], f))
    BY <1>1, <1>2, <1>3
  <1>6. /\ Len(Append(feed[v], f)) = Len(feed[v]) + 1
        /\ Len(feed[v]) \in Nat
        /\ \A i \in 1 .. Len(feed[v]) + 1 :
              Append(feed[v], f)[i] = IF i = Len(feed[v]) + 1 THEN f ELSE feed[v][i]
    <2>1. Len(feed[v]) \in Nat
      BY <1>1
    <2> QED BY <1>1, <1>4, <2>1, SendResult
  <1>7. \A i \in 1 .. Len(feed[v]) : i \in 1 .. Len(feed[v]) + 1 /\ i # Len(feed[v]) + 1
    BY <1>6
  <1>8. Len(feed[v]) + 1 \in 1 .. Len(feed[v]) + 1
    BY <1>6
  <1>9. /\ \A i \in 1 .. Len(feed[v]) : Append(feed[v], f)[i] = feed[v][i]
        /\ Append(feed[v], f)[Len(feed[v]) + 1] = f
    BY <1>6, <1>7, <1>8
  <1> QED BY <1>5, <1>6, <1>9 DEF f

\* An execution keeps the invariant: its fill goes behind those of its order
\* that are still in the channel, in the place that the venue had left.
LEMMA ExecutionFills ==
  ASSUME IInv, FillsInv, NEW o \in Orders, NEW q \in 1 .. book[o].left,
         VenueFill(o, q) \/ LoseFill(o, q)
  PROVE  FillsInv'
  <1> DEFINE f == [order |-> o, n |-> book[o].n + 1, qty |-> q]
  <1>0. /\ book[o].at \in Venues
        /\ book[o].left \in Nat /\ book[o].n \in Nat /\ q \in Nat /\ q >= 1 /\ q <= book[o].left
        /\ book'[o].at = book[o].at
        /\ book'[o].left = book[o].left - q
        /\ book'[o].n = book[o].n + 1
        /\ \A p \in Orders : p # o => book'[p] = book[p]
        /\ UNCHANGED <<order, stage, arg, rows, tracked, fills, pos, coll, pricer>>
    BY ExecutionResult
  <1>1. book[o].at # NoVenue
    BY <1>0, VenueAssumption
  <1>2. \A p \in Orders : /\ book'[p].at = book[p].at
                          /\ book[p].left \in Nat /\ book'[p].left \in Nat
                          /\ book'[p].left <= book[p].left
                          /\ book[p].n \in Nat /\ book'[p].n \in Nat
                          /\ book[p].n <= book'[p].n
    <2> SUFFICES ASSUME NEW p \in Orders
                 PROVE  /\ book'[p].at = book[p].at
                        /\ book[p].left \in Nat /\ book'[p].left \in Nat
                        /\ book'[p].left <= book[p].left
                        /\ book[p].n \in Nat /\ book'[p].n \in Nat
                        /\ book[p].n <= book'[p].n
      OBVIOUS
    <2>1. book[p].left \in Nat /\ book[p].n \in Nat
      BY DEF IInv, TypeOK
    <2>2. CASE p = o
      BY <1>0, <2>1, <2>2
    <2>3. CASE p # o
      <3>1. book'[p] = book[p]
        BY <1>0, <2>3
      <3> QED BY <2>1, <3>1
    <2> QED BY <2>2, <2>3
  <1>3. ASSUME NEW p \in Orders PROVE FilledInv(p)'
    <2>1. FilledInv(p)
      BY DEF FillsInv
    <2>2. order[p].filled \in Nat /\ order[p].qty \in Nat
      BY DEF IInv, TypeOK, OrderRecord
    <2>3. book'[p].at = NoVenue => book'[p].n = 0 /\ order'[p].filled = 0
      BY <1>0, <1>1, <2>1 DEF FilledInv
    <2>4. order[p].filled + book[p].left <= order[p].qty
            => order[p].filled + book'[p].left <= order[p].qty
      BY <1>2, <2>2
    <2> QED BY <1>0, <1>2, <2>1, <2>3, <2>4 DEF FilledInv
  <1>4. ASSUME NEW v \in Venues PROVE ReportInv(v)'
    <2>1. ReportInv(v)
      BY DEF FillsInv
    <2>2. ASSUME NEW i \in 1 .. Len(feed'[v])
          PROVE  feed'[v][i].n \in 1 .. book'[feed'[v][i].order].n
      <3>1. ASSUME NEW j \in 1 .. Len(feed[v])
            PROVE  feed[v][j].n \in 1 .. book'[feed[v][j].order].n
        <4>1. feed[v][j].order \in Orders /\ feed[v][j].n \in Nat
          BY FillOrders
        <4>2. feed[v][j].n \in 1 .. book[feed[v][j].order].n
          BY <2>1 DEF ReportInv
        <4> QED BY <1>2, <4>1, <4>2
      <3>2. f.n \in 1 .. book'[f.order].n
        BY <1>0
      <3> HIDE DEF f
      <3>3. CASE feed'[v] = feed[v]
        BY <3>1, <3>3
      <3>4. CASE /\ Len(feed'[v]) = Len(feed[v]) + 1 /\ Len(feed[v]) \in Nat
                 /\ \A j \in 1 .. Len(feed[v]) : feed'[v][j] = feed[v][j]
                 /\ feed'[v][Len(feed[v]) + 1] = f
        <4>1. i \in 1 .. Len(feed[v]) \/ i = Len(feed[v]) + 1
          BY <3>4
        <4> QED BY <3>1, <3>2, <3>4, <4>1
      <3> QED BY <3>3, <3>4, ExecutionFeed DEF f
    <2>3. coll[v].pc # "idle" => coll[v].fill.n \in 1 .. book'[coll[v].fill.order].n
      BY <1>2, <2>1, FillOrders DEF ReportInv, Fill
    <2> QED BY <1>0, <2>1, <2>2, <2>3 DEF ReportInv
  <1>5. ASSUME NEW v \in Venues PROVE PlacedInv(v)'
    <2>1. PICK w \in [1 .. Len(feed[v]) -> Nat] : Placed(v, w)
      BY DEF FillsInv, PlacedInv
    <2>2. ASSUME NEW i \in 1 .. Len(feed[v]), stage[feed[v][i].order] # "gone"
          PROVE  /\ order[feed[v][i].order].filled <= w[i]
                 /\ w[i] + feed[v][i].qty + book'[feed[v][i].order].left
                      <= order[feed[v][i].order].qty
                 /\ w[i] \in Nat
                 /\ feed[v][i].order = o =>
                      w[i] + feed[v][i].qty <= order[o].qty - book[o].left
      <3>0. feed[v][i].order \in Orders /\ feed[v][i].qty \in Nat /\ w[i] \in Nat
        BY FillOrders
      <3>1. /\ feed[v][i].order \in Orders /\ feed[v][i].qty \in Nat /\ w[i] \in Nat
            /\ order[feed[v][i].order].qty \in Nat
        BY <3>0, OrderFields DEF IInv
      <3>2. /\ order[feed[v][i].order].filled <= w[i]
            /\ w[i] + feed[v][i].qty + book[feed[v][i].order].left
                 <= order[feed[v][i].order].qty
        BY <2>1, <2>2 DEF Placed
      <3> DEFINE p == feed[v][i].order
      <3>3. /\ p \in Orders /\ feed[v][i].qty \in Nat /\ w[i] \in Nat /\ order[p].qty \in Nat
            /\ book[p].left \in Nat /\ book'[p].left \in Nat /\ book'[p].left <= book[p].left
        BY <1>2, <3>1
      <3>4. w[i] + feed[v][i].qty + book[p].left <= order[p].qty
        BY <3>2
      <3> HIDE DEF p, f
      <3>5. \A a, b, c, c1, d \in Nat : a + b + c <= d /\ c1 <= c => a + b + c1 <= d
        OBVIOUS
      <3>50. w[i] + feed[v][i].qty + book'[p].left <= order[p].qty
        BY <3>3, <3>4, <3>5
      <3>60. \A a, b, c, d \in Nat : a + b + c <= d => a + b <= d - c
        OBVIOUS
      <3>6. p = o => w[i] + feed[v][i].qty <= order[o].qty - book[o].left
        BY <3>3, <3>4, <3>60
      <3> QED BY <3>1, <3>2, <3>50, <3>6 DEF p
    <2>3. CASE feed'[v] = feed[v]
      <3>1. Placed(v, w)'
        BY <1>0, <2>1, <2>2, <2>3 DEF Placed
      <3> QED BY <2>3, <3>1 DEF PlacedInv
    <2>4. CASE /\ Len(feed'[v]) = Len(feed[v]) + 1 /\ Len(feed[v]) \in Nat
               /\ \A j \in 1 .. Len(feed[v]) : feed'[v][j] = feed[v][j]
               /\ feed'[v][Len(feed[v]) + 1] = f
      <3> DEFINE n == Len(feed[v])
                 x == IF stage[o] = "gone" THEN 0 ELSE order[o].qty - book[o].left
      <3>1. /\ order[o].filled \in Nat /\ order[o].qty \in Nat /\ n \in Nat
            /\ stage[o] # "gone" => order[o].filled + book[o].left <= order[o].qty
        BY <1>1, <2>4 DEF IInv, TypeOK, OrderRecord, FillsInv, FilledInv
      <3>2. /\ x \in Nat
            /\ stage[o] # "gone" => /\ order[o].filled <= x
                                    /\ x + q + book'[o].left <= order[o].qty
                                    /\ x = order[o].qty - book[o].left
        BY <1>0, <3>1
      <3> HIDE DEF x
      <3>3. PICK u \in [1 .. n + 1 -> Nat] : (\A i \in 1 .. n : u[i] = w[i]) /\ u[n + 1] = x
        <4> DEFINE y == [i \in 1 .. n + 1 |-> IF i = n + 1 THEN x ELSE w[i]]
        <4>1. y \in [1 .. n + 1 -> Nat] /\ (\A i \in 1 .. n : y[i] = w[i]) /\ y[n + 1] = x
          BY <3>1, <3>2
        <4> QED BY <4>1
      <3>4. \A i \in 1 .. n + 1 : i \in 1 .. n \/ i = n + 1
        BY <3>1
      <3>5. ASSUME NEW i \in 1 .. n + 1, stage'[feed'[v][i].order] # "gone"
            PROVE  /\ order'[feed'[v][i].order].filled <= u[i]
                   /\ u[i] + feed'[v][i].qty + book'[feed'[v][i].order].left
                        <= order'[feed'[v][i].order].qty
        <4>1. CASE i \in 1 .. n
          BY <1>0, <2>2, <2>4, <3>3, <3>5, <4>1
        <4>2. CASE i = n + 1
          <5>1. feed'[v][i] = f /\ u[i] = x /\ f.order = o /\ f.qty = q
            BY <2>4, <3>3, <4>2
          <5>2. stage[o] # "gone"
            BY <1>0, <3>5, <5>1
          <5> QED BY <1>0, <3>2, <5>1, <5>2
        <4> QED BY <3>4, <4>1, <4>2
      <3>6. ASSUME NEW i \in 1 .. n + 1, NEW j \in 1 .. n + 1, i < j,
                   feed'[v][i].order = feed'[v][j].order, stage'[feed'[v][i].order] # "gone"
            PROVE  u[i] + feed'[v][i].qty <= u[j]
        <4>1. i \in 1 .. n /\ feed'[v][i] = feed[v][i] /\ u[i] = w[i]
          BY <2>4, <3>1, <3>3, <3>6
        <4>2. CASE j \in 1 .. n
          BY <1>0, <2>1, <2>4, <3>3, <3>6, <4>1, <4>2 DEF Placed
        <4>3. CASE j = n + 1
          <5>1. feed[v][i].order = o /\ stage[o] # "gone"
            BY <1>0, <2>4, <3>6, <4>1, <4>3
          <5> QED BY <2>2, <3>2, <3>3, <4>1, <4>3, <5>1
        <4> QED BY <3>4, <4>2, <4>3
      <3>7. Placed(v, u)'
        BY <2>4, <3>5, <3>6 DEF Placed
      <3> QED BY <2>4, <3>3, <3>7 DEF PlacedInv
    <2> QED BY <2>3, <2>4, ExecutionFeed
  <1>6. \A g \in fills' : g.n \in 1 .. book'[g.order].n
    <2>1. \A g \in fills : g \in Fill /\ g.order \in Orders /\ g.n \in 1 .. book[g.order].n
      BY DEF FillsInv, IInv, TypeOK, Fill
    <2> QED BY <1>0, <1>2, <2>1
  <1> QED BY <1>3, <1>4, <1>5, <1>6 DEF FillsInv

-----------------------------------------------------------------------------
\* Steps of a venue's adapter, fill collector and pricer

\* The fills that are left in a channel when the first one is taken out.
LEMMA TailElements ==
  ASSUME IInv, NEW v \in Venues, feed[v] # << >>, feed'[v] = Tail(feed[v])
  PROVE  \A i \in 1 .. Len(feed'[v]) : /\ feed'[v][i] = feed[v][i + 1]
                                       /\ i + 1 \in 1 .. Len(feed[v])
                                       /\ i \in Nat /\ i + 1 > 1
  <1>1. feed[v] \in Seq(Fill)
    BY DEF IInv, TypeOK
  <1>2. Tail(feed[v]) \in Seq(Fill)
    BY <1>1, ReceiveResult
  <1>3. \A i \in 1 .. Len(Tail(feed[v])) : i \in Nat /\ i + 1 > 1
    BY <1>2
  <1>4. \A i \in 1 .. Len(Tail(feed[v])) :
           Tail(feed[v])[i] = feed[v][i + 1] /\ i + 1 \in 1 .. Len(feed[v])
    BY <1>1, ReceiveResult
  <1> QED BY <1>3, <1>4

\* Taking the first fill out of a channel leaves the fills that follow in place.
LEMMA PlacedTail ==
  ASSUME IInv, NEW v \in Venues, NEW w \in [1 .. Len(feed[v]) -> Nat], Placed(v, w),
         feed[v] # << >>, feed'[v] = Tail(feed[v]), UNCHANGED <<stage, book>>,
         \A i \in 1 .. Len(feed[v]) :
            LET p == feed[v][i].order IN
            i > 1 /\ stage[p] # "gone" =>
               order'[p].filled <= w[i] /\ order'[p].qty = order[p].qty
  PROVE  PlacedInv(v)'
  <1>2. \A i \in 1 .. Len(feed'[v]) : /\ feed'[v][i] = feed[v][i + 1]
                                      /\ i + 1 \in 1 .. Len(feed[v])
                                      /\ i \in Nat /\ i + 1 > 1
    BY TailElements
  <1>3. PICK y \in [1 .. Len(feed'[v]) -> Nat] : \A i \in 1 .. Len(feed'[v]) : y[i] = w[i + 1]
    <2> DEFINE n == Len(feed'[v])
               u == [i \in 1 .. n |-> w[i + 1]]
    <2>1. \A i \in 1 .. n : i + 1 \in 1 .. Len(feed[v])
      BY <1>2
    <2> HIDE DEF n
    <2>2. u \in [1 .. n -> Nat] /\ \A i \in 1 .. n : u[i] = w[i + 1]
      BY <2>1
    <2> QED BY <2>2 DEF n
  <1>4. Placed(v, y)'
    <2>1. ASSUME NEW i \in 1 .. Len(feed'[v]), stage'[feed'[v][i].order] # "gone"
          PROVE  /\ order'[feed'[v][i].order].filled <= y[i]
                 /\ y[i] + feed'[v][i].qty + book'[feed'[v][i].order].left
                      <= order'[feed'[v][i].order].qty
      <3>1. /\ i + 1 \in 1 .. Len(feed[v]) /\ feed'[v][i] = feed[v][i + 1] /\ i + 1 > 1
            /\ y[i] = w[i + 1]
        BY <1>2, <1>3
      <3> QED BY <2>1, <3>1 DEF Placed
    <2>2. ASSUME NEW i \in 1 .. Len(feed'[v]), NEW j \in 1 .. Len(feed'[v]), i < j,
                 feed'[v][i].order = feed'[v][j].order, stage'[feed'[v][i].order] # "gone"
          PROVE  y[i] + feed'[v][i].qty <= y[j]
      <3>1. /\ i + 1 \in 1 .. Len(feed[v]) /\ feed'[v][i] = feed[v][i + 1]
            /\ j + 1 \in 1 .. Len(feed[v]) /\ feed'[v][j] = feed[v][j + 1]
            /\ y[i] = w[i + 1] /\ y[j] = w[j + 1]
        BY <1>2, <1>3
      <3>2. i \in Nat /\ j \in Nat
        BY <1>2
      <3>3. i + 1 < j + 1
        BY <2>2, <3>2
      <3> QED BY <2>2, <3>1, <3>3 DEF Placed
    <2> QED BY <2>1, <2>2 DEF Placed
  <1> QED BY <1>3, <1>4 DEF PlacedInv

\* A step that leaves the orders and the channels alone keeps the invariant if it
\* keeps what that says of collectors, pricers and positions.
LEMMA BookkeepingFills ==
  ASSUME IInv, FillsInv, UNCHANGED <<order, stage, book, feed>>,
         tracked' \subseteq tracked,
         \A v \in Venues : ReportInv(v)',
         \A f \in fills' : f.n \in 1 .. book[f.order].n
  PROVE  FillsInv'
  <1>1. ASSUME NEW o \in Orders PROVE FilledInv(o)'
    BY DEF FillsInv, FilledInv
  <1>2. ASSUME NEW v \in Venues PROVE PlacedInv(v)'
    BY DEF FillsInv, PlacedInv, Placed
  <1> QED BY <1>1, <1>2 DEF FillsInv

\* The first fill of a channel, if its order is still in memory, fits its order:
\* it starts where the filled quantity ends, or later.
LEMMA HeadPlaced ==
  ASSUME IInv, FillsInv, NEW v \in Venues, feed[v] # << >>,
         stage[Head(feed[v]).order] # "gone"
  PROVE  LET f == Head(feed[v])
             p == f.order IN
         /\ f \in Fill /\ p \in Orders /\ f.qty \in Nat
         /\ f = feed[v][1] /\ 1 \in 1 .. Len(feed[v])
         /\ book[p].at = v
         /\ order[p] \in OrderRecord
         /\ order[p].filled \in Nat /\ order[p].qty \in Nat
         /\ order[p].filled + f.qty + book[p].left <= order[p].qty
         /\ order[p].filled + f.qty <= order[p].qty
  <1> DEFINE f == Head(feed[v])
             p == f.order
  <1>1. feed[v] \in Seq(Fill) /\ f = feed[v][1] /\ 1 \in 1 .. Len(feed[v]) /\ f \in Fill
    BY ReceiveResult DEF IInv, TypeOK
  <1>2. p \in Orders /\ f.qty \in Nat /\ book[p].at = v
    BY <1>1, FillOrders
  <1>4. PICK w \in [1 .. Len(feed[v]) -> Nat] : Placed(v, w)
    BY DEF FillsInv, PlacedInv
  <1>5. order[p].filled <= w[1] /\ w[1] + f.qty + book[p].left <= order[p].qty
    BY <1>1, <1>4 DEF Placed
  <1>6. /\ order[p] \in OrderRecord /\ order[p].filled \in Nat /\ order[p].qty \in Nat
        /\ book[p].left \in Nat /\ w[1] \in Nat
    BY <1>1, <1>2 DEF IInv, TypeOK, OrderRecord
  <1>7. /\ order[p].filled + f.qty + book[p].left <= order[p].qty
        /\ order[p].filled + f.qty <= order[p].qty
    <2>1. \A a, b, c, d, e \in Nat : a <= b /\ b + c + d <= e => a + c + d <= e /\ a + c <= e
      OBVIOUS
    <2> HIDE DEF f, p
    <2> QED BY <1>2, <1>5, <1>6, <2>1
  <1> QED BY <1>1, <1>2, <1>6, <1>7

\* ApplyFill adds the fill to what is filled.
LEMMA ApplyFillQuantities ==
  ASSUME NEW ord \in OrderRecord, NEW q \in Nat
  PROVE  ApplyFill(ord, q).filled = ord.filled + q /\ ApplyFill(ord, q).qty = ord.qty
  <1> DEFINE s == IF ord.filled + q = ord.qty THEN "Filled" ELSE "PartiallyFilled"
             n == ord.filled + q
  <1>1. ApplyFill(ord, q) = [ord EXCEPT !.filled = n, !.status = s]
    BY DEF ApplyFill
  <1> HIDE DEF s, n
  <1>2. ApplyFill(ord, q).filled = n /\ ApplyFill(ord, q).qty = ord.qty
    BY <1>1 DEF OrderRecord
  <1> QED BY <1>2 DEF n

\* The collector applies a fill: it fits, and the others of the order come after.
LEMMA TakeFillFills ==
  ASSUME IInv, FillsInv, NEW v \in Venues, TakeFill(v)
  PROVE  FillsInv'
  <1> DEFINE f == Head(feed[v])
             o == f.order
             ord == ApplyFill(order[o], f.qty)
  <1>0. /\ order' = [order EXCEPT ![o] = ord]
        /\ feed' = [feed EXCEPT ![v] = Tail(feed[v])]
        /\ coll' = [coll EXCEPT ![v] = [pc |-> "fill", fill |-> f, row |-> {}]]
        /\ UNCHANGED <<tracked, stage, arg, rows, fills, pos, book, pricer>>
        /\ feed[v] # << >> /\ o \in tracked
    BY DEF TakeFill, tables
  <1>1. o \in Orders /\ stage[o] # "gone"
    BY <1>0 DEF IInv, TypeOK, FillsInv, FilledInv
  <1>2. /\ f \in Fill /\ f.qty \in Nat
        /\ f = feed[v][1] /\ 1 \in 1 .. Len(feed[v])
        /\ book[o].at = v
        /\ order[o] \in OrderRecord
        /\ order[o].filled \in Nat /\ order[o].qty \in Nat
        /\ order[o].filled + f.qty + book[o].left <= order[o].qty
    BY <1>0, <1>1, HeadPlaced
  <1>3. ord.filled = order[o].filled + f.qty /\ ord.qty = order[o].qty
    BY <1>2, ApplyFillQuantities
  <1> HIDE DEF ord
  <1>5. /\ order'[o] = ord
        /\ \A p \in Orders : p # o => order'[p] = order[p]
        /\ feed'[v] = Tail(feed[v])
        /\ \A u \in Venues : u # v => feed'[u] = feed[u] /\ coll'[u] = coll[u]
        /\ coll'[v] = [pc |-> "fill", fill |-> f, row |-> {}]
    BY <1>0, <1>1 DEF IInv, TypeOK
  <1> HIDE DEF f, o
  <1>6. ASSUME NEW p \in Orders PROVE FilledInv(p)'
    <2>1. CASE p # o
      BY <1>0, <1>5, <2>1 DEF FillsInv, FilledInv
    <2>2. CASE p = o
      <3>1. ord.filled + book[o].left <= ord.qty
        <4>1. book[o].left \in Nat
          BY <1>1 DEF IInv, TypeOK
        <4> QED BY <1>2, <1>3, <4>1
      <3>2. book[o].at # NoVenue
        BY <1>2, VenueAssumption
      <3> QED BY <1>0, <1>1, <1>5, <2>2, <3>1, <3>2 DEF FilledInv
    <2> QED BY <2>1, <2>2
  <1>7. ASSUME NEW u \in Venues PROVE ReportInv(u)'
    <2>0. ReportInv(u)
      BY DEF FillsInv
    <2>1. CASE u # v
      BY <1>0, <1>5, <2>0, <2>1 DEF ReportInv
    <2>2. CASE u = v
      <3>2. \A i \in 1 .. Len(feed'[v]) :
               feed'[v][i] = feed[v][i + 1] /\ i + 1 \in 1 .. Len(feed[v])
        BY <1>0, <1>5, TailElements
      <3>3. \A i \in 1 .. Len(feed'[v]) : feed'[v][i].n \in 1 .. book'[feed'[v][i].order].n
        BY <1>0, <2>0, <2>2, <3>2 DEF ReportInv
      <3>4. f.n \in 1 .. book[f.order].n
        BY <1>2, <2>0, <2>2 DEF ReportInv
      <3>5. /\ coll'[v].pc = "fill" /\ coll'[v].fill = f /\ coll'[v].row = {}
            /\ book' = book /\ fills' = fills /\ pricer' = pricer /\ pos' = pos
        BY <1>0, <1>5
      <3>6. pricer[v].row \subseteq fills /\ pos[v] \subseteq fills
        BY <2>0, <2>2 DEF ReportInv
      <3> QED BY <2>2, <3>3, <3>4, <3>5, <3>6 DEF ReportInv
    <2> QED BY <2>1, <2>2
  <1>8. ASSUME NEW u \in Venues PROVE PlacedInv(u)'
    <2>1. PICK w \in [1 .. Len(feed[u]) -> Nat] : Placed(u, w)
      BY DEF FillsInv, PlacedInv
    <2>2. CASE u # v
      <3>1. \A i \in 1 .. Len(feed[u]) : feed[u][i].order \in Orders /\ feed[u][i].order # o
        BY <1>2, <2>2, FillOrders
      <3>3. feed'[u] = feed[u] /\ stage' = stage /\ book' = book
        BY <1>0, <1>5, <2>2
      <3>4. \A i \in 1 .. Len(feed[u]) : order'[feed[u][i].order] = order[feed[u][i].order]
        BY <1>5, <3>1
      <3>2. Placed(u, w)'
        BY <2>1, <3>3, <3>4 DEF Placed
      <3> QED BY <1>5, <2>2, <3>2 DEF PlacedInv
    <2>3. CASE u = v
      <3>1. ASSUME NEW i \in 1 .. Len(feed[v]), i > 1, stage[feed[v][i].order] # "gone"
            PROVE  /\ order'[feed[v][i].order].filled <= w[i]
                   /\ order'[feed[v][i].order].qty = order[feed[v][i].order].qty
        <4>1. feed[v][i].order \in Orders
          BY FillOrders
        <4>2. CASE feed[v][i].order # o
          BY <1>5, <2>1, <2>3, <3>1, <4>1, <4>2 DEF Placed
        <4>3. CASE feed[v][i].order = o
          <5>1. feed[v][1].order = o /\ feed[v][1].qty = f.qty
            BY <1>2 DEF o
          <5>2. w[1] + f.qty <= w[i] /\ order[o].filled <= w[1]
            BY <1>1, <1>2, <2>1, <2>3, <3>1, <4>3, <5>1 DEF Placed
          <5>3. w[1] \in Nat /\ w[i] \in Nat
            BY <1>2, <2>3
          <5>4. order'[o].filled <= w[i]
            BY <1>2, <1>3, <1>5, <5>2, <5>3
          <5> QED BY <1>3, <1>5, <4>3, <5>4
        <4> QED BY <4>2, <4>3
      <3> QED BY <1>0, <1>5, <2>1, <2>3, <3>1, PlacedTail
    <2> QED BY <2>2, <2>3
  <1> QED BY <1>0, <1>6, <1>7, <1>8 DEF FillsInv

\* Every other step of a venue's adapter, collector or pricer keeps the invariant.
LEMMA VenueStepFills ==
  ASSUME IInv, FillsInv, NEW v \in Venues, VenueStep(v)
  PROVE  FillsInv'
  <1>0. coll \in [Venues -> [pc : {"idle", "fill", "order", "read", "write"},
                             fill : Fill \cup {NoFill}, row : SUBSET Fill]]
    BY DEF IInv, TypeOK
  <1>00. pos \in [Venues -> SUBSET Fill] /\ pricer \in [Venues -> [busy : BOOLEAN, row : SUBSET Fill]]
    BY DEF IInv, TypeOK
  <1>e. \A u \in Venues : ReportInv(u)
    BY DEF FillsInv
  <1>f. \A f \in fills : f.n \in 1 .. book[f.order].n
    BY DEF FillsInv
  <1>1. CASE Connect(v) \/ Disconnect(v)
    <2>1. UNCHANGED <<order, stage, book, feed, tracked, coll, pricer, pos, fills>>
      BY <1>1 DEF Connect, Disconnect, memory, tables
    <2> QED BY <1>e, <1>f, <2>1, BookkeepingFills DEF ReportInv
  <1>2. CASE ReadForPrice(v)
    <2>1. UNCHANGED <<order, stage, book, feed, tracked, coll, pos, fills>>
      BY <1>2 DEF ReadForPrice, memory, tables
    <2>2. pricer'[v].row = pos[v] /\ \A u \in Venues : u # v => pricer'[u] = pricer[u]
      BY <1>00, <1>2 DEF ReadForPrice
    <2>3. ASSUME NEW u \in Venues PROVE ReportInv(u)'
      BY <1>e, <2>1, <2>2 DEF ReportInv
    <2> QED BY <1>f, <2>1, <2>3, BookkeepingFills
  <1>3. CASE SavePrice(v)
    <2>1. UNCHANGED <<order, stage, book, feed, tracked, coll, fills>>
      BY <1>3 DEF SavePrice, memory
    <2>2. /\ pricer'[v].row = {} /\ pos'[v] \in {pos[v], pricer[v].row}
          /\ \A u \in Venues : u # v => pricer'[u] = pricer[u] /\ pos'[u] = pos[u]
      BY <1>00, <1>3 DEF SavePrice, NotPricing
    <2>3. ASSUME NEW u \in Venues PROVE ReportInv(u)'
      BY <1>e, <2>1, <2>2 DEF ReportInv
    <2> QED BY <1>f, <2>1, <2>3, BookkeepingFills
  <1>4. CASE TakeFill(v)
    BY <1>4, TakeFillFills
  <1>5. CASE DropFill(v)
    <2>1. /\ UNCHANGED <<order, stage, book, tracked, coll, pricer, pos, fills>>
          /\ feed[v] # << >> /\ feed' = [feed EXCEPT ![v] = Tail(feed[v])]
      BY <1>5 DEF DropFill, memory, tables
    <2>2. feed'[v] = Tail(feed[v]) /\ \A u \in Venues : u # v => feed'[u] = feed[u]
      BY <2>1 DEF IInv, TypeOK
    <2>3. ASSUME NEW p \in Orders PROVE FilledInv(p)'
      BY <2>1 DEF FillsInv, FilledInv
    <2>4. ASSUME NEW u \in Venues PROVE ReportInv(u)'
      <3>1. CASE u # v
        BY <1>e, <2>1, <2>2, <3>1 DEF ReportInv
      <3>2. CASE u = v
        <4>1. \A i \in 1 .. Len(feed'[v]) :
                 feed'[v][i] = feed[v][i + 1] /\ i + 1 \in 1 .. Len(feed[v])
          BY <2>1, <2>2, TailElements
        <4>2. \A i \in 1 .. Len(feed'[v]) : feed'[v][i].n \in 1 .. book'[feed'[v][i].order].n
          BY <1>e, <2>1, <4>1 DEF ReportInv
        <4> QED BY <1>e, <2>1, <3>2, <4>2 DEF ReportInv
      <3> QED BY <3>1, <3>2
    <2>5. ASSUME NEW u \in Venues PROVE PlacedInv(u)'
      <3>1. PICK w \in [1 .. Len(feed[u]) -> Nat] : Placed(u, w)
        BY DEF FillsInv, PlacedInv
      <3>2. CASE u # v
        BY <2>1, <2>2, <3>1, <3>2 DEF PlacedInv, Placed
      <3>3. CASE u = v
        <4>1. \A i \in 1 .. Len(feed[v]) :
                 stage[feed[v][i].order] # "gone" =>
                    /\ order'[feed[v][i].order].filled <= w[i]
                    /\ order'[feed[v][i].order].qty = order[feed[v][i].order].qty
          BY <2>1, <3>1, <3>3 DEF Placed
        <4> QED BY <2>1, <2>2, <3>1, <3>3, <4>1, PlacedTail
      <3> QED BY <3>2, <3>3
    <2> QED BY <1>f, <2>1, <2>3, <2>4, <2>5 DEF FillsInv
  <1> DEFINE c == coll[v]
  <1>6. CASE SaveFill(v)
    <2>1. /\ UNCHANGED <<order, stage, book, feed, tracked, pricer, pos>>
          /\ c.pc = "fill"
          /\ \/ coll' = [coll EXCEPT ![v].pc = "order"] /\ fills' = fills \cup {c.fill}
             \/ coll' = [coll EXCEPT ![v] = Idle] /\ fills' = fills
      BY <1>6 DEF SaveFill, memory
    <2>2. c.fill.n \in 1 .. book[c.fill.order].n
      BY <1>e, <2>1 DEF ReportInv
    <2>3. \A u \in Venues : u # v => coll'[u] = coll[u]
      BY <1>0, <2>1
    <2>4. \/ coll'[v].pc = "order" /\ coll'[v].fill = c.fill /\ coll'[v].row = c.row
             /\ c.fill \in fills'
          \/ coll'[v] = Idle
      BY <1>0, <2>1
    <2>5. ASSUME NEW u \in Venues PROVE ReportInv(u)'
      <3>1. CASE u # v
        BY <1>e, <2>1, <2>3, <3>1 DEF ReportInv
      <3>2. CASE u = v
        BY <1>e, <2>1, <2>4, <3>2 DEF ReportInv, Idle
      <3> QED BY <3>1, <3>2
    <2>6. \A f \in fills' : f.n \in 1 .. book[f.order].n
      BY <1>f, <2>1, <2>2
    <2> QED BY <2>1, <2>5, <2>6, BookkeepingFills
  <1>7. CASE SaveOrder(v)
    <2>1. /\ UNCHANGED <<order, stage, book, feed, tracked, pricer, pos, fills>>
          /\ c.pc = "order"
          /\ \A u \in Venues : u # v => coll'[u] = coll[u]
          /\ \/ coll'[v].pc = "read" /\ coll'[v].fill = c.fill /\ coll'[v].row = c.row
             \/ coll'[v] = Idle
      BY <1>0, <1>7 DEF SaveOrder, memory
    <2>2. ASSUME NEW u \in Venues PROVE ReportInv(u)'
      BY <1>e, <2>1 DEF ReportInv, Idle
    <2> QED BY <1>f, <2>1, <2>2, BookkeepingFills
  <1>8. CASE ReadPosition(v)
    <2>0. c.pc = "read"
      BY <1>8 DEF ReadPosition
    <2>1. PICK o \in Orders : o = c.fill.order
      BY <2>0, FillOrders
    <2>2. order[o].venue = v
      BY <2>0, <2>1, FillOrders, VenueAssumption DEF IInv, PipelineInv, OrderInv
    <2>3. UNCHANGED <<order, stage, book, feed, tracked, pricer, pos, fills>>
      BY <1>8 DEF ReadPosition, memory, tables
    <2>4. PICK row \in {pos[v], {}} :
             coll' = [coll EXCEPT ![v] = [pc |-> "write", fill |-> c.fill, row |-> row]]
      BY <1>8, <2>1, <2>2 DEF ReadPosition
    <2>5. /\ \A u \in Venues : u # v => coll'[u] = coll[u]
          /\ coll'[v].pc = "write" /\ coll'[v].fill = c.fill /\ coll'[v].row = row
      BY <1>0, <2>4
    <2>6. ASSUME NEW u \in Venues PROVE ReportInv(u)'
      <3>1. CASE u # v
        BY <1>e, <2>3, <2>5, <3>1 DEF ReportInv
      <3>2. CASE u = v
        BY <1>e, <2>0, <2>3, <2>5, <3>2 DEF ReportInv
      <3> QED BY <3>1, <3>2
    <2> QED BY <1>f, <2>3, <2>6, BookkeepingFills
  <1>9. CASE SavePosition(v)
    <2>0. c.pc = "write"
      BY <1>9 DEF SavePosition
    <2>1. PICK o \in Orders : o = c.fill.order
      BY <2>0, FillOrders
    <2>3. /\ UNCHANGED <<order, stage, book, feed, pricer, fills>>
          /\ tracked' \subseteq tracked
          /\ coll' = [coll EXCEPT ![v] = Idle]
          /\ pos' = [pos EXCEPT ![order[o].venue] = NewRow(v)] \/ pos' = pos
      BY <1>9, <2>1 DEF SavePosition, Forget
    <2>4. NewRow(v) \subseteq fills
      BY <1>e, <2>0 DEF NewRow, ReportInv
    <2>5. \A u \in Venues : pos'[u] \subseteq fills
      BY <1>e, <1>00, <2>3, <2>4 DEF ReportInv
    <2>6. \A u \in Venues : coll'[u] \in {coll[u], Idle}
      BY <1>0, <2>3
    <2>7. ASSUME NEW u \in Venues PROVE ReportInv(u)'
      BY <1>e, <2>3, <2>5, <2>6 DEF ReportInv, Idle
    <2> QED BY <1>f, <2>3, <2>7, BookkeepingFills
  <1> QED BY <1>1, <1>2, <1>3, <1>4, <1>5, <1>6, <1>7, <1>8, <1>9 DEF VenueStep

\* A restart keeps the invariant: nothing is in memory or in a channel.
LEMMA RestartFills ==
  ASSUME IInv, FillsInv, Restart
  PROVE  FillsInv'
  <1>1. \A o \in Orders : book'[o].at = book[o].at /\ book'[o].n = book[o].n
    BY DEF Restart, IInv, TypeOK
  <1>2. UNCHANGED <<rows, fills, pos>>
    BY DEF Restart, tables
  <1>3. ASSUME NEW o \in Orders PROVE FilledInv(o)'
    <2>1. order'[o] = NoOrder /\ o \notin tracked'
      BY DEF Restart
    <2>2. stage'[o] \in {"none", "gone"} /\ (stage'[o] = "none" => stage[o] = "none")
      BY DEF Restart
    <2>3. FilledInv(o) /\ OrderInv(o)
      BY DEF FillsInv, IInv, PipelineInv
    <2>4. stage'[o] = "none" => book'[o].at = NoVenue
      BY <1>1, <2>2, <2>3 DEF OrderInv, Sent
    <2> QED BY <1>1, <2>1, <2>2, <2>3, <2>4 DEF FilledInv, NoOrder
  <1>4. ASSUME NEW v \in Venues PROVE ReportInv(v)' /\ PlacedInv(v)'
    <2>1. feed'[v] = << >> /\ coll'[v] = Idle /\ pricer'[v] = NotPricing
      BY DEF Restart
    <2>2. pos'[v] \subseteq fills'
      BY <1>2 DEF FillsInv, ReportInv
    <2>3. ReportInv(v)'
      BY <2>1, <2>2 DEF ReportInv, Idle, NotPricing
    <2>4. Len(feed'[v]) = 0 /\ \A i \in 1 .. Len(feed'[v]) : FALSE
      BY <2>1
    <2>5. PICK w \in [1 .. Len(feed'[v]) -> Nat] : TRUE
      <3>1. [i \in 1 .. Len(feed'[v]) |-> 0] \in [1 .. Len(feed'[v]) -> Nat]
        OBVIOUS
      <3> QED BY <3>1
    <2>6. Placed(v, w)'
      BY <2>4 DEF Placed
    <2> QED BY <2>3, <2>5, <2>6 DEF PlacedInv
  <1>5. \A f \in fills' : f.n \in 1 .. book'[f.order].n
    BY <1>1, <1>2 DEF FillsInv, IInv, TypeOK, Fill
  <1> QED BY <1>3, <1>4, <1>5 DEF FillsInv

\* The invariant holds initially.
LEMMA InitFills == Init => FillsInv
  <1> SUFFICES ASSUME Init PROVE FillsInv
    OBVIOUS
  <1>1. ASSUME NEW o \in Orders PROVE FilledInv(o)
    BY DEF Init, FilledInv, NoOrder, Unknown
  <1>2. ASSUME NEW v \in Venues PROVE ReportInv(v) /\ PlacedInv(v)
    <2>1. feed[v] = << >> /\ coll[v] = Idle /\ pricer[v] = NotPricing /\ pos[v] = {}
      BY DEF Init
    <2>2. ReportInv(v)
      BY <2>1 DEF ReportInv, Idle, NotPricing
    <2>3. Len(feed[v]) = 0 /\ \A i \in 1 .. Len(feed[v]) : FALSE
      BY <2>1
    <2>4. [i \in 1 .. Len(feed[v]) |-> 0] \in [1 .. Len(feed[v]) -> Nat]
      OBVIOUS
    <2> QED BY <2>2, <2>3, <2>4 DEF PlacedInv, Placed
  <1> QED BY <1>1, <1>2 DEF FillsInv, Init

\* The invariant is inductive, together with that of the pipeline.
LEMMA NextFills ==
  ASSUME IInv, FillsInv, [Next]_vars
  PROVE  FillsInv'
  <1>1. ASSUME NEW o \in Orders, OrderStep(o) PROVE FillsInv'
    <2>1. CASE \E q \in 1 .. book[o].left : VenueFill(o, q) \/ LoseFill(o, q)
      BY <2>1, ExecutionFills
    <2>2. CASE ~ \E q \in 1 .. book[o].left : VenueFill(o, q) \/ LoseFill(o, q)
      BY <1>1, <2>2, OrderStepFills
    <2> QED BY <2>1, <2>2
  <1>2. ASSUME NEW v \in Venues, VenueStep(v) PROVE FillsInv'
    BY <1>2, VenueStepFills
  <1>3. ASSUME Restart PROVE FillsInv'
    BY <1>3, RestartFills
  <1>4. ASSUME UNCHANGED vars PROVE FillsInv'
    <2>1. UNCHANGED <<order, tracked, stage, fills, pos, book, feed, coll, pricer>>
      BY <1>4 DEF vars
    <2>2. \A v \in Venues : ReportInv(v)'
      BY <2>1 DEF FillsInv, ReportInv
    <2>3. \A f \in fills' : f.n \in 1 .. book[f.order].n
      BY <2>1 DEF FillsInv
    <2> QED BY <2>1, <2>2, <2>3, BookkeepingFills
  <1> QED BY <1>1, <1>2, <1>3, <1>4 DEF Next

\* The inductive invariant of the executions holds of every behaviour.
THEOREM FillsInvariance == Spec => []FillsInv
  <1>1. IInv /\ FillsInv /\ [Next]_vars => FillsInv'
    BY NextFills
  <1> QED BY <1>1, InitFills, Invariance, PTL DEF Spec

\* Nothing is booked that no venue executed, whatever calls fail, SubmitOrder
\* among them: a position counts fills of the fills table only, each an execution
\* of its venue, and what a venue has left to execute fits in what the order in
\* memory still lacks.
THEOREM NothingInvented == Spec => []NoPhantomFills
  <1>1. IInv /\ FillsInv => NoPhantomFills
    <2> SUFFICES ASSUME IInv, FillsInv PROVE NoPhantomFills
      OBVIOUS
    <2>1. \A v \in Venues : pos[v] \subseteq fills
      BY DEF FillsInv, ReportInv
    <2>2. \A o \in tracked : book[o].at # NoVenue =>
             order[o].filled + book[o].left <= order[o].qty
      BY DEF FillsInv, FilledInv, IInv, TypeOK
    <2> QED BY <2>1, <2>2 DEF FillsInv, NoPhantomFills
  <1> QED BY <1>1, FillsInvariance, Invariance, PTL

-----------------------------------------------------------------------------
(***************************************************************************)
(* Rejections.  The dispatcher may reject an order that its venue has and  *)
(* executes; the status machine lets either the rejection or the fill      *)
(* through, never both.                                                    *)
(***************************************************************************)

\* An execution of the order is in the books, or on its way there.
Booked(o) ==
  \/ \E f \in fills : f.order = o
  \/ \E v \in Venues : coll[v].pc # "idle" /\ coll[v].fill.order = o

\* The gateway calls the order rejected, or is about to.
Doomed(o) ==
  \/ order[o].status = "Rejected"
  \/ rows[o].status = "Rejected"
  \/ ~NoRejection(topic[o])
  \/ stage[o] = "rejSave" /\ arg[o].status = "Rejected"

\* The stages from which an order may still come to a venue.
Open == {"none", "submitted", "intake", "checking", "riskOut", "routed",
         "cleared", "queued", "acked", "calling"}

\* No order comes to a venue after it was rejected.  Of an order at a venue, the
\* object in memory decides: it is Rejected if anything calls it rejected, and
\* shows a fill if anything of it is booked; a restart keeps the decision.
RejectInv(o) ==
  /\ stage[o] \in Open /\ book[o].at = NoVenue => ~Doomed(o)
  /\ book[o].at # NoVenue /\ stage[o] # "gone" =>
       /\ Doomed(o) => order[o].status = "Rejected"
       /\ Booked(o) => order[o].status \in {"PartiallyFilled", "Filled"}
  /\ book[o].at # NoVenue /\ stage[o] = "gone" => ~Doomed(o) \/ ~Booked(o)

RejectionInv == \A o \in Orders : RejectInv(o)

\* A step of one order that books nothing keeps the invariant if it keeps the
\* part of that order.
LEMMA OneOrderRejects ==
  ASSUME RejectionInv, NEW o \in Orders, OnlyOrder(o), UNCHANGED <<fills, coll>>,
         \A p \in Orders : p # o => topic'[p] = topic[p],
         RejectInv(o)'
  PROVE  RejectionInv'
  <1> SUFFICES ASSUME NEW p \in Orders, p # o PROVE RejectInv(p)'
    BY DEF RejectionInv
  <1>1. RejectInv(p)
    BY DEF RejectionInv
  <1>2. Booked(p)' <=> Booked(p)
    BY DEF Booked
  <1>3. /\ order'[p] = order[p] /\ rows'[p] = rows[p] /\ topic'[p] = topic[p]
        /\ stage'[p] = stage[p] /\ arg'[p] = arg[p] /\ book'[p] = book[p]
    BY DEF OnlyOrder
  <1>4. Doomed(p)' <=> Doomed(p)
    BY <1>3 DEF Doomed, NoRejection
  <1> QED BY <1>1, <1>2, <1>3, <1>4 DEF RejectInv

\* An order no venue has is not booked.
LEMMA UnknownUnbooked ==
  ASSUME IInv, FillsInv, NEW o \in Orders, book[o].at = NoVenue
  PROVE  ~Booked(o)
  <1>1. \A f \in fills : f.order # o
    <2> SUFFICES ASSUME NEW f \in fills, f.order = o PROVE FALSE
      OBVIOUS
    <2>1. f.n \in 1 .. book[o].n
      BY DEF FillsInv
    <2>2. book[o].n = 0
      BY DEF FillsInv, FilledInv
    <2> QED BY <2>1, <2>2
  <1>2. \A v \in Venues : coll[v].pc # "idle" => coll[v].fill.order # o
    BY FillOrders, VenueAssumption
  <1> QED BY <1>1, <1>2 DEF Booked

\* Every step of an order keeps the invariant: the dispatcher rejects an order
\* only if no fill was applied to it, and notifies and writes what it then reads.
LEMMA OrderStepRejects ==
  ASSUME IInv, FillsInv, RejectionInv, NEW o \in Orders, OrderStep(o)
  PROVE  RejectionInv'
  <1>0. TypeOK /\ OrderInv(o) /\ RejectInv(o)
    BY DEF IInv, PipelineInv, RejectionInv
  <1>00. order[o] \in OrderRecord /\ order[o].status \in Statuses \cup {"None"}
    BY <1>0, OrderFields
  <1> DEFINE G == /\ OnlyOrder(o) /\ RejectInv(o)' /\ UNCHANGED <<fills, coll>>
                  /\ \A p \in Orders : p # o => topic'[p] = topic[p]
  <1> SUFFICES G
    BY OneOrderRejects
  <1>b. ASSUME UNCHANGED <<fills, coll>> PROVE Booked(o)' <=> Booked(o)
    BY <1>b DEF Booked
  <1> USE DEF TypeOK
  \* A step that only moves the order to the next stage.
  <1>s. ASSUME NEW s \in Stages, MoveTo(o, s), stage[o] # "gone",
               s \notin {"gone", "rejSave"}, s \in Open => stage[o] \in Open,
               UNCHANGED <<order, arg, rows, topic, book, fills, coll, late>>
        PROVE  G
    <2>1. stage'[o] = s /\ OnlyOrder(o)
      BY <1>0, <1>s DEF MoveTo, OnlyOrder
    <2>2. Doomed(o)' => Doomed(o)
      BY <1>s, <2>1 DEF Doomed, NoRejection
    <2> QED BY <1>0, <1>b, <1>s, <2>1, <2>2 DEF RejectInv
  \* A step that takes the order off the way to the venues.
  <1>t. ASSUME book'[o].at = NoVenue, stage'[o] \notin Open
        PROVE  RejectInv(o)'
    BY <1>t DEF RejectInv
  <1>1. ASSUME NEW q \in Quantities, NEW v \in Venues \cup {NoVenue}, Submit(o, q, v)
        PROVE  G
    <2>1. /\ order'[o] = NewOrder(q, v) /\ rows'[o] = NewOrder(q, v)
          /\ stage'[o] = "submitted" /\ OnlyOrder(o)
          /\ UNCHANGED <<topic, book, fills, coll>> /\ stage[o] = "none"
      BY <1>0, <1>1 DEF Submit, MoveTo, OnlyOrder
    <2>2. book[o].at = NoVenue /\ ~Doomed(o)
      BY <1>0, <2>1 DEF OrderInv, Sent, RejectInv, Open
    <2>3. ~Doomed(o)'
      BY <2>1, <2>2 DEF Doomed, NoRejection, NewOrder
    <2> QED BY <2>1, <2>2, <2>3 DEF RejectInv
  <1>2. ASSUME NEW q \in Quantities, NEW v \in Venues \cup {NoVenue}, SubmitRefused(o, q, v)
        PROVE  G
    BY <1>2, <1>s DEF SubmitRefused, Stages, Open, tables
  <1>3. CASE Enqueue(o)
    BY <1>3, <1>s DEF Enqueue, Stages, Open, tables
  <1>4. CASE Abandon(o)
    BY <1>4, <1>s DEF Abandon, Stages, Open, tables
  <1>5. CASE Cancel(o)
    <2>1. /\ UNCHANGED <<order, stage, arg, rows, topic, book, fills, coll, late>>
      BY <1>5 DEF Cancel, memory, tables
    <2>2. Doomed(o)' <=> Doomed(o)
      BY <2>1 DEF Doomed, NoRejection
    <2> QED BY <1>0, <1>b, <2>1, <2>2 DEF OnlyOrder, RejectInv
  <1>6. CASE TakeForRisk(o)
    BY <1>6, <1>s DEF TakeForRisk, Stages, Open, tables
  <1>7. CASE RiskPass(o)
    BY <1>7, <1>s DEF RiskPass, Stages, Open, tables
  \* A rejection before the order reaches a dispatcher.
  <1>r. ASSUME stage[o] \in {"checking", "routed"}, Reject(o),
               UNCHANGED <<arg, fills, book, coll, late>>
        PROVE  G
    <2>1. /\ stage'[o] = "done" /\ OnlyOrder(o)
          /\ Notify(o, Transition(order[o], "Rejected").status)
      BY <1>0, <1>r DEF Reject, MoveTo, OnlyOrder
    <2>2. Transition(order[o], "Rejected").status \in Statuses \cup {"None"}
      BY <1>00, TransitionResult DEF Statuses
    <2>3. \A p \in Orders : p # o => topic'[p] = topic[p]
      BY <1>0, <2>1, <2>2, NotifyResult
    <2>4. book[o].at = NoVenue
      BY <1>0, <1>r DEF OrderInv, Sent
    <2> QED BY <1>r, <1>t, <2>1, <2>3, <2>4 DEF Open
  <1>8. CASE RiskReject(o)
    BY <1>8, <1>r DEF RiskReject
  <1>9. CASE Route(o)
    <2>1. /\ order' = [order EXCEPT ![o] = [order[o] EXCEPT !.venue = Target(o)]]
          /\ stage[o] = "riskOut"
      BY <1>9 DEF Route
    <2>2. order'[o].status = order[o].status
      BY <1>00, <2>1 DEF OrderRecord
    <2>3. /\ OnlyOrder(o) /\ stage'[o] \in {"routed", "stuck"}
          /\ rows'[o] \in {order'[o], rows[o]}
          /\ UNCHANGED <<topic, book, fills, coll>>
      BY <1>0, <1>9, <2>1 DEF Route, MoveTo, OnlyOrder
    <2>4. book[o].at = NoVenue /\ ~Doomed(o)
      BY <1>0, <2>1 DEF OrderInv, Sent, RejectInv, Open
    <2>5. ~Doomed(o)'
      BY <2>2, <2>3, <2>4 DEF Doomed, NoRejection
    <2> QED BY <2>3, <2>4, <2>5 DEF RejectInv
  <1>10. CASE RejectDisconnected(o)
    BY <1>10, <1>r DEF RejectDisconnected
  <1>11. CASE PassVenueCheck(o)
    BY <1>11, <1>s DEF PassVenueCheck, Stages, Open, tables
  <1>12. CASE Dispatch(o)
    BY <1>12, <1>s DEF Dispatch, Stages, Open, tables
  <1>13. CASE Acknowledge(o)
    <2>1. /\ order'[o] = Transition(order[o], "Acknowledged") /\ OnlyOrder(o)
          /\ stage[o] = "queued" /\ stage'[o] \in {"acked", "stuck"}
          /\ UNCHANGED <<rows, topic, book, fills, coll>>
      BY <1>0, <1>13 DEF Acknowledge, MoveTo, OnlyOrder, tables
    <2>2. book[o].at = NoVenue /\ ~Doomed(o)
      BY <1>0, <2>1 DEF OrderInv, Sent, RejectInv, Open
    <2>3. order'[o].status # "Rejected"
      BY <1>00, <2>1, <2>2, TransitionResult DEF Doomed, Statuses
    <2>4. ~Doomed(o)'
      BY <2>1, <2>2, <2>3 DEF Doomed, NoRejection
    <2> QED BY <2>1, <2>2, <2>4 DEF RejectInv
  <1>14. CASE SaveAck(o)
    <2>1. /\ OnlyOrder(o) /\ stage[o] = "acked" /\ stage'[o] \in {"calling", "stuck"}
          /\ rows'[o] \in {order[o], rows[o]}
          /\ UNCHANGED <<order, book, fills, coll>>
      BY <1>0, <1>14 DEF SaveAck, MoveTo, OnlyOrder
    <2>2. book[o].at = NoVenue /\ ~Doomed(o) /\ order[o].status = "Acknowledged"
      BY <1>0, <2>1 DEF OrderInv, Sent, RejectInv, Open
    <2>3. NoRejection(topic'[o]) /\ \A p \in Orders : p # o => topic'[p] = topic[p]
      <3>1. CASE Notify(o, order[o].status)
        BY <1>0, <1>00, <2>2, <3>1, NotifyResult DEF Doomed
      <3>2. CASE topic' = topic
        BY <2>2, <3>2 DEF Doomed
      <3> QED BY <1>14, <3>1, <3>2 DEF SaveAck
    <2>4. ~Doomed(o)'
      BY <2>1, <2>2, <2>3 DEF Doomed
    <2> QED BY <2>1, <2>2, <2>3, <2>4 DEF RejectInv
  <1>15. CASE SubmitOk(o)
    BY <1>15, <1>s DEF SubmitOk, Stages, Open, tables
  <1>16. CASE SubmitError(o)
    <2>1. /\ order'[o] = Transition(order[o], "Rejected") /\ OnlyOrder(o)
          /\ stage[o] = "calling" /\ stage'[o] = "rejArgs"
          /\ UNCHANGED <<rows, topic, book, fills, coll>>
      BY <1>0, <1>16 DEF SubmitError, MoveTo, OnlyOrder, tables
    <2>2. CASE book[o].at = NoVenue
      BY <1>t, <2>1, <2>2 DEF Open
    <2>3. CASE book[o].at # NoVenue
      <3>1. Doomed(o) => order[o].status = "Rejected"
        BY <1>0, <2>1, <2>3 DEF RejectInv
      <3>2. Doomed(o)' => Doomed(o) \/ order'[o].status = "Rejected"
        BY <2>1 DEF Doomed, NoRejection
      <3>3. order[o].status = "Rejected" => order'[o].status = "Rejected"
        BY <1>00, <2>1, TransitionResult DEF Statuses
      <3>4. order[o].status \in {"PartiallyFilled", "Filled"} => order'[o] = order[o]
        BY <2>1 DEF Transition, CanTransition, ValidTransitions, Statuses
      <3>5. Booked(o)' => order'[o].status \in {"PartiallyFilled", "Filled"}
        BY <1>0, <1>b, <2>1, <2>3, <3>4 DEF RejectInv
      <3> QED BY <2>1, <2>3, <3>1, <3>2, <3>3, <3>5 DEF RejectInv
    <2> QED BY <2>1, <2>2, <2>3
  <1>17. CASE ReadStatusArg(o)
    <2>1. /\ OnlyOrder(o) /\ stage[o] = "rejArgs" /\ stage'[o] = "rejSave"
          /\ arg'[o].status = order[o].status
          /\ UNCHANGED <<order, rows, topic, book, fills, coll>>
      BY <1>0, <1>17 DEF ReadStatusArg, MoveTo, OnlyOrder, tables
    <2>2. Doomed(o)' => Doomed(o) \/ order[o].status = "Rejected"
      BY <2>1 DEF Doomed, NoRejection
    <2> QED BY <1>0, <1>b, <2>1, <2>2 DEF RejectInv, Open
  <1>18. CASE SaveRejected(o)
    <2>1. /\ OnlyOrder(o) /\ stage[o] = "rejSave" /\ stage'[o] = "done"
          /\ Notify(o, order[o].status)
          /\ rows'[o].status \in {arg[o].status, rows[o].status}
          /\ UNCHANGED <<order, book, fills, coll>>
      <3>1. rows[o] \in OrderRecord
        BY <1>0
      <3>2. \/ rows' = [rows EXCEPT ![o] = [rows[o] EXCEPT !.status = arg[o].status,
                                                          !.filled = arg[o].filled]]
            \/ rows' = rows
        BY <1>18 DEF SaveRejected
      <3>3. [rows[o] EXCEPT !.status = arg[o].status, !.filled = arg[o].filled].status
              = arg[o].status
        BY <3>1 DEF OrderRecord
      <3>4. rows'[o].status \in {arg[o].status, rows[o].status}
        BY <1>0, <3>2, <3>3
      <3> QED BY <1>0, <1>18, <3>4 DEF SaveRejected, MoveTo, OnlyOrder
    <2>2. /\ \A p \in Orders : p # o => topic'[p] = topic[p]
          /\ order[o].status # "Rejected" /\ NoRejection(topic[o]) => NoRejection(topic'[o])
      BY <1>0, <1>00, <2>1, NotifyResult
    <2>3. Doomed(o)' => Doomed(o) \/ order[o].status = "Rejected"
      BY <2>1, <2>2 DEF Doomed
    <2> QED BY <1>0, <1>b, <2>1, <2>2, <2>3 DEF RejectInv, Open
  <1>19. CASE VenueAccept(o)
    <2>1. /\ OnlyOrder(o) /\ stage[o] = "calling" /\ book[o].at = NoVenue
          /\ UNCHANGED <<order, stage, arg, rows, topic, fills, coll>>
      BY <1>0, <1>19 DEF VenueAccept, memory, tables, OnlyOrder
    <2>2. ~Doomed(o) /\ ~Booked(o)
      BY <1>0, <2>1, UnknownUnbooked DEF RejectInv, Open
    <2>3. ~Doomed(o)' /\ ~Booked(o)'
      BY <1>b, <2>1, <2>2 DEF Doomed, NoRejection
    <2> QED BY <2>1, <2>3 DEF RejectInv
  <1>20. ASSUME NEW q \in 1 .. book[o].left, VenueFill(o, q) \/ LoseFill(o, q)
         PROVE  G
    <2>1. /\ OnlyOrder(o) /\ book'[o].at = book[o].at
          /\ UNCHANGED <<order, stage, arg, rows, topic, fills, coll>>
      BY <1>0, <1>20 DEF VenueFill, LoseFill, memory, tables, OnlyOrder
    <2>2. Doomed(o)' <=> Doomed(o)
      BY <2>1 DEF Doomed, NoRejection
    <2> QED BY <1>0, <1>b, <2>1, <2>2 DEF RejectInv
  <1> QED BY <1>1, <1>2, <1>3, <1>4, <1>5, <1>6, <1>7, <1>8, <1>9, <1>10,
             <1>11, <1>12, <1>13, <1>14, <1>15, <1>16, <1>17, <1>18, <1>19, <1>20
       DEF OrderStep

\* Every step of a venue's adapter, fill collector or pricer keeps it too: the
\* collector books only fills that the order in memory took.
LEMMA VenueStepRejects ==
  ASSUME IInv, FillsInv, RejectionInv, NEW v \in Venues, VenueStep(v)
  PROVE  RejectionInv'
  <1>0. TypeOK /\ FillInv(v) /\ (\A p \in Orders : OrderInv(p) /\ RejectInv(p))
    BY DEF IInv, PipelineInv, RejectionInv
  \* A step that books nothing new and says nothing new of any order.
  <1>1. ASSUME UNCHANGED <<order, stage, arg, rows, book>>,
               \A p \in Orders : NoRejection(topic[p]) => NoRejection(topic'[p]),
               \A p \in Orders : Booked(p)' => Booked(p)
        PROVE  RejectionInv'
    <2> SUFFICES ASSUME NEW p \in Orders PROVE RejectInv(p)'
      BY DEF RejectionInv
    <2>1. Doomed(p)' => Doomed(p)
      BY <1>1 DEF Doomed
    <2> QED BY <1>0, <1>1, <2>1 DEF RejectInv
  <1>2. ASSUME fills' = fills, \A w \in Venues \ {v} : coll'[w] = coll[w],
               coll'[v].pc # "idle" =>
                 coll'[v].fill = coll[v].fill /\ coll[v].pc # "idle"
        PROVE  \A p \in Orders : Booked(p)' => Booked(p)
    BY <1>2 DEF Booked
  <1>3. CASE Connect(v) \/ Disconnect(v) \/ DropFill(v) \/ ReadForPrice(v) \/ SavePrice(v)
    <2>1. UNCHANGED <<order, stage, arg, rows, book, topic, fills, coll>>
      BY <1>3 DEF Connect, Disconnect, DropFill, ReadForPrice, SavePrice, memory, tables
    <2> QED BY <1>1, <1>2, <2>1
  <1>4. CASE ReadPosition(v)
    <2>1. UNCHANGED <<order, stage, arg, rows, book, topic, fills>>
      BY <1>4 DEF ReadPosition, memory, tables
    <2>2. /\ \A w \in Venues \ {v} : coll'[w] = coll[w]
          /\ coll'[v].fill = coll[v].fill /\ coll[v].pc # "idle"
      BY <1>0, <1>4 DEF ReadPosition
    <2> QED BY <1>1, <1>2, <2>1, <2>2
  <1>5. CASE SaveFill(v)
    <2>1. UNCHANGED <<order, stage, arg, rows, book, topic>>
      BY <1>5 DEF SaveFill, memory
    <2>2. /\ fills' \subseteq fills \cup {coll[v].fill} /\ coll[v].pc # "idle"
          /\ \A w \in Venues \ {v} : coll'[w] = coll[w]
          /\ coll'[v].pc # "idle" => coll'[v].fill = coll[v].fill
      BY <1>0, <1>5 DEF SaveFill, Idle, TypeOK
    <2>3. \A p \in Orders : Booked(p)' => Booked(p)
      BY <2>2 DEF Booked
    <2> QED BY <1>1, <2>1, <2>3
  <1>6. CASE TakeFill(v)
    <2> DEFINE f == Head(feed[v])
    <2>1. f = feed[v][1] /\ 1 \in 1 .. Len(feed[v])
      BY <1>0, <1>6 DEF TakeFill, TypeOK
    <2>2. f \in Fill /\ f.order \in Orders /\ f.qty \in Nat /\ book[f.order].at = v
      BY <2>1, FillOrders, FeedElements DEF IInv
    <2>3. /\ order' = [order EXCEPT ![f.order] = ApplyFill(order[f.order], f.qty)]
          /\ coll' = [coll EXCEPT ![v] = [pc |-> "fill", fill |-> f, row |-> {}]]
          /\ CanFill(order[f.order], f.qty)
          /\ UNCHANGED <<stage, arg, rows, book, topic, fills>>
      BY <1>6 DEF TakeFill, tables
    <2>4. /\ order[f.order] # NoOrder
          /\ order[f.order].status \in {"Acknowledged", "PartiallyFilled"}
      BY <2>3, FillableOrder DEF CanFill
    <2>5. stage[f.order] # "gone"
      BY <1>0, <2>2, <2>4 DEF OrderInv
    <2>6. coll'[v].fill = f /\ \A w \in Venues \ {v} : coll'[w] = coll[w]
      BY <1>0, <2>3 DEF TypeOK
    <2> HIDE DEF f
    <2>7. \A p \in Orders \ {f.order} : Booked(p)' => Booked(p)
      BY <2>3, <2>6 DEF Booked
    <2>8. ASSUME NEW p \in Orders PROVE RejectInv(p)'
      <3>1. CASE p # f.order
        <4>1. order'[p] = order[p]
          BY <1>0, <2>2, <2>3, <3>1 DEF TypeOK
        <4>2. Doomed(p)' => Doomed(p)
          BY <2>3, <4>1 DEF Doomed, NoRejection
        <4> QED BY <1>0, <2>3, <2>7, <3>1, <4>1, <4>2 DEF RejectInv
      <3>2. CASE p = f.order
        <4>1. order'[p] = ApplyFill(order[p], f.qty)
          BY <1>0, <2>2, <2>3, <3>2 DEF TypeOK
        <4>2. order'[p].status \in {"PartiallyFilled", "Filled"}
          BY <1>0, <2>2, <4>1, ApplyFillResult, OrderFields
        <4>3. ~Doomed(p)
          BY <1>0, <2>2, <2>4, <2>5, <3>2, VenueAssumption DEF RejectInv
        <4>4. ~Doomed(p)'
          BY <2>3, <4>2, <4>3 DEF Doomed, NoRejection
        <4> QED BY <2>2, <2>3, <3>2, <4>2, <4>4, VenueAssumption DEF RejectInv
      <3> QED BY <3>1, <3>2
    <2> QED BY <2>8 DEF RejectionInv
  <1> DEFINE o == coll[v].fill.order
  <1>7. CASE SaveOrder(v)
    <2>1. /\ o \in Orders /\ book[o].at # NoVenue /\ stage[o] # "gone"
          /\ coll[v].pc # "idle"
      BY <1>0, <1>7, VenueAssumption DEF SaveOrder, FillInv, Fill
    <2>2. order[o].status \in {"PartiallyFilled", "Filled"}
      BY <1>0, <2>1 DEF RejectInv, Booked
    <2>3. rows' = [rows EXCEPT ![o] = order[o]] \/ rows' = rows
      BY <1>7 DEF SaveOrder
    <2>4. UNCHANGED <<order, stage, arg, book, topic, fills>>
      BY <1>7 DEF SaveOrder, memory
    <2>5. /\ \A w \in Venues \ {v} : coll'[w] = coll[w]
          /\ coll'[v].pc # "idle" => coll'[v].fill = coll[v].fill
      BY <1>0, <1>7 DEF SaveOrder, Idle, TypeOK
    <2>6. ASSUME NEW p \in Orders PROVE RejectInv(p)'
      <3>1. Booked(p)' => Booked(p)
        BY <1>2, <2>1, <2>4, <2>5
      <3>2. rows'[p] = rows[p] \/ (p = o /\ rows'[p] = order[p])
        BY <1>0, <2>1, <2>3 DEF TypeOK
      <3>3. Doomed(p)' => Doomed(p)
        BY <2>2, <2>4, <3>2 DEF Doomed, NoRejection
      <3> QED BY <1>0, <2>4, <3>1, <3>3 DEF RejectInv
    <2> QED BY <2>6 DEF RejectionInv
  <1>8. CASE SavePosition(v)
    <2>1. o \in Orders /\ coll[v].pc # "idle"
      BY <1>0, <1>8 DEF SavePosition, FillInv, Fill
    <2>2. UNCHANGED <<order, stage, arg, rows, book, fills>>
      BY <1>8 DEF SavePosition
    <2>3. ASSUME NEW a, NEW b,
                 topic' = [topic EXCEPT ![o] =
                             @ \o FillEvents(a, b, order[o].status = "Filled")]
          PROVE  \A p \in Orders : NoRejection(topic[p]) => NoRejection(topic'[p])
      <3> DEFINE t == FillEvents(a, b, order[o].status = "Filled")
      <3>1. t \in Seq(Events) /\ NoRejection(t)
        BY FillEventsResult
      <3>2. topic \in [Orders -> Seq(Events)]
        BY <1>0 DEF TypeOK
      <3> HIDE DEF t, o
      <3>3. topic' = [topic EXCEPT ![o] = @ \o t]
        BY <2>3 DEF t, o
      <3> QED BY <2>1, <3>1, <3>2, <3>3, TopicAppend
    <2>4. \A p \in Orders : NoRejection(topic[p]) => NoRejection(topic'[p])
      BY <1>8, <2>3 DEF SavePosition
    <2>5. coll' = [coll EXCEPT ![v] = Idle]
      BY <1>8 DEF SavePosition
    <2>6. (\A w \in Venues \ {v} : coll'[w] = coll[w]) /\ coll'[v].pc = "idle"
      BY <1>0, <2>5 DEF Idle, TypeOK
    <2> QED BY <1>1, <1>2, <2>2, <2>4, <2>6
  <1> QED BY <1>3, <1>4, <1>5, <1>6, <1>7, <1>8 DEF VenueStep

\* A restart forgets the orders in memory and rejects none.
LEMMA RestartRejects ==
  ASSUME IInv, RejectionInv, Restart
  PROVE  RejectionInv'
  <1> SUFFICES ASSUME NEW o \in Orders PROVE RejectInv(o)'
    BY DEF RejectionInv
  <1>0. RejectInv(o) /\ OrderInv(o)
    BY DEF RejectionInv, IInv, PipelineInv
  <1>1. book'[o].at = book[o].at
    BY DEF Restart, IInv, TypeOK
  <1>2. order'[o] = NoOrder /\ UNCHANGED <<rows, topic, fills>>
    BY DEF Restart, tables
  <1>3. stage'[o] = IF stage[o] = "none" THEN "none" ELSE "gone"
    BY DEF Restart
  <1>4. \A v \in Venues : coll'[v].pc = "idle"
    BY DEF Restart, Idle
  <1>5. Booked(o)' => Booked(o)
    BY <1>2, <1>4 DEF Booked
  <1>6. Doomed(o)' => Doomed(o)
    BY <1>2, <1>3 DEF Doomed, NoRejection, NoOrder
  <1>7. book[o].at # NoVenue => ~Doomed(o) \/ ~Booked(o)
    BY <1>0 DEF RejectInv
  <1>8. stage'[o] = "none" => book[o].at = NoVenue /\ ~Doomed(o)
    BY <1>0, <1>3 DEF OrderInv, Sent, RejectInv, Open
  <1> QED BY <1>1, <1>3, <1>5, <1>6, <1>7, <1>8 DEF RejectInv, Open

THEOREM RejectionInvariance == Spec => []RejectionInv
  <1>1. Init => RejectionInv
    BY DEF Init, RejectionInv, RejectInv, Doomed, NoRejection, NoOrder, Unknown
  <1>2. ASSUME IInv, FillsInv, RejectionInv, [Next]_vars PROVE RejectionInv'
    <2>1. ASSUME \E o \in Orders : OrderStep(o) PROVE RejectionInv'
      BY <1>2, <2>1, OrderStepRejects
    <2>2. ASSUME \E v \in Venues : VenueStep(v) PROVE RejectionInv'
      BY <1>2, <2>2, VenueStepRejects
    <2>3. ASSUME Restart PROVE RejectionInv'
      BY <1>2, <2>3, RestartRejects
    <2>4. ASSUME UNCHANGED vars PROVE RejectionInv'
      BY <1>2, <2>4 DEF vars, RejectionInv, RejectInv, Doomed, Booked, NoRejection
    <2> QED BY <1>2, <2>1, <2>2, <2>3, <2>4 DEF Next
  <1>3. IInv /\ FillsInv /\ RejectionInv /\ [Next]_vars => RejectionInv'
    BY <1>2
  <1> QED BY <1>1, <1>3, Invariance, FillsInvariance, PTL DEF Spec

\* Whatever fails, SubmitOrder for an order that its venue has included, and
\* whenever the gateway restarts: an order that the gateway calls rejected, in
\* memory, in its table or by an event, has no execution in the books and gets
\* none.  Dispatcher and collector race for the order's lock; the status machine
\* and ApplyFill keep the second of them out.
THEOREM RejectedStaysUnbooked == Spec => []RejectedNeverBooked
  <1>1. ASSUME IInv, FillsInv, RejectionInv PROVE RejectedNeverBooked
    <2>1. ASSUME NEW o \in Orders, CalledRejected(o) PROVE Doomed(o)
      <3>1. topic[o] \in Seq(Events)
        BY <1>1 DEF IInv, TypeOK
      <3>2. DOMAIN topic[o] = 1 .. Len(topic[o])
        BY <3>1
      <3> QED BY <2>1, <3>2 DEF CalledRejected, Doomed, NoRejection
    <2>2. ASSUME NEW o \in Orders, Doomed(o) PROVE ~Booked(o)
      <3>1. CASE book[o].at = NoVenue
        BY <1>1, <3>1, UnknownUnbooked
      <3>2. CASE book[o].at # NoVenue
        BY <1>1, <2>2, <3>2 DEF RejectionInv, RejectInv
      <3> QED BY <3>1, <3>2
    <2> QED BY <2>1, <2>2 DEF RejectedNeverBooked, Booked
  <1>2. IInv /\ FillsInv /\ RejectionInv => RejectedNeverBooked
    BY <1>1
  <1> QED BY <1>2, Invariance, FillsInvariance, RejectionInvariance, PTL

-----------------------------------------------------------------------------
(***************************************************************************)
(* The books: what the order objects, the orders table, the venues, the    *)
(* fill channels and the position rows say of one order agrees, whatever   *)
(* calls fail and whenever the gateway restarts.  Of an order whose        *)
(* SubmitOrder failed late, which the dispatcher rejects while the fill    *)
(* collector fills it, less agrees: the object with itself, and the row    *)
(* with the object's decision between the fill and the rejection.          *)
(***************************************************************************)

\* The inductive invariant of the books

\* The stages between Submit and the dispatcher; the row is the order.
Waiting == {"submitted", "abandoned", "intake", "checking", "riskOut",
            "routed", "cleared", "queued"}

\* The statuses of an order at a venue.
Live == {"Acknowledged", "PartiallyFilled", "Filled"}

\* How far the row has followed the order at each stage of the pipeline, before
\* the order is at a venue.
StageInv(o) ==
  /\ stage[o] \in {"none", "refused"} => order[o] = NoOrder /\ rows[o] = NoOrder
  /\ stage[o] \in Waiting => order[o].status = "New" /\ rows[o] = order[o]
  /\ stage[o] = "acked" => /\ order[o].status = "Acknowledged"
                           /\ rows[o] = [order[o] EXCEPT !.status = "New"]
  /\ stage[o] = "calling" /\ book[o].at = NoVenue =>
        order[o].status = "Acknowledged" /\ rows[o] = order[o]
  /\ stage[o] \in {"rejArgs", "rejSave"} /\ o \notin late =>
        /\ book[o].at = NoVenue
        /\ order[o].status = "Rejected"
        /\ rows[o].status = "Acknowledged"
        /\ arg[o].filled = 0
        /\ stage[o] = "rejSave" => arg[o].status = "Rejected"

\* The order and its row agree with themselves and with one another.
RecordInv(o) ==
  /\ WellFormed(order[o]) /\ order[o].status # "Canceled"
  /\ o \notin late => WellFormed(rows[o])
  /\ rows[o].status # "Canceled"
  /\ stage[o] \notin {"none", "refused", "gone"} =>
        order[o].qty > 0 /\ rows[o].qty = order[o].qty
  /\ book[o].at # NoVenue /\ stage[o] # "gone" /\ o \notin late =>
        /\ stage[o] \in {"calling", "done"}
        /\ order[o].status \in Live
        /\ rows[o].status \in Live
        /\ rows[o].filled <= order[o].filled

\* The order whose SubmitOrder failed late: the fill or the rejection came first,
\* and the row, like what UpdateOrder read of the order, does not say otherwise.
LateInv(o) ==
  o \in late /\ stage[o] # "gone" =>
     /\ order[o].status \in {"PartiallyFilled", "Filled", "Rejected"}
     /\ rows[o].status \in Live \cup {"Rejected"}
     /\ order[o].status = "Rejected" => rows[o].status \in {"Acknowledged", "Rejected"}
     /\ rows[o].status = "Rejected" => order[o].status = "Rejected"
     /\ rows[o].status \in {"Acknowledged", "Rejected"} => rows[o].filled = 0
     /\ rows[o].filled <= order[o].filled
     /\ stage[o] \in {"rejArgs", "rejSave"} => arg[o].filled <= order[o].filled
     /\ stage[o] = "rejSave" =>
          /\ arg[o].status \in {"PartiallyFilled", "Filled", "Rejected"}
          /\ arg[o].status = "Rejected" <=> order[o].status = "Rejected"

\* A collector that has not saved the order yet has a fill the row does not count.
ExecutionInv(v) ==
  /\ \A i \in 1 .. Len(feed[v]) : feed[v][i].qty >= 1
  /\ coll[v].pc # "idle" =>
        /\ coll[v].fill.qty >= 1
        /\ order[coll[v].fill.order].status \in {"PartiallyFilled", "Filled"}
  /\ coll[v].pc \in {"fill", "order"} /\ coll[v].fill.order \notin late =>
        rows[coll[v].fill.order].filled + coll[v].fill.qty
          <= order[coll[v].fill.order].filled

BooksInv ==
  /\ FillsInv
  /\ \A o \in Orders : StageInv(o) /\ RecordInv(o) /\ LateInv(o)
  /\ \A v \in Venues : ExecutionInv(v)

-----------------------------------------------------------------------------
\* Lemmas about the order record

\* ApplyTransition to Acknowledged or Rejected, from a status that allows it,
\* changes the status only; nothing is filled before or after.
LEMMA TransitionRecord ==
  ASSUME NEW ord \in OrderRecord, WellFormed(ord), NEW s \in {"Acknowledged", "Rejected"},
         \/ ord.status = "New"
         \/ ord.status = "Acknowledged" /\ s = "Rejected"
  PROVE  /\ Transition(ord, s) = [ord EXCEPT !.status = s]
         /\ WellFormed(Transition(ord, s))
         /\ ord.filled = 0
  <1>1. Transition(ord, s) = [ord EXCEPT !.status = s]
    BY DEF Transition, CanTransition, ValidTransitions, Statuses
  <1>2. ord.filled = 0
    BY DEF WellFormed
  <1> QED BY <1>1, <1>2 DEF WellFormed, OrderRecord

\* ApplyFill of a fill that fits keeps the record in agreement with itself.
LEMMA ApplyFillRecord ==
  ASSUME NEW ord \in OrderRecord, WellFormed(ord), NEW q \in Nat, q >= 1,
         ord.filled + q <= ord.qty
  PROVE  /\ WellFormed(ApplyFill(ord, q))
         /\ ApplyFill(ord, q).status \in {"PartiallyFilled", "Filled"}
         /\ ApplyFill(ord, q).filled = ord.filled + q
         /\ ApplyFill(ord, q).qty = ord.qty
  <1> DEFINE s == IF ord.filled + q = ord.qty THEN "Filled" ELSE "PartiallyFilled"
  <1>1. ord.filled \in Nat /\ ord.qty \in Nat
    BY DEF OrderRecord
  <1>2. ApplyFill(ord, q) = [ord EXCEPT !.filled = ord.filled + q, !.status = s]
    BY DEF ApplyFill
  <1>3. /\ ApplyFill(ord, q).status = s /\ ApplyFill(ord, q).filled = ord.filled + q
        /\ ApplyFill(ord, q).qty = ord.qty
    BY <1>2 DEF OrderRecord
  <1> QED BY <1>1, <1>3 DEF WellFormed

\* A live order that has not filled q yet can be filled with q.
LEMMA LiveOrderFillable ==
  ASSUME NEW ord \in OrderRecord, WellFormed(ord), ord.status \in Live,
         NEW q \in Nat, q >= 1, ord.filled + q <= ord.qty
  PROVE  CanFill(ord, q)
  <1>1. ord.filled \in Nat /\ ord.qty \in Nat
    BY DEF OrderRecord
  <1>2. ord.status # "Filled"
    BY <1>1 DEF WellFormed
  <1> QED BY <1>1, <1>2 DEF CanFill, Live

-----------------------------------------------------------------------------
\* Steps of one order

\* What a step of an order does to the records of an order at a venue: nothing
\* once it shows a fill, and nothing but for a late failure of SubmitOrder.
RecordsKept(o) ==
  book[o].at # NoVenue =>
     /\ book'[o] = book[o]
     /\ order[o].status \in {"PartiallyFilled", "Filled"} => order'[o] = order[o]
     /\ o \notin late' => UNCHANGED <<order[o], rows[o]>> /\ o \notin late

\* A step of one order that leaves the channels and collectors alone keeps the
\* invariant if it keeps the part of that order.
LEMMA OneOrderBooks ==
  ASSUME IInv, BooksInv, FillsInv', NEW o \in Orders, OnlyOrder(o),
         StageInv(o)', RecordInv(o)', LateInv(o)', UNCHANGED <<feed, coll>>,
         RecordsKept(o)
  PROVE  BooksInv'
  <1>1. ASSUME NEW p \in Orders PROVE StageInv(p)' /\ RecordInv(p)' /\ LateInv(p)'
    <2>1. CASE p = o
      BY <2>1
    <2>2. CASE p # o
      <3>1. /\ order'[p] = order[p] /\ rows'[p] = rows[p] /\ stage'[p] = stage[p]
            /\ arg'[p] = arg[p] /\ book'[p] = book[p]
            /\ (p \in late') = (p \in late)
        BY <2>2 DEF OnlyOrder
      <3> QED BY <3>1 DEF BooksInv, StageInv, RecordInv, LateInv
    <2> QED BY <2>1, <2>2
  <1>2. ASSUME NEW p \in Orders PROVE RecordsKept(p)
    BY DEF OnlyOrder, RecordsKept
  <1>3. ASSUME NEW v \in Venues PROVE ExecutionInv(v)'
    <2>1. ExecutionInv(v)
      BY DEF BooksInv
    <2>2. CASE coll[v].pc = "idle"
      BY <2>1, <2>2 DEF ExecutionInv
    <2>3. CASE coll[v].pc # "idle"
      <3>1. PICK p \in Orders : p = coll[v].fill.order /\ book[p].at # NoVenue
        BY <2>3, FillOrders, VenueAssumption
      <3>2. order[p].status \in {"PartiallyFilled", "Filled"}
        BY <2>1, <2>3, <3>1 DEF ExecutionInv
      <3>3. /\ order'[p] = order[p]
            /\ p \notin late' => rows'[p] = rows[p] /\ p \notin late
        BY <1>2, <3>1, <3>2 DEF RecordsKept
      <3> QED BY <2>1, <3>1, <3>3 DEF ExecutionInv
    <2> QED BY <2>2, <2>3
  <1> QED BY <1>1, <1>3 DEF BooksInv

\* What every step of an order but the executions of its venue does: nothing to
\* the channels, the collectors and the positions, and to the records of an
\* order that is at a venue nothing but what a late failure of SubmitOrder does.
LEMMA OrderStepResult ==
  ASSUME IInv, BooksInv, NEW o \in Orders, OrderStep(o),
         ~ \E q \in 1 .. book[o].left : VenueFill(o, q) \/ LoseFill(o, q)
  PROVE  /\ OnlyOrder(o) /\ StageInv(o)' /\ RecordInv(o)' /\ LateInv(o)'
         /\ UNCHANGED <<feed, coll, fills, pos, pricer>>
         /\ \A p \in tracked' : p \in tracked \/ p = o
         /\ stage[o] = "gone" => stage'[o] = "gone"
         /\ book'[o].n = book[o].n
         /\ RecordsKept(o)
  <1>0. /\ TypeOK /\ OrderInv(o) /\ StageInv(o) /\ RecordInv(o) /\ LateInv(o)
        /\ FilledInv(o)
    BY DEF IInv, PipelineInv, BooksInv, FillsInv
  <1>00. order[o] \in OrderRecord /\ rows[o] \in OrderRecord
    BY <1>0 DEF TypeOK
  <1> DEFINE G == /\ OnlyOrder(o) /\ StageInv(o)' /\ RecordInv(o)' /\ LateInv(o)'
                  /\ UNCHANGED <<feed, coll, fills, pos, pricer>>
                  /\ \A p \in tracked' : p \in tracked \/ p = o
                  /\ stage[o] = "gone" => stage'[o] = "gone"
                  /\ book'[o].n = book[o].n
                  /\ RecordsKept(o)
  <1> SUFFICES G
    OBVIOUS
  \* An order no venue has is not late.
  <1>l. ASSUME book[o].at = NoVenue, late' = late
        PROVE  o \notin late' /\ LateInv(o)' /\ RecordsKept(o)
    BY <1>0, <1>l DEF OrderInv, LateInv, RecordsKept
  \* A step that only moves the order to the next stage.
  <1>m. ASSUME NEW s \in Stages, MoveTo(o, s), StageInv(o)', RecordInv(o)', LateInv(o)',
               stage[o] # "gone",
               UNCHANGED <<order, arg, rows, book, feed, coll, fills, pos, pricer,
                           tracked, late>>
        PROVE  G
    BY <1>0, <1>m DEF OnlyOrder, MoveTo, TypeOK, RecordsKept
  \* Such a step on the way to the venue.
  <1>w. ASSUME NEW s \in Waiting \cup {"refused"}, MoveTo(o, s),
               stage[o] \in (IF s = "refused" THEN {"none"} ELSE Waiting),
               UNCHANGED <<order, arg, rows, book, feed, coll, fills, pos, pricer,
                           tracked, late>>
        PROVE  G
    <2>1. book[o].at = NoVenue /\ stage'[o] = s /\ s \in Stages /\ stage[o] # "gone"
      BY <1>0, <1>w DEF OrderInv, Sent, Waiting, MoveTo, TypeOK, Stages
    <2>2. StageInv(o)' /\ RecordInv(o)'
      BY <1>0, <1>w, <2>1 DEF StageInv, RecordInv, Waiting
    <2> QED BY <1>l, <1>m, <1>w, <2>1, <2>2
  <1>1. ASSUME NEW q \in Quantities, NEW v \in Venues \cup {NoVenue}, Submit(o, q, v)
        PROVE  G
    <2>1. order'[o] = NewOrder(q, v) /\ rows'[o] = NewOrder(q, v) /\ stage'[o] = "submitted"
      BY <1>0, <1>1 DEF Submit, MoveTo, TypeOK
    <2>2. book' = book /\ book[o].at = NoVenue
      BY <1>0, <1>1 DEF Submit, OrderInv, Sent
    <2>3. StageInv(o)' /\ RecordInv(o)'
      BY <1>0, <1>1, <2>1, <2>2, PipelineAssumption
         DEF Submit, StageInv, RecordInv, NewOrder, WellFormed, Waiting
    <2>4. late' = late /\ LateInv(o)' /\ RecordsKept(o)
      BY <1>1, <1>l, <2>2 DEF Submit
    <2> QED BY <1>0, <1>1, <2>2, <2>3, <2>4 DEF Submit, OnlyOrder, MoveTo, TypeOK
  <1>2. ASSUME NEW q \in Quantities, NEW v \in Venues \cup {NoVenue}, SubmitRefused(o, q, v)
        PROVE  G
    BY <1>2, <1>w DEF SubmitRefused, Waiting, tables
  <1>3. CASE Enqueue(o)
    BY <1>3, <1>w DEF Enqueue, Waiting, tables
  <1>4. CASE Abandon(o)
    BY <1>4, <1>w DEF Abandon, Waiting, tables
  <1>5. CASE Cancel(o)
    <2>1. UNCHANGED <<order, stage, arg, rows, book, feed, coll, fills, pos, pricer,
                      tracked, late>>
      BY <1>5 DEF Cancel, memory, tables
    <2> QED BY <1>0, <2>1 DEF StageInv, RecordInv, LateInv, OnlyOrder, RecordsKept
  <1>6. CASE TakeForRisk(o)
    BY <1>6, <1>w DEF TakeForRisk, Waiting, tables
  <1>7. CASE RiskPass(o)
    BY <1>7, <1>w DEF RiskPass, Waiting, tables
  \* A rejection before the order reaches a dispatcher.
  <1>r. ASSUME stage[o] \in Waiting, Reject(o),
               UNCHANGED <<tracked, arg, fills, pos, book, feed, coll, pricer, late>>
        PROVE  G
    <2> DEFINE ord == [order[o] EXCEPT !.status = "Rejected"]
    <2>1. book[o].at = NoVenue /\ order[o].status = "New" /\ rows[o] = order[o]
      BY <1>0, <1>r DEF OrderInv, StageInv, Sent, Waiting
    <2>2. /\ Transition(order[o], "Rejected") = ord /\ WellFormed(ord) /\ order[o].filled = 0
      BY <1>0, <1>00, <2>1, TransitionRecord DEF RecordInv
    <2>3. /\ order' = [order EXCEPT ![o] = ord]
          /\ rows' = [rows EXCEPT ![o] = ord] \/ rows' = rows
          /\ stage' = [stage EXCEPT ![o] = "done"]
      BY <1>r, <2>2 DEF Reject, MoveTo
    <2>4. ord.status = "Rejected" /\ ord.qty = order[o].qty
      BY <1>00 DEF OrderRecord
    <2> HIDE DEF ord
    <2>5. /\ order'[o] = ord /\ rows'[o] \in {ord, order[o]} /\ stage'[o] = "done"
          /\ OnlyOrder(o)
      BY <1>0, <1>r, <2>1, <2>3 DEF TypeOK, OnlyOrder
    <2>6. StageInv(o)' /\ RecordInv(o)'
      BY <1>0, <1>r, <2>1, <2>2, <2>4, <2>5 DEF StageInv, RecordInv, Waiting
    <2> QED BY <1>l, <1>r, <2>1, <2>5, <2>6 DEF Waiting
  <1>8. CASE RiskReject(o)
    BY <1>8, <1>r DEF RiskReject, Waiting
  <1>9. CASE Route(o)
    <2> DEFINE ord == [order[o] EXCEPT !.venue = Target(o)]
    <2>1. book[o].at = NoVenue /\ order[o].status = "New" /\ rows[o] = order[o]
      BY <1>0, <1>9 DEF Route, OrderInv, StageInv, Sent, Waiting
    <2>2. /\ order' = [order EXCEPT ![o] = ord]
          /\ \/ rows' = [rows EXCEPT ![o] = ord] /\ MoveTo(o, "routed")
             \/ rows' = rows /\ MoveTo(o, "stuck")
      <3>1. order' = [order EXCEPT ![o] = ord]
        BY <1>9 DEF Route
      <3>2. order'[o] = ord
        BY <1>0, <3>1 DEF TypeOK
      <3> QED BY <1>9, <3>1, <3>2 DEF Route
    <2>3. /\ ord.status = "New" /\ ord.qty = order[o].qty /\ WellFormed(ord)
      BY <1>0, <1>00, <2>1 DEF OrderRecord, WellFormed, RecordInv
    <2> HIDE DEF ord
    <2>5. /\ order'[o] = ord /\ OnlyOrder(o)
          /\ \/ rows'[o] = ord /\ stage'[o] = "routed"
             \/ rows'[o] = rows[o] /\ stage'[o] = "stuck"
      BY <1>0, <1>9, <2>2 DEF TypeOK, OnlyOrder, MoveTo, Route
    <2>6. StageInv(o)' /\ RecordInv(o)'
      BY <1>0, <1>9, <2>1, <2>3, <2>5 DEF StageInv, RecordInv, Waiting, Route
    <2> QED BY <1>9, <1>l, <2>1, <2>5, <2>6 DEF Route
  <1>10. CASE RejectDisconnected(o)
    BY <1>10, <1>r DEF RejectDisconnected, Waiting
  <1>20. CASE PassVenueCheck(o)
    BY <1>20, <1>w DEF PassVenueCheck, Waiting, tables
  <1>11. CASE Dispatch(o)
    BY <1>11, <1>w DEF Dispatch, Waiting, tables
  <1>12. CASE Acknowledge(o)
    <2> DEFINE ord == [order[o] EXCEPT !.status = "Acknowledged"]
    <2>1. book[o].at = NoVenue /\ order[o].status = "New" /\ rows[o] = order[o]
      BY <1>0, <1>12 DEF Acknowledge, OrderInv, StageInv, Sent, Waiting
    <2>2. Transition(order[o], "Acknowledged") = ord /\ WellFormed(ord)
      BY <1>0, <1>00, <2>1, TransitionRecord DEF RecordInv
    <2>3. CanTransition(order[o], "Acknowledged")
      BY <2>1 DEF CanTransition, ValidTransitions, Statuses
    <2>4. order' = [order EXCEPT ![o] = ord] /\ stage' = [stage EXCEPT ![o] = "acked"]
      BY <1>12, <2>2, <2>3 DEF Acknowledge, MoveTo
    <2>5. /\ ord.status = "Acknowledged" /\ ord.qty = order[o].qty
          /\ rows[o] = [ord EXCEPT !.status = "New"]
      BY <1>00, <2>1 DEF OrderRecord
    <2> HIDE DEF ord
    <2>6. order'[o] = ord /\ stage'[o] = "acked" /\ rows' = rows /\ OnlyOrder(o)
      BY <1>0, <1>12, <2>4 DEF Acknowledge, TypeOK, OnlyOrder, tables
    <2>7. StageInv(o)' /\ RecordInv(o)'
      BY <1>0, <1>12, <2>1, <2>2, <2>5, <2>6 DEF StageInv, RecordInv, Waiting, Acknowledge
    <2> QED BY <1>12, <1>l, <2>1, <2>6, <2>7 DEF Acknowledge, tables
  <1>13. CASE SaveAck(o)
    <2>1. book[o].at = NoVenue /\ order[o].status = "Acknowledged"
      BY <1>0, <1>13 DEF SaveAck, OrderInv, StageInv, Sent
    <2>2. OnlyOrder(o) /\ \/ rows'[o] = order[o] /\ stage'[o] = "calling"
                          \/ rows'[o] = rows[o] /\ stage'[o] = "stuck"
      BY <1>0, <1>13 DEF SaveAck, MoveTo, OnlyOrder, TypeOK
    <2>3. StageInv(o)' /\ RecordInv(o)'
      BY <1>0, <1>13, <2>1, <2>2 DEF SaveAck, StageInv, RecordInv, Waiting
    <2> QED BY <1>13, <1>l, <2>1, <2>2, <2>3 DEF SaveAck
  <1>14. CASE SubmitOk(o)
    <2>1. /\ stage[o] = "calling" /\ book[o].at # NoVenue /\ stage'[o] = "done"
          /\ OnlyOrder(o)
          /\ UNCHANGED <<order, arg, rows, book, feed, coll, fills, pos, pricer,
                         tracked, late>>
      BY <1>0, <1>14 DEF SubmitOk, MoveTo, TypeOK, OnlyOrder, tables
    <2>2. o \notin late
      BY <1>0, <2>1 DEF OrderInv
    <2>3. StageInv(o)' /\ RecordInv(o)' /\ LateInv(o)'
      BY <1>0, <2>1, <2>2 DEF StageInv, RecordInv, LateInv, Waiting
    <2> QED BY <2>1, <2>3 DEF RecordsKept
  <1>15. CASE SubmitError(o)
    <2>1. /\ stage[o] = "calling" /\ stage'[o] = "rejArgs"
          /\ order'[o] = Transition(order[o], "Rejected")
          /\ arg'[o].filled = order[o].filled
          /\ o \in late' <=> o \in late \/ book[o].at # NoVenue
          /\ OnlyOrder(o)
          /\ UNCHANGED <<rows, book, feed, coll, fills, pos, pricer, tracked>>
      BY <1>0, <1>15 DEF SubmitError, MoveTo, TypeOK, OnlyOrder, tables
    <2>2. o \notin late
      BY <1>0, <2>1 DEF OrderInv
    <2>3. ASSUME order[o].status = "Acknowledged"
          PROVE  /\ order'[o].status = "Rejected" /\ order'[o].qty = order[o].qty
                 /\ order[o].filled = 0 /\ order'[o].filled = 0
                 /\ WellFormed(order'[o])
      BY <1>0, <1>00, <2>1, <2>3, TransitionRecord DEF RecordInv, OrderRecord
    <2>4. CASE book[o].at = NoVenue
      <3>1. order[o].status = "Acknowledged" /\ rows[o] = order[o] /\ o \notin late'
        BY <1>0, <2>1, <2>2, <2>4 DEF StageInv
      <3>2. StageInv(o)' /\ RecordInv(o)'
        BY <1>0, <2>1, <2>3, <2>4, <3>1 DEF StageInv, RecordInv, Waiting
      <3> QED BY <2>1, <2>4, <3>1, <3>2 DEF LateInv, RecordsKept
    <2>5. CASE book[o].at # NoVenue
      <3>1. /\ order[o].status \in Live /\ rows[o].status \in Live
            /\ rows[o].filled <= order[o].filled /\ WellFormed(rows[o])
            /\ order[o].qty > 0 /\ rows[o].qty = order[o].qty
            /\ rows[o].filled \in Nat /\ order[o].filled \in Nat /\ order[o].qty \in Nat
        BY <1>0, <1>00, <2>1, <2>2, <2>5 DEF RecordInv, OrderRecord
      <3>2. CASE order[o].status = "Acknowledged"
        <4>1. rows[o].status = "Acknowledged" /\ rows[o].filled = 0
          BY <2>3, <3>1, <3>2 DEF WellFormed, Live
        <4>2. LateInv(o)'
          BY <2>1, <2>3, <3>2, <4>1 DEF LateInv, Live
        <4>3. StageInv(o)' /\ RecordInv(o)'
          BY <1>0, <2>1, <2>3, <2>5, <3>1, <3>2, <4>1 DEF StageInv, RecordInv, Waiting
        <4> QED BY <2>1, <2>5, <3>2, <4>2, <4>3 DEF RecordsKept
      <3>3. CASE order[o].status \in {"PartiallyFilled", "Filled"}
        <4>1. order'[o] = order[o]
          BY <2>1, <3>3 DEF Transition, CanTransition, ValidTransitions, Statuses
        <4>2. rows[o].status = "Acknowledged" => rows[o].filled = 0
          BY <3>1 DEF WellFormed
        <4>3. LateInv(o)'
          BY <2>1, <3>1, <3>3, <4>1, <4>2 DEF LateInv, Live
        <4>4. StageInv(o)' /\ RecordInv(o)'
          BY <1>0, <2>1, <2>5, <3>1, <4>1 DEF StageInv, RecordInv, Waiting
        <4> QED BY <2>1, <2>5, <4>1, <4>3, <4>4 DEF RecordsKept
      <3> QED BY <3>1, <3>2, <3>3 DEF Live
    <2> QED BY <2>4, <2>5
  <1>16. CASE ReadStatusArg(o)
    <2>1. /\ arg'[o].status = order[o].status /\ arg'[o].filled = arg[o].filled
          /\ stage[o] = "rejArgs" /\ stage'[o] = "rejSave" /\ OnlyOrder(o)
          /\ UNCHANGED <<order, rows, book, feed, coll, fills, pos, pricer, tracked, late>>
      BY <1>0, <1>16 DEF ReadStatusArg, MoveTo, TypeOK, OnlyOrder, tables
    <2>2. StageInv(o)' /\ RecordInv(o)'
      BY <1>0, <2>1 DEF StageInv, RecordInv, Waiting
    <2>3. LateInv(o)'
      BY <1>0, <2>1 DEF LateInv
    <2> QED BY <2>1, <2>2, <2>3 DEF RecordsKept
  <1>17. CASE SaveRejected(o)
    <2> DEFINE row == [rows[o] EXCEPT !.status = arg[o].status, !.filled = arg[o].filled]
    <2>1. rows' = [rows EXCEPT ![o] = row] \/ rows' = rows
      BY <1>17 DEF SaveRejected
    <2>2. /\ row.status = arg[o].status /\ row.filled = arg[o].filled
          /\ row.qty = rows[o].qty
      BY <1>00 DEF OrderRecord
    <2> HIDE DEF row
    <2>3. /\ rows'[o] \in {row, rows[o]} /\ stage[o] = "rejSave" /\ stage'[o] = "done"
          /\ OnlyOrder(o)
          /\ UNCHANGED <<order, book, feed, coll, fills, pos, pricer, tracked, late>>
      BY <1>0, <1>17, <2>1 DEF SaveRejected, MoveTo, TypeOK, OnlyOrder
    <2>4. CASE o \notin late
      <3>1. /\ book[o].at = NoVenue /\ arg[o].status = "Rejected" /\ arg[o].filled = 0
            /\ order[o].status = "Rejected"
        BY <1>0, <2>3, <2>4 DEF StageInv
      <3>2. StageInv(o)' /\ RecordInv(o)'
        BY <1>0, <2>2, <2>3, <3>1 DEF StageInv, RecordInv, Waiting, WellFormed
      <3> QED BY <1>l, <2>3, <3>1, <3>2
    <2>5. CASE o \in late
      <3>1. /\ arg[o].status \in {"PartiallyFilled", "Filled", "Rejected"}
            /\ arg[o].status = "Rejected" <=> order[o].status = "Rejected"
            /\ arg[o].filled <= order[o].filled
        BY <1>0, <2>3, <2>5 DEF LateInv
      <3>2. order[o].status = "Rejected" => order[o].filled = 0
        BY <1>0 DEF RecordInv, WellFormed
      <3>3. arg[o].filled \in Nat
        BY <1>0, OrderFields
      <3>4. arg[o].status = "Rejected" => arg[o].filled = 0
        BY <3>1, <3>2, <3>3
      <3>5. LateInv(o)'
        <4>1. CASE rows'[o] = rows[o]
          BY <1>0, <2>3, <2>5, <4>1 DEF LateInv
        <4>2. CASE rows'[o] = row
          BY <1>0, <2>2, <2>3, <2>5, <3>1, <3>4, <4>2 DEF LateInv, Live
        <4> QED BY <2>3, <4>1, <4>2
      <3>6. StageInv(o)' /\ RecordInv(o)'
        BY <1>0, <2>2, <2>3, <2>5, <3>1 DEF StageInv, RecordInv, Waiting
      <3> QED BY <2>3, <2>5, <3>5, <3>6 DEF RecordsKept
    <2> QED BY <2>4, <2>5
  <1>18. CASE VenueAccept(o)
    <2>1. /\ book[o].at = NoVenue /\ order[o].status = "Acknowledged" /\ rows[o] = order[o]
      BY <1>0, <1>18 DEF VenueAccept, StageInv
    <2>2. order[o].filled = 0 /\ order[o].qty \in Nat
      BY <1>0, <1>00, <2>1 DEF RecordInv, WellFormed, OrderRecord
    <2>3. /\ book'[o] = [at |-> order[o].venue, left |-> order[o].qty, n |-> 0]
          /\ OnlyOrder(o) /\ UNCHANGED <<order, stage, arg, rows, tracked, late>>
      BY <1>0, <1>18 DEF VenueAccept, memory, tables, TypeOK, OnlyOrder
    <2>4. StageInv(o)' /\ RecordInv(o)'
      BY <1>0, <1>18, <2>1, <2>2, <2>3 DEF StageInv, RecordInv, Waiting, VenueAccept, Live
    <2>5. book'[o].n = book[o].n
      BY <1>0, <2>1, <2>3 DEF FilledInv
    <2> QED BY <1>18, <1>l, <2>1, <2>3, <2>4, <2>5 DEF VenueAccept, memory, tables
  <1> QED BY <1>1, <1>2, <1>3, <1>4, <1>5, <1>6, <1>7, <1>8, <1>9, <1>10,
             <1>11, <1>12, <1>13, <1>14, <1>15, <1>16, <1>17, <1>18, <1>20
       DEF OrderStep

\* Such a step keeps the invariant.
LEMMA OrderStepBooks ==
  ASSUME IInv, BooksInv, NEW o \in Orders, OrderStep(o),
         ~ \E q \in 1 .. book[o].left : VenueFill(o, q) \/ LoseFill(o, q)
  PROVE  BooksInv'
  BY OrderStepResult, OrderStepFills, OneOrderBooks DEF BooksInv

\* An execution, of one unit at least, keeps the invariant.
LEMMA ExecutionBooks ==
  ASSUME IInv, BooksInv, NEW o \in Orders, NEW q \in 1 .. book[o].left,
         VenueFill(o, q) \/ LoseFill(o, q)
  PROVE  BooksInv'
  <1> DEFINE f == [order |-> o, n |-> book[o].n + 1, qty |-> q]
  <1>0. /\ book[o].at \in Venues /\ q \in Nat /\ q >= 1
        /\ \A p \in Orders : book'[p].at = book[p].at
        /\ UNCHANGED <<order, stage, arg, rows, tracked, fills, pos, coll, pricer, late>>
    BY ExecutionResult
  <1>1. ASSUME NEW p \in Orders PROVE StageInv(p)' /\ RecordInv(p)' /\ LateInv(p)'
    BY <1>0 DEF BooksInv, StageInv, RecordInv, LateInv
  <1>2. ASSUME NEW v \in Venues PROVE ExecutionInv(v)'
    <2>1. ExecutionInv(v)
      BY DEF BooksInv
    <2>2. ASSUME NEW i \in 1 .. Len(feed'[v]) PROVE feed'[v][i].qty >= 1
      <3>1. \A j \in 1 .. Len(feed[v]) : feed[v][j].qty >= 1
        BY <2>1 DEF ExecutionInv
      <3>2. f.qty >= 1
        BY <1>0
      <3> HIDE DEF f
      <3>3. CASE feed'[v] = feed[v]
        BY <3>1, <3>3
      <3>4. CASE /\ Len(feed'[v]) = Len(feed[v]) + 1 /\ Len(feed[v]) \in Nat
                 /\ \A j \in 1 .. Len(feed[v]) : feed'[v][j] = feed[v][j]
                 /\ feed'[v][Len(feed[v]) + 1] = f
        <4>1. i \in 1 .. Len(feed[v]) \/ i = Len(feed[v]) + 1
          BY <3>4
        <4> QED BY <3>1, <3>2, <3>4, <4>1
      <3> QED BY <3>3, <3>4, ExecutionFeed DEF f
    <2> QED BY <1>0, <2>1, <2>2 DEF ExecutionInv
  <1> QED BY <1>1, <1>2, ExecutionFills DEF BooksInv

-----------------------------------------------------------------------------
\* Steps of a venue's adapter, fill collector and pricer

\* The first fill of a channel, if its order is still in memory, can be applied.
LEMMA HeadFits ==
  ASSUME IInv, BooksInv, NEW v \in Venues, feed[v] # << >>,
         stage[Head(feed[v]).order] # "gone"
  PROVE  LET f == Head(feed[v])
             p == f.order IN
         /\ f \in Fill /\ p \in Orders /\ f.qty \in Nat /\ f.qty >= 1
         /\ f = feed[v][1] /\ 1 \in 1 .. Len(feed[v])
         /\ book[p].at = v
         /\ order[p] \in OrderRecord
         /\ order[p].filled \in Nat /\ order[p].qty \in Nat
         /\ order[p].filled + f.qty + book[p].left <= order[p].qty
         /\ order[p].filled + f.qty <= order[p].qty
         /\ order[p].status \in Live \cup {"Rejected"}
         /\ order[p].status # "Rejected" => CanFill(order[p], f.qty)
         /\ p \notin late => order[p].status \in Live
  <1> DEFINE f == Head(feed[v])
             p == f.order
  <1>1. /\ f \in Fill /\ p \in Orders /\ f.qty \in Nat
        /\ f = feed[v][1] /\ 1 \in 1 .. Len(feed[v])
        /\ book[p].at = v
        /\ order[p] \in OrderRecord
        /\ order[p].filled \in Nat /\ order[p].qty \in Nat
        /\ order[p].filled + f.qty + book[p].left <= order[p].qty
        /\ order[p].filled + f.qty <= order[p].qty
    BY HeadPlaced DEF BooksInv
  <1>2. f.qty >= 1
    BY <1>1 DEF BooksInv, ExecutionInv
  <1>3. WellFormed(order[p])
    BY <1>1 DEF BooksInv, RecordInv
  <1>4. /\ p \notin late => order[p].status \in Live
        /\ p \in late => order[p].status \in Live \cup {"Rejected"}
    BY <1>1, VenueAssumption DEF BooksInv, RecordInv, LateInv, Live
  <1>5. order[p].status \in Live => CanFill(order[p], f.qty)
    BY <1>1, <1>2, <1>3, LiveOrderFillable
  <1> QED BY <1>1, <1>2, <1>4, <1>5

\* A step that leaves the orders and the rows alone keeps the invariant if it
\* keeps what that says of the channels and collectors.
LEMMA BookkeepingBooks ==
  ASSUME IInv, BooksInv, FillsInv', UNCHANGED <<order, stage, arg, rows, book, late>>,
         \A v \in Venues : ExecutionInv(v)'
  PROVE  BooksInv'
  <1>1. ASSUME NEW o \in Orders PROVE StageInv(o)' /\ RecordInv(o)' /\ LateInv(o)'
    BY DEF BooksInv, StageInv, RecordInv, LateInv
  <1> QED BY <1>1 DEF BooksInv

\* The collector applies a fill, and the row does not count it yet.
LEMMA TakeFillBooks ==
  ASSUME IInv, BooksInv, NEW v \in Venues, TakeFill(v)
  PROVE  BooksInv'
  <1> DEFINE f == Head(feed[v])
             o == f.order
             ord == ApplyFill(order[o], f.qty)
  <1>0. /\ order' = [order EXCEPT ![o] = ord]
        /\ feed' = [feed EXCEPT ![v] = Tail(feed[v])]
        /\ coll' = [coll EXCEPT ![v] = [pc |-> "fill", fill |-> f, row |-> {}]]
        /\ UNCHANGED <<tracked, stage, arg, rows, fills, pos, book, pricer, late>>
        /\ feed[v] # << >> /\ o \in tracked
        /\ order[o].status \in {"Acknowledged", "PartiallyFilled"}
    BY DEF TakeFill, tables, CanFill
  <1>1. o \in Orders /\ stage[o] # "gone"
    BY <1>0 DEF IInv, TypeOK, BooksInv, FillsInv, FilledInv
  <1>2. /\ f \in Fill /\ f.qty \in Nat /\ f.qty >= 1
        /\ f = feed[v][1] /\ 1 \in 1 .. Len(feed[v])
        /\ book[o].at = v
        /\ order[o] \in OrderRecord
        /\ order[o].filled \in Nat /\ order[o].qty \in Nat
        /\ order[o].filled + f.qty + book[o].left <= order[o].qty
        /\ order[o].filled + f.qty <= order[o].qty
    BY <1>0, <1>1, HeadFits
  <1>3. /\ WellFormed(ord) /\ ord.status \in {"PartiallyFilled", "Filled"}
        /\ ord.filled = order[o].filled + f.qty
        /\ ord.qty = order[o].qty
    BY <1>1, <1>2, ApplyFillRecord DEF BooksInv, RecordInv
  <1>4. /\ stage[o] \in Sent
        /\ stage[o] \in {"rejArgs", "rejSave"} => o \in late
    <2>1. /\ RecordInv(o) /\ OrderInv(o) /\ book[o].at # NoVenue
      BY <1>1, <1>2, VenueAssumption DEF BooksInv, IInv, PipelineInv
    <2>2. stage[o] \in Sent
      BY <1>1, <2>1 DEF OrderInv
    <2> QED BY <1>1, <2>1, <2>2 DEF RecordInv
  <1> HIDE DEF ord
  <1>5. /\ order'[o] = ord
        /\ \A p \in Orders : p # o => order'[p] = order[p]
        /\ feed'[v] = Tail(feed[v])
        /\ \A u \in Venues : u # v => feed'[u] = feed[u] /\ coll'[u] = coll[u]
        /\ coll'[v] = [pc |-> "fill", fill |-> f, row |-> {}]
    BY <1>0, <1>1 DEF IInv, TypeOK
  <1> HIDE DEF f, o
  <1>6. ASSUME NEW p \in Orders PROVE StageInv(p)' /\ RecordInv(p)' /\ LateInv(p)'
    <2>1. CASE p # o
      BY <1>0, <1>5, <2>1 DEF BooksInv, StageInv, RecordInv, LateInv
    <2>2. CASE p = o
      <3>1. StageInv(o) /\ RecordInv(o) /\ LateInv(o)
        BY <1>1 DEF BooksInv
      <3>2. book[o].at # NoVenue
        BY <1>2, VenueAssumption
      <3>3. StageInv(p)'
        BY <1>0, <1>4, <2>2, <3>2 DEF StageInv, Waiting, Sent
      <3>4. rows[o].filled \in Nat /\ arg[o].filled \in Nat
        BY <1>1, OrderFields DEF IInv, OrderRecord
      <3>5. /\ rows[o].filled <= order[o].filled => rows[o].filled <= ord.filled
            /\ arg[o].filled <= order[o].filled => arg[o].filled <= ord.filled
        BY <1>2, <1>3, <3>4
      <3>6. RecordInv(p)'
        BY <1>0, <1>1, <1>3, <1>4, <1>5, <2>2, <3>1, <3>2, <3>5 DEF RecordInv, Live, Sent
      <3>7. LateInv(p)'
        BY <1>0, <1>3, <1>5, <2>2, <3>1, <3>5 DEF LateInv, Live
      <3> QED BY <2>2, <3>3, <3>6, <3>7
    <2> QED BY <2>1, <2>2
  <1>7. ASSUME NEW u \in Venues PROVE ExecutionInv(u)'
    <2>0. ExecutionInv(u)
      BY DEF BooksInv
    <2>1. CASE u # v
      <3>1. coll[u].pc # "idle" => coll[u].fill.order \in Orders /\ coll[u].fill.order # o
        BY <1>2, <2>1, FillOrders
      <3>2. coll[u].pc # "idle" => order'[coll[u].fill.order] = order[coll[u].fill.order]
        BY <1>5, <3>1
      <3>3. coll[u].pc \in {"order", "read", "write", "fill"} => coll[u].pc # "idle"
        OBVIOUS
      <3> QED BY <1>0, <1>5, <2>0, <2>1, <3>2, <3>3 DEF ExecutionInv
    <2>2. CASE u = v
      <3>2. \A i \in 1 .. Len(feed'[v]) :
               feed'[v][i] = feed[v][i + 1] /\ i + 1 \in 1 .. Len(feed[v])
        BY <1>0, <1>5, TailElements
      <3>3. \A i \in 1 .. Len(feed'[v]) : feed'[v][i].qty >= 1
        BY <1>0, <2>0, <2>2, <3>2 DEF ExecutionInv
      <3>5. o \notin late => rows[o].filled + f.qty <= order'[o].filled
        <4> SUFFICES ASSUME o \notin late PROVE rows[o].filled + f.qty <= order'[o].filled
          OBVIOUS
        <4>1. rows[o].filled \in Nat /\ rows[o].filled <= order[o].filled
          BY <1>1, <1>2, VenueAssumption DEF BooksInv, RecordInv, IInv, TypeOK, OrderRecord
        <4> QED BY <1>2, <1>3, <1>5, <4>1
      <3>6. f.order = o
        BY DEF o
      <3>7. /\ coll'[v].fill = f /\ f.qty >= 1 /\ rows' = rows /\ late' = late
            /\ order'[o].status \in {"PartiallyFilled", "Filled"}
        BY <1>0, <1>2, <1>3, <1>5, <2>0, <2>2 DEF ExecutionInv
      <3> QED BY <2>2, <3>3, <3>5, <3>6, <3>7 DEF ExecutionInv
    <2> QED BY <2>1, <2>2
  <1> QED BY <1>6, <1>7, TakeFillFills DEF BooksInv

\* Every other step of a venue's adapter, collector or pricer keeps the invariant.
LEMMA VenueStepBooks ==
  ASSUME IInv, BooksInv, NEW v \in Venues, VenueStep(v)
  PROVE  BooksInv'
  <1>0. coll \in [Venues -> [pc : {"idle", "fill", "order", "read", "write"},
                             fill : Fill \cup {NoFill}, row : SUBSET Fill]]
    BY DEF IInv, TypeOK
  <1>e. \A u \in Venues : ExecutionInv(u)
    BY DEF BooksInv
  <1>f. FillsInv'
    BY VenueStepFills DEF BooksInv
  <1> DEFINE c == coll[v]
  \* A step that does not touch the records, and takes the collector on.
  <1>c. ASSUME UNCHANGED <<order, stage, arg, rows, book, feed, late>>,
               \A u \in Venues : coll'[u] = coll[u] \/ coll'[u] = Idle
                  \/ /\ coll'[u].fill = coll[u].fill /\ coll[u].pc # "idle"
                     /\ coll'[u].pc = "order" => coll[u].pc = "fill"
                     /\ coll'[u].pc # "fill"
        PROVE  BooksInv'
    <2>1. ASSUME NEW u \in Venues PROVE ExecutionInv(u)'
      BY <1>e, <1>c DEF ExecutionInv, Idle
    <2> QED BY <1>c, <1>f, <2>1, BookkeepingBooks
  <1>1. CASE Connect(v) \/ Disconnect(v)
    BY <1>1, <1>c DEF Connect, Disconnect, memory, tables
  <1>2. CASE ReadForPrice(v) \/ SavePrice(v)
    BY <1>2, <1>c DEF ReadForPrice, SavePrice, memory, tables
  <1>4. CASE TakeFill(v)
    BY <1>4, TakeFillBooks
  <1>5. CASE DropFill(v)
    <2>1. /\ UNCHANGED <<order, stage, arg, rows, book, coll, late>>
          /\ feed[v] # << >> /\ feed' = [feed EXCEPT ![v] = Tail(feed[v])]
      BY <1>5 DEF DropFill, memory, tables
    <2>2. feed'[v] = Tail(feed[v]) /\ \A u \in Venues : u # v => feed'[u] = feed[u]
      BY <2>1 DEF IInv, TypeOK
    <2>3. \A i \in 1 .. Len(feed'[v]) :
             feed'[v][i] = feed[v][i + 1] /\ i + 1 \in 1 .. Len(feed[v])
      BY <2>1, <2>2, TailElements
    <2>4. \A u \in Venues : \A i \in 1 .. Len(feed'[u]) : feed'[u][i].qty >= 1
      BY <1>e, <2>2, <2>3 DEF ExecutionInv
    <2>5. ASSUME NEW u \in Venues PROVE ExecutionInv(u)'
      BY <1>e, <2>1, <2>4 DEF ExecutionInv
    <2> QED BY <1>f, <2>1, <2>5, BookkeepingBooks
  <1>6. CASE SaveFill(v)
    BY <1>0, <1>6, <1>c DEF SaveFill, memory
  <1>7. CASE SaveOrder(v)
    <2>0. c.pc = "order"
      BY <1>7 DEF SaveOrder
    <2>1. PICK o \in Orders : o = c.fill.order
      BY <2>0, FillOrders
    <2>2. book[o].at = v /\ book[o].at # NoVenue /\ stage[o] # "gone"
      BY <2>0, <2>1, FillOrders, VenueAssumption
    <2>3. /\ UNCHANGED <<order, stage, arg, book, feed, tracked, pricer, pos, fills, late>>
          /\ rows' = [rows EXCEPT ![o] = order[o]] \/ rows' = rows
      BY <1>7, <2>1 DEF SaveOrder, memory
    <2>4. /\ \A p \in Orders : p # o => rows'[p] = rows[p]
          /\ rows'[o] \in {order[o], rows[o]}
      BY <2>1, <2>3 DEF IInv, TypeOK
    <2>5. /\ \A u \in Venues : u # v => coll'[u] = coll[u]
          /\ \/ coll'[v].pc = "read" /\ coll'[v].fill = c.fill /\ coll'[v].row = c.row
             \/ coll'[v] = Idle
      BY <1>0, <1>7 DEF SaveOrder
    <2>6. ASSUME NEW p \in Orders PROVE StageInv(p)' /\ RecordInv(p)' /\ LateInv(p)'
      <3>0. StageInv(p) /\ RecordInv(p) /\ LateInv(p) /\ OrderInv(p)
        BY DEF BooksInv, IInv, PipelineInv
      <3>1. CASE p # o
        BY <2>3, <2>4, <3>0, <3>1 DEF StageInv, RecordInv, LateInv
      <3>2. CASE p = o
        <4>1. /\ order[o].status \in {"PartiallyFilled", "Filled"}
              /\ order[o].filled \in Nat
          BY <1>e, <2>0, <2>1, OrderFields DEF ExecutionInv, IInv
        <4>2. stage[o] \in Sent /\ (stage[o] \in {"rejArgs", "rejSave"} => o \in late)
          BY <2>2, <3>0, <3>2 DEF OrderInv, RecordInv
        <4>3. StageInv(p)'
          BY <2>2, <2>3, <3>2, <4>2 DEF StageInv, Waiting, Sent
        <4>4. RecordInv(p)'
          BY <2>2, <2>3, <2>4, <3>0, <3>2, <4>1, <4>2 DEF RecordInv, Sent, Live
        <4>5. LateInv(p)'
          BY <2>3, <2>4, <3>0, <3>2, <4>1 DEF LateInv, Live
        <4> QED BY <4>3, <4>4, <4>5
      <3> QED BY <3>1, <3>2
    <2>7. ASSUME NEW u \in Venues PROVE ExecutionInv(u)'
      <3>1. CASE u # v
        <4>1. coll[u].pc # "idle" => coll[u].fill.order \in Orders /\ coll[u].fill.order # o
          BY <2>2, <3>1, FillOrders
        <4>2. coll[u].pc \in {"fill", "order"} =>
                 rows'[coll[u].fill.order] = rows[coll[u].fill.order]
          BY <2>4, <4>1
        <4> QED BY <1>e, <2>3, <2>5, <3>1, <4>2 DEF ExecutionInv
      <3>2. CASE u = v
        BY <1>e, <2>0, <2>3, <2>5, <3>2 DEF ExecutionInv, Idle
      <3> QED BY <3>1, <3>2
    <2> QED BY <1>f, <2>6, <2>7 DEF BooksInv
  <1>8. CASE ReadPosition(v)
    <2>1. UNCHANGED <<order, stage, arg, rows, book, feed, late>>
      BY <1>8 DEF ReadPosition, memory, tables
    <2>2. /\ \A u \in Venues : u # v => coll'[u] = coll[u]
          /\ c.pc = "read" /\ coll'[v].pc = "write" /\ coll'[v].fill = c.fill
      BY <1>0, <1>8 DEF ReadPosition
    <2> QED BY <1>c, <2>1, <2>2
  <1>9. CASE SavePosition(v)
    <2>1. /\ UNCHANGED <<order, stage, arg, rows, book, feed, late>>
          /\ coll' = [coll EXCEPT ![v] = Idle]
      BY <1>9 DEF SavePosition
    <2>2. \A u \in Venues : coll'[u] \in {coll[u], Idle}
      BY <1>0, <2>1
    <2> QED BY <1>c, <2>1, <2>2
  <1> QED BY <1>1, <1>2, <1>4, <1>5, <1>6, <1>7, <1>8, <1>9 DEF VenueStep

\* A restart keeps the invariant: the records in memory and the channels are
\* empty, and the table still agrees with itself.
LEMMA RestartBooks ==
  ASSUME IInv, BooksInv, Restart
  PROVE  BooksInv'
  <1>1. \A o \in Orders : book'[o].at = book[o].at
    BY DEF Restart, IInv, TypeOK
  <1>2. rows' = rows /\ late' = late
    BY DEF Restart, tables
  <1>3. ASSUME NEW o \in Orders PROVE StageInv(o)' /\ RecordInv(o)' /\ LateInv(o)'
    <2>1. order'[o] = NoOrder
      BY DEF Restart
    <2>2. stage'[o] \in {"none", "gone"} /\ (stage'[o] = "none" => stage[o] = "none")
      BY DEF Restart
    <2>3. StageInv(o) /\ RecordInv(o) /\ OrderInv(o)
      BY DEF BooksInv, IInv, PipelineInv
    <2>4. stage'[o] = "none" => book'[o].at = NoVenue
      BY <1>1, <2>2, <2>3 DEF OrderInv, Sent
    <2>5. StageInv(o)' /\ RecordInv(o)'
      BY <1>1, <1>2, <2>1, <2>2, <2>3, <2>4
         DEF StageInv, RecordInv, Waiting, NoOrder, WellFormed
    <2>6. LateInv(o)'
      BY <1>1, <1>2, <2>2, <2>3, <2>4 DEF LateInv, OrderInv
    <2> QED BY <2>5, <2>6
  <1>4. ASSUME NEW v \in Venues PROVE ExecutionInv(v)'
    <2>1. feed'[v] = << >> /\ coll'[v] = Idle
      BY DEF Restart
    <2>2. \A i \in 1 .. Len(feed'[v]) : FALSE
      BY <2>1
    <2> QED BY <2>1, <2>2 DEF ExecutionInv, Idle
  <1> QED BY <1>3, <1>4, RestartFills DEF BooksInv

\* The invariant holds initially.
LEMMA InitBooks == Init => BooksInv
  <1> SUFFICES ASSUME Init PROVE BooksInv
    OBVIOUS
  <1>1. ASSUME NEW o \in Orders PROVE StageInv(o) /\ RecordInv(o) /\ LateInv(o)
    BY DEF Init, StageInv, RecordInv, LateInv, Waiting, NoOrder, WellFormed, Unknown
  <1>2. ASSUME NEW v \in Venues PROVE ExecutionInv(v)
    <2>1. feed[v] = << >> /\ coll[v] = Idle
      BY DEF Init
    <2>2. \A i \in 1 .. Len(feed[v]) : FALSE
      BY <2>1
    <2> QED BY <2>1, <2>2 DEF ExecutionInv, Idle
  <1> QED BY <1>1, <1>2, InitFills DEF BooksInv

\* The invariant is inductive, together with that of the pipeline.
LEMMA NextBooks ==
  ASSUME IInv, BooksInv, [Next]_vars
  PROVE  BooksInv'
  <1>1. ASSUME NEW o \in Orders, OrderStep(o) PROVE BooksInv'
    <2>1. CASE \E q \in 1 .. book[o].left : VenueFill(o, q) \/ LoseFill(o, q)
      BY <2>1, ExecutionBooks
    <2>2. CASE ~ \E q \in 1 .. book[o].left : VenueFill(o, q) \/ LoseFill(o, q)
      BY <1>1, <2>2, OrderStepBooks
    <2> QED BY <2>1, <2>2
  <1>2. ASSUME NEW v \in Venues, VenueStep(v) PROVE BooksInv'
    BY <1>2, VenueStepBooks
  <1>3. ASSUME Restart PROVE BooksInv'
    BY <1>3, RestartBooks
  <1>4. ASSUME UNCHANGED vars PROVE BooksInv'
    <2>1. UNCHANGED <<order, tracked, stage, arg, rows, fills, pos, book, feed, coll,
                      pricer, late>>
      BY <1>4 DEF vars
    <2>2. \A v \in Venues : ExecutionInv(v)'
      BY <2>1 DEF BooksInv, ExecutionInv
    <2>3. FillsInv'
      BY <1>4, NextFills DEF BooksInv
    <2> QED BY <2>1, <2>2, <2>3, BookkeepingBooks
  <1> QED BY <1>1, <1>2, <1>3, <1>4 DEF Next

-----------------------------------------------------------------------------
\* Theorems

\* The inductive invariant of the books holds of every behaviour.
THEOREM BooksInvariance == Spec => []BooksInv
  <1>1. IInv /\ BooksInv /\ [Next]_vars => BooksInv'
    BY NextBooks
  <1> QED BY <1>1, InitBooks, Invariance, PTL DEF Spec

\* Whatever calls fail, SubmitOrder for an order that its venue has included,
\* every order object agrees with itself: nothing is filled before the first
\* fill and Filled is exactly "the whole quantity is filled", although
\* venueDispatch may reject the order while processFill fills it.  So does every
\* row, unless SubmitOrder failed late for its order.
THEOREM RecordsAgree == Spec => []OrdersWellFormed
  <1>1. BooksInv => OrdersWellFormed
    BY DEF BooksInv, RecordInv, OrdersWellFormed
  <1> QED BY <1>1, BooksInvariance, PTL

\* The fill collector never has to drop a fill of an order in orderMap, unless a
\* late failure of SubmitOrder rejected the order: neither error return of
\* Order.ApplyFill is taken, at any lag between the venue and the collector.
THEOREM NoTrackedFillDropped == Spec => []TrackedFillsApply
  <1>1. IInv /\ BooksInv => TrackedFillsApply
    <2> SUFFICES ASSUME IInv, BooksInv, NEW v \in Venues, feed[v] # << >>,
                        Head(feed[v]).order \in tracked
                 PROVE  LET f == Head(feed[v]) IN
                        CanFill(order[f.order], f.qty)
                          \/ (f.order \in late /\ order[f.order].status = "Rejected")
      BY DEF TrackedFillsApply
    <2>1. stage[Head(feed[v]).order] # "gone"
      BY DEF BooksInv, FillsInv, FilledInv, IInv, TypeOK
    <2> QED BY <2>1, HeadFits DEF Live
  <1> QED BY <1>1, BooksInvariance, Invariance, PTL

-----------------------------------------------------------------------------
\* The orders table implements the order lifecycle

\* A row that moves to a status the lifecycle allows next, with a filled quantity
\* that is not less and fits, and nothing else, advances.
LEMMA RowAdvances ==
  ASSUME NEW o \in Orders, NEW row \in OrderRecord,
         rows \in [Orders -> OrderRecord], rows' = [rows EXCEPT ![o] = row],
         row.status \in Lifecycle!Later(rows[o].status),
         row.qty = rows[o].qty, row.venue = rows[o].venue,
         rows[o].filled <= row.filled, row.filled <= rows[o].qty,
         row.status = "Filled" <=> row.filled = rows[o].qty
  PROVE  Lifecycle!Next
  <1>1. rows'[o] = row
    OBVIOUS
  <1>2. row.filled \in rows[o].filled .. rows[o].qty
    BY DEF OrderRecord
  <1>3. [rows[o] EXCEPT !.status = row.status, !.filled = row.filled,
                        !.venue = IF rows[o].status = "New" THEN row.venue ELSE @] = row
    BY DEF OrderRecord
  <1>4. rows' = [rows EXCEPT ![o].status = row.status, ![o].filled = row.filled,
                             ![o].venue = IF rows[o].status = "New" THEN row.venue ELSE @]
    BY <1>3
  <1>5. Lifecycle!Advance(o)
    BY <1>1, <1>2, <1>4 DEF Lifecycle!Advance
  <1> QED BY <1>5 DEF Lifecycle!Next

\* A row with a live status, of an order in doubt, that gets a status with a fill
\* and any filled quantity that fits, is revised.
LEMMA RowRevised ==
  ASSUME NEW o \in Orders, NEW row \in OrderRecord, o \in late,
         rows \in [Orders -> OrderRecord], rows' = [rows EXCEPT ![o] = row],
         rows[o].status \in Live, row.status \in {"PartiallyFilled", "Filled"},
         row.qty = rows[o].qty, row.venue = rows[o].venue,
         row.filled <= rows[o].qty
  PROVE  Lifecycle!Next
  <1>1. rows'[o] = row
    OBVIOUS
  <1>2. row.filled \in 0 .. rows[o].qty
    BY DEF OrderRecord
  <1>3. [rows[o] EXCEPT !.status = row.status, !.filled = row.filled] = row
    BY DEF OrderRecord
  <1>4. rows' = [rows EXCEPT ![o].status = row.status, ![o].filled = row.filled]
    BY <1>3
  <1>5. Lifecycle!Revise(o)
    BY <1>1, <1>2, <1>4 DEF Lifecycle!Revise, Live
  <1> QED BY <1>5 DEF Lifecycle!Next

\* A step of an order moves its row as the lifecycle allows, or leaves it alone.
LEMMA OrderStepLifecycle ==
  ASSUME IInv, BooksInv, NEW o \in Orders, OrderStep(o)
  PROVE  Lifecycle!Next \/ rows' = rows
  <1>0. TypeOK /\ StageInv(o) /\ RecordInv(o) /\ LateInv(o) /\ OrderInv(o)
    BY DEF IInv, PipelineInv, BooksInv
  <1>1. /\ rows \in [Orders -> OrderRecord]
        /\ order[o] \in OrderRecord /\ rows[o] \in OrderRecord
        /\ order[o].filled \in Nat /\ order[o].qty \in Nat /\ rows[o].filled \in Nat
    BY <1>0 DEF TypeOK, OrderRecord
  <1>2. ASSUME NEW q \in Quantities, NEW v \in Venues \cup {NoVenue}, Submit(o, q, v)
        PROVE  Lifecycle!Next
    <2>1. /\ q > 0 /\ rows[o] = NoOrder
          /\ rows' = [rows EXCEPT ![o] = NewOrder(q, v)]
      BY <1>0, <1>2 DEF Submit, StageInv
    <2>2. rows'[o] = NewOrder(q, v)
      BY <1>1, <2>1
    <2>3. NewOrder(q, v).qty = q /\ NewOrder(q, v).venue = v
      BY DEF NewOrder
    <2>4. Lifecycle!Create(o)
      BY <2>1, <2>2, <2>3 DEF Lifecycle!Create, Lifecycle!NoOrder, Lifecycle!NewOrder,
                              NoOrder, NewOrder
    <2> QED BY <2>4 DEF Lifecycle!Next
  \* A rejection before the order reaches a dispatcher.
  <1>r. ASSUME stage[o] \in Waiting, Reject(o)
        PROVE  Lifecycle!Next \/ rows' = rows
    <2> DEFINE ord == [order[o] EXCEPT !.status = "Rejected"]
    <2>1. /\ order[o].status = "New" /\ rows[o] = order[o]
          /\ order[o].qty > 0
      BY <1>0, <1>r DEF StageInv, RecordInv, Waiting
    <2>2. Transition(order[o], "Rejected") = ord /\ order[o].filled = 0
      BY <1>0, <1>1, <2>1, TransitionRecord DEF RecordInv
    <2>3. rows' = [rows EXCEPT ![o] = ord] \/ rows' = rows
      BY <1>r, <2>2 DEF Reject
    <2>4. /\ ord \in OrderRecord /\ ord.status = "Rejected" /\ ord.qty = order[o].qty
          /\ ord.venue = order[o].venue /\ ord.filled = order[o].filled
      BY <1>1 DEF OrderRecord, Statuses
    <2> HIDE DEF ord
    <2>5. ord.status \in Lifecycle!Later(rows[o].status)
      BY <2>1, <2>4 DEF Lifecycle!Later
    <2> QED BY <1>1, <2>1, <2>2, <2>3, <2>4, <2>5, RowAdvances
  <1>3. CASE RiskReject(o)
    BY <1>3, <1>r DEF RiskReject, Waiting
  <1>4. CASE RejectDisconnected(o)
    BY <1>4, <1>r DEF RejectDisconnected, Waiting
  <1>5. CASE Route(o)
    <2> DEFINE ord == [order[o] EXCEPT !.venue = Target(o)]
    <2>1. order[o].status = "New" /\ rows[o] = order[o]
      BY <1>0, <1>5 DEF Route, StageInv, Waiting
    <2>2. order' = [order EXCEPT ![o] = ord]
      BY <1>5 DEF Route
    <2>3. order'[o] = ord
      BY <1>0, <2>2 DEF TypeOK
    <2>4. rows' = [rows EXCEPT ![o] = ord] \/ rows' = rows
      BY <1>5, <2>3 DEF Route
    <2>5. ASSUME rows' = [rows EXCEPT ![o] = ord] PROVE Lifecycle!AssignVenue(o)
      <3>1. rows'[o] = ord /\ ord = [rows[o] EXCEPT !.venue = Target(o)] /\ ord.venue = Target(o)
        BY <1>1, <2>1, <2>5 DEF OrderRecord
      <3> QED BY <2>1, <2>5, <3>1 DEF Lifecycle!AssignVenue
    <2> QED BY <2>4, <2>5 DEF Lifecycle!Next
  <1>6. CASE SaveAck(o)
    <2>1. /\ order[o].status = "Acknowledged" /\ rows[o] = [order[o] EXCEPT !.status = "New"]
          /\ order[o].qty > 0
      BY <1>0, <1>6 DEF SaveAck, StageInv, RecordInv
    <2>2. /\ rows[o].status = "New" /\ rows[o].qty = order[o].qty /\ order[o].filled = 0
          /\ rows[o].venue = order[o].venue /\ rows[o].filled = order[o].filled
      BY <1>0, <1>1, <2>1 DEF OrderRecord, RecordInv, WellFormed
    <2>3. order[o].status \in Lifecycle!Later(rows[o].status)
      BY <2>1, <2>2 DEF Lifecycle!Later
    <2>4. rows' = [rows EXCEPT ![o] = order[o]] \/ rows' = rows
      BY <1>6 DEF SaveAck
    <2>5. /\ rows[o].filled <= order[o].filled /\ order[o].filled <= rows[o].qty
          /\ (order[o].status = "Filled" <=> order[o].filled = rows[o].qty)
      BY <1>1, <2>1, <2>2
    <2> QED BY <1>1, <2>2, <2>3, <2>4, <2>5, RowAdvances
  <1>7. CASE SaveRejected(o)
    <2> DEFINE row == [rows[o] EXCEPT !.status = arg[o].status, !.filled = arg[o].filled]
    <2>1. /\ stage[o] = "rejSave"
          /\ rows' = [rows EXCEPT ![o] = row] \/ rows' = rows
      BY <1>7 DEF SaveRejected
    <2>2. /\ row \in OrderRecord /\ row.status = arg[o].status /\ row.filled = arg[o].filled
          /\ row.qty = rows[o].qty /\ row.venue = rows[o].venue /\ rows[o].qty \in Nat
          /\ arg[o].filled \in Nat
      BY <1>0, <1>1, OrderFields DEF OrderRecord
    <2>3. rows[o].qty = order[o].qty /\ rows[o].qty > 0
      BY <1>0, <2>1 DEF RecordInv
    \* The row of a live order becomes Rejected before anything was filled.
    <2>4. ASSUME arg[o].status = "Rejected", arg[o].filled = 0,
                 rows[o].status = "Acknowledged", rows[o].filled = 0,
                 rows' = [rows EXCEPT ![o] = row]
          PROVE  Lifecycle!Next
      <3> HIDE DEF row
      <3>1. row.status \in Lifecycle!Later(rows[o].status)
        BY <2>2, <2>4 DEF Lifecycle!Later
      <3>2. /\ rows[o].filled <= row.filled /\ row.filled <= rows[o].qty
            /\ (row.status = "Filled" <=> row.filled = rows[o].qty)
        BY <2>2, <2>3, <2>4
      <3> QED BY <1>1, <2>2, <2>4, <3>1, <3>2, RowAdvances
    <2>5. CASE o \notin late
      <3>1. /\ arg[o].status = "Rejected" /\ arg[o].filled = 0
            /\ rows[o].status = "Acknowledged" /\ rows[o].filled = 0
        BY <1>0, <2>1, <2>5 DEF StageInv, RecordInv, WellFormed
      <3> QED BY <2>1, <2>4, <3>1
    <2>6. CASE o \in late
      <3>1. /\ arg[o].status \in {"PartiallyFilled", "Filled", "Rejected"}
            /\ arg[o].status = "Rejected" <=> order[o].status = "Rejected"
            /\ arg[o].filled <= order[o].filled
            /\ order[o].status \in {"PartiallyFilled", "Filled", "Rejected"}
            /\ rows[o].status \in Live \cup {"Rejected"}
            /\ order[o].status = "Rejected" => rows[o].status \in {"Acknowledged", "Rejected"}
            /\ rows[o].status = "Rejected" => order[o].status = "Rejected"
            /\ rows[o].status \in {"Acknowledged", "Rejected"} => rows[o].filled = 0
        BY <1>0, <2>1, <2>6 DEF LateInv
      <3>2. CASE arg[o].status = "Rejected"
        <4>1. order[o].filled = 0
          BY <1>0, <3>1, <3>2 DEF RecordInv, WellFormed
        <4>2. arg[o].filled = 0
          BY <2>2, <3>1, <4>1
        <4>3. CASE rows[o].status = "Acknowledged"
          BY <2>1, <2>4, <3>1, <3>2, <4>2, <4>3
        <4>4. CASE rows[o].status = "Rejected"
          <5>1. row = rows[o]
            BY <1>1, <3>1, <3>2, <4>2, <4>4 DEF OrderRecord
          <5>2. [rows EXCEPT ![o] = rows[o]] = rows
            BY <1>1
          <5> QED BY <2>1, <5>1, <5>2
        <4> QED BY <3>1, <3>2, <4>3, <4>4
      <3>3. CASE arg[o].status # "Rejected"
        <4>1. order[o].status \in {"PartiallyFilled", "Filled"}
          BY <3>1, <3>3
        <4>2. order[o].filled <= order[o].qty
          BY <1>0, <1>1, <4>1 DEF RecordInv, WellFormed
        <4>3. row.filled <= rows[o].qty
          BY <1>1, <2>2, <2>3, <3>1, <4>2
        <4>4. rows[o].status \in Live /\ row.status \in {"PartiallyFilled", "Filled"}
          BY <2>2, <3>1, <3>3
        <4> HIDE DEF row
        <4> QED BY <1>1, <2>1, <2>2, <2>6, <4>3, <4>4, RowRevised
      <3> QED BY <3>2, <3>3
    <2> QED BY <2>5, <2>6
  <1>8. ASSUME NEW q, NEW v, SubmitRefused(o, q, v) PROVE rows' = rows
    BY <1>8 DEF SubmitRefused, tables
  <1>9. CASE Enqueue(o) \/ Abandon(o) \/ Cancel(o) \/ TakeForRisk(o) \/ RiskPass(o)
    BY <1>9 DEF Enqueue, Abandon, Cancel, TakeForRisk, RiskPass, tables
  <1>10. CASE PassVenueCheck(o) \/ Dispatch(o) \/ Acknowledge(o) \/ SubmitOk(o) \/ SubmitError(o)
    BY <1>10 DEF PassVenueCheck, Dispatch, Acknowledge, SubmitOk, SubmitError, tables
  <1>11. CASE ReadStatusArg(o) \/ VenueAccept(o)
    BY <1>11 DEF ReadStatusArg, VenueAccept, tables
  <1>12. ASSUME NEW q, VenueFill(o, q) \/ LoseFill(o, q) PROVE rows' = rows
    BY <1>12 DEF VenueFill, LoseFill, tables
  <1> QED BY <1>2, <1>3, <1>4, <1>5, <1>6, <1>7, <1>8, <1>9, <1>10, <1>11, <1>12
          DEF OrderStep

\* A step of a venue moves a row only when the fill collector saves an order, and
\* then forward.
LEMMA VenueStepLifecycle ==
  ASSUME IInv, BooksInv, NEW v \in Venues, VenueStep(v)
  PROVE  Lifecycle!Next \/ rows' = rows
  <1>1. CASE SaveOrder(v)
    <2>1. coll[v].pc = "order"
      BY <1>1 DEF SaveOrder
    <2>2. PICK o \in Orders : o = coll[v].fill.order
      BY <2>1, FillOrders
    <2>3. /\ book[o].at # NoVenue /\ stage[o] # "gone" /\ coll[v].fill.qty \in Nat
          /\ rows[o].venue = order[o].venue
      BY <2>1, <2>2, FillOrders, VenueAssumption DEF IInv, PipelineInv, OrderInv
    <2>4. order[o].status \in {"PartiallyFilled", "Filled"} /\ coll[v].fill.qty >= 1
      BY <2>1, <2>2 DEF BooksInv, ExecutionInv
    <2>5. WellFormed(order[o]) /\ order[o].qty > 0 /\ rows[o].qty = order[o].qty
      <3>1. stage[o] \notin {"none", "refused", "gone"}
        BY <2>3 DEF IInv, PipelineInv, OrderInv, Sent
      <3> QED BY <3>1 DEF BooksInv, RecordInv
    <2>6. /\ rows \in [Orders -> OrderRecord] /\ order[o] \in OrderRecord
          /\ order[o].filled \in Nat /\ order[o].qty \in Nat /\ rows[o].filled \in Nat
      BY DEF IInv, TypeOK, OrderRecord
    <2>7. /\ order[o].filled <= rows[o].qty
          /\ (order[o].status = "Filled" <=> order[o].filled = rows[o].qty)
      BY <2>4, <2>5, <2>6 DEF WellFormed
    <2>8. rows' = [rows EXCEPT ![o] = order[o]] \/ rows' = rows
      BY <1>1, <2>2 DEF SaveOrder
    <2>9. CASE o \notin late
      <3>1. /\ rows[o].filled + coll[v].fill.qty <= order[o].filled
            /\ WellFormed(rows[o]) /\ rows[o].status \in Live
        BY <2>1, <2>2, <2>3, <2>9 DEF BooksInv, ExecutionInv, RecordInv
      <3>2. rows[o].filled < order[o].filled
        BY <2>3, <2>4, <2>6, <3>1
      <3>3. rows[o].status \in {"Acknowledged", "PartiallyFilled"}
        BY <2>5, <2>6, <2>7, <3>1, <3>2 DEF Live, WellFormed
      <3>4. order[o].status \in Lifecycle!Later(rows[o].status)
        BY <2>4, <3>3 DEF Lifecycle!Later
      <3> QED BY <2>3, <2>5, <2>6, <2>7, <2>8, <3>2, <3>4, RowAdvances
    <2>10. CASE o \in late
      <3>1. rows[o].status \in Live
        BY <2>3, <2>4, <2>10 DEF BooksInv, LateInv
      <3> QED BY <2>3, <2>4, <2>5, <2>6, <2>7, <2>8, <2>10, <3>1, RowRevised
    <2> QED BY <2>9, <2>10
  <1>2. CASE Connect(v) \/ Disconnect(v) \/ TakeFill(v) \/ DropFill(v)
    BY <1>2 DEF Connect, Disconnect, TakeFill, DropFill, tables
  <1>3. CASE SaveFill(v) \/ ReadPosition(v) \/ SavePosition(v)
    BY <1>3 DEF SaveFill, ReadPosition, SavePosition, tables
  <1>4. CASE ReadForPrice(v) \/ SavePrice(v)
    BY <1>4 DEF ReadForPrice, SavePrice, tables
  <1> QED BY <1>1, <1>2, <1>3, <1>4 DEF VenueStep

\* The pipeline implements the order lifecycle: whatever calls fail and whenever
\* the gateway restarts, the orders table, as REST clients poll it, creates a
\* row once, gives it a venue only while it is New, moves it forward through the
\* status machine, never takes filled quantity back, and leaves it alone once it
\* is Filled or Rejected.  Only after a late failure of SubmitOrder, when
\* UpdateOrder writes what it read of the order before the last fill, may the row
\* of that order step back; it never goes between a fill and a rejection.
THEOREM TableFollowsLifecycle == Spec => RowsFollowLifecycle
  <1>1. Init => Lifecycle!Init
    BY DEF Init, Lifecycle!Init, NoOrder, Lifecycle!NoOrder
  <1>2. IInv /\ BooksInv /\ [Next]_vars => [Lifecycle!Next]_rows
    <2> SUFFICES ASSUME IInv, BooksInv, [Next]_vars
                 PROVE  Lifecycle!Next \/ rows' = rows
      OBVIOUS
    <2>1. ASSUME NEW o \in Orders, OrderStep(o) PROVE Lifecycle!Next \/ rows' = rows
      BY <2>1, OrderStepLifecycle
    <2>2. ASSUME NEW v \in Venues, VenueStep(v) PROVE Lifecycle!Next \/ rows' = rows
      BY <2>2, VenueStepLifecycle
    <2>3. CASE Restart \/ UNCHANGED vars
      BY <2>3 DEF Restart, vars, tables
    <2> QED BY <2>1, <2>2, <2>3 DEF Next
  <1> QED BY <1>1, <1>2, Invariance, BooksInvariance, PTL
          DEF Spec, RowsFollowLifecycle, Lifecycle!Spec

-----------------------------------------------------------------------------
\* Terminal events

Terminal == {"order_filled", "order_rejected"}

\* The events that end an order; after a late failure of SubmitOrder an order
\* that is full may be announced twice.
Ends(o) == IF o \in late THEN {"order_rejected"} ELSE Terminal

\* A list of events without one of T, and one that ends with it if it has one.
Going(s, T) == \A i \in 1 .. Len(s) : s[i] \notin T
EndsWell(s, T) == \A i \in 1 .. Len(s) : s[i] \in T => i = Len(s)

\* Appending to a list without a terminal event.
LEMMA AppendEnds ==
  ASSUME NEW T, NEW s \in Seq(Events), NEW t \in Seq(Events), Going(s, T)
  PROVE  /\ s \o t \in Seq(Events)
         /\ Going(t, T) => Going(s \o t, T)
         /\ EndsWell(t, T) => EndsWell(s \o t, T)
  <1>1. s \o t \in Seq(Events) /\ Len(s \o t) = Len(s) + Len(t)
    OBVIOUS
  <1>2. ASSUME NEW i \in 1 .. Len(s \o t), (s \o t)[i] \in T
        PROVE  /\ i - Len(s) \in 1 .. Len(t)
               /\ t[i - Len(s)] \in T
    <2>1. CASE i <= Len(s)
      BY <1>2, <2>1 DEF Going
    <2>2. CASE i > Len(s)
      BY <1>2, <2>2
    <2> QED BY <2>1, <2>2
  <1>3. ASSUME Going(t, T), NEW i \in 1 .. Len(s \o t)
        PROVE  (s \o t)[i] \notin T
    BY <1>2, <1>3 DEF Going
  <1>4. ASSUME EndsWell(t, T), NEW i \in 1 .. Len(s \o t), (s \o t)[i] \in T
        PROVE  i = Len(s \o t)
    <2>1. i - Len(s) = Len(t)
      BY <1>2, <1>4 DEF EndsWell
    <2> QED BY <1>1, <2>1
  <1> QED BY <1>1, <1>3, <1>4 DEF Going, EndsWell

\* Lists of at most one event.
LEMMA OneEventEnds ==
  ASSUME NEW T, NEW e \in Events
  PROVE  /\ EndsWell(<<e>>, T) /\ EndsWell(<< >>, T) /\ Going(<< >>, T)
         /\ e \notin T => Going(<<e>>, T)
  BY DEF EndsWell, Going

\* The event of a status is terminal for Filled and Rejected only.
LEMMA EventsOfEnds ==
  ASSUME NEW T \in SUBSET Terminal, NEW status \in Statuses \cup {"None"}
  PROVE  /\ EndsWell(EventsOf(status), T)
         /\ status \notin {"Filled", "Rejected"} => Going(EventsOf(status), T)
  <1>1. CASE status \in {"None", "PartiallyFilled"}
    <2>1. EventsOf(status) = << >>
      BY <1>1 DEF EventsOf
    <2> QED BY <2>1, OneEventEnds DEF Events
  <1>2. ASSUME NEW e \in Events, EventsOf(status) = <<e>>,
               status \notin {"Filled", "Rejected"} => e \notin Terminal
        PROVE  /\ EndsWell(EventsOf(status), T)
               /\ status \notin {"Filled", "Rejected"} => Going(EventsOf(status), T)
    BY <1>2, OneEventEnds
  <1>3. CASE status = "New"
    BY <1>2, <1>3 DEF EventsOf, Events, Terminal
  <1>4. CASE status = "Acknowledged"
    BY <1>2, <1>4 DEF EventsOf, Events, Terminal
  <1>5. CASE status = "Filled"
    BY <1>2, <1>5 DEF EventsOf, Events, Terminal
  <1>6. CASE status = "Canceled"
    BY <1>2, <1>6 DEF EventsOf, Events, Terminal
  <1>7. CASE status = "Rejected"
    BY <1>2, <1>7 DEF EventsOf, Events, Terminal
  <1> QED BY <1>1, <1>3, <1>4, <1>5, <1>6, <1>7 DEF Statuses

\* processFill publishes the terminal event last, and only of a full order.
LEMMA FillEventsEnds ==
  ASSUME NEW T \in SUBSET Terminal, NEW a, NEW b, NEW full
  PROVE  /\ EndsWell(FillEvents(a, b, full), T)
         /\ ~full => Going(FillEvents(a, b, full), T)
  <1> DEFINE x == IF a THEN <<"fill_received">> ELSE <<>>
             y == IF b /\ full THEN <<"order_filled">> ELSE <<>>
  <1>0. /\ "fill_received" \in Events /\ "fill_received" \notin T
        /\ "order_filled" \in Events
    BY DEF Events, Terminal
  <1>1. x \in Seq(Events) /\ Going(x, T)
    <2>1. <<"fill_received">> \in Seq(Events) /\ << >> \in Seq(Events)
      BY <1>0, OneEvent
    <2>2. Going(<<"fill_received">>, T) /\ Going(<< >>, T)
      BY <1>0, OneEventEnds
    <2> QED BY <2>1, <2>2
  <1>2. y \in Seq(Events) /\ EndsWell(y, T) /\ (~full => Going(y, T))
    <2>1. <<"order_filled">> \in Seq(Events) /\ << >> \in Seq(Events)
      BY <1>0, OneEvent
    <2>2. EndsWell(<<"order_filled">>, T) /\ EndsWell(<< >>, T) /\ Going(<< >>, T)
      BY <1>0, OneEventEnds
    <2> QED BY <2>1, <2>2
  <1>3. FillEvents(a, b, full) = x \o y
    BY DEF FillEvents
  <1> HIDE DEF x, y
  <1> QED BY <1>1, <1>2, <1>3, AppendEnds

\* Without a terminal event of an order in doubt, there is no rejection.
LEMMA GoingRejection ==
  ASSUME NEW s
  PROVE  Going(s, {"order_rejected"}) <=> NoRejection(s)
  BY DEF Going, NoRejection

\* Nothing more is published of the order: it was rejected and no venue has it,
\* or it was rejected late; it is full and no collector is booking a fill of it;
\* or it is gone.
Closed(o) ==
  \/ stage[o] = "gone"
  \/ stage[o] = "done" /\ book[o].at = NoVenue
  \/ stage[o] = "done" /\ o \in late /\ order[o].status = "Rejected"
  \/ /\ stage[o] \in {"calling", "done"} /\ o \notin late
     /\ book[o].at # NoVenue
     /\ order[o].status = "Filled"
     /\ \A v \in Venues : coll[v].pc # "idle" => coll[v].fill.order # o

TopicInv(o) == /\ EndsWell(topic[o], Ends(o))
               /\ Going(topic[o], Ends(o)) \/ Closed(o)

EventsInv == \A o \in Orders : TopicInv(o)

\* notifyOrderUpdate for an order without a terminal event yet.
LEMMA NotifyEnds ==
  ASSUME topic \in [Orders -> Seq(Events)], NEW o \in Orders, Going(topic[o], Ends(o)),
         NEW s \in Statuses \cup {"None"}, Notify(o, s)
  PROVE  /\ EndsWell(topic'[o], Ends(o))
         /\ s \notin {"Filled", "Rejected"} => Going(topic'[o], Ends(o))
         /\ o \in late /\ s # "Rejected" => Going(topic'[o], Ends(o))
         /\ \A p \in Orders : p # o => topic'[p] = topic[p]
  <1>0. Ends(o) \in SUBSET Terminal
    BY DEF Ends, Terminal
  <1>1. topic[o] \in Seq(Events) /\ EndsWell(topic[o], Ends(o))
    BY DEF Going, EndsWell
  <1>2. CASE topic' = topic
    BY <1>1, <1>2
  <1>3. CASE topic' = [topic EXCEPT ![o] = @ \o EventsOf(s)]
    <2>1. topic'[o] = topic[o] \o EventsOf(s) /\ EventsOf(s) \in Seq(Events)
      BY <1>3, EventsOfResult
    <2>2. /\ EndsWell(EventsOf(s), Ends(o))
          /\ s \notin {"Filled", "Rejected"} => Going(EventsOf(s), Ends(o))
      BY <1>0, EventsOfEnds
    <2>3. o \in late /\ s # "Rejected" => Going(EventsOf(s), Ends(o))
      BY EventsOfResult, GoingRejection DEF Ends
    <2>4. /\ EndsWell(topic[o] \o EventsOf(s), Ends(o))
          /\ Going(EventsOf(s), Ends(o)) => Going(topic[o] \o EventsOf(s), Ends(o))
      BY <1>1, <2>1, <2>2, AppendEnds
    <2> QED BY <1>3, <2>1, <2>2, <2>3, <2>4
  <1> QED BY <1>2, <1>3 DEF Notify

\* A step of one order keeps the events of the others.
LEMMA OneOrderEvents ==
  ASSUME EventsInv, NEW o \in Orders, OnlyOrder(o), coll' = coll, TopicInv(o)',
         \A p \in Orders : p # o => topic'[p] = topic[p]
  PROVE  EventsInv'
  <1> SUFFICES ASSUME NEW p \in Orders, p # o PROVE TopicInv(p)'
    BY DEF EventsInv
  <1>1. /\ order'[p] = order[p] /\ stage'[p] = stage[p] /\ book'[p] = book[p]
        /\ topic'[p] = topic[p] /\ (p \in late') = (p \in late)
    BY DEF OnlyOrder
  <1>2. Ends(p)' = Ends(p)
    BY <1>1 DEF Ends
  <1>3. Closed(p) => Closed(p)'
    BY <1>1 DEF Closed
  <1> QED BY <1>1, <1>2, <1>3 DEF EventsInv, TopicInv

\* A step that publishes nothing, and closes no order that was closed.
LEMMA SilentEvents ==
  ASSUME EventsInv, UNCHANGED <<topic, late>>, \A p \in Orders : Closed(p) => Closed(p)'
  PROVE  EventsInv'
  BY DEF EventsInv, TopicInv, Ends

\* Every step of an order keeps the invariant.
LEMMA OrderStepEvents ==
  ASSUME IInv, BooksInv, RejectionInv, EventsInv, NEW o \in Orders, OrderStep(o)
  PROVE  EventsInv'
  <1>0. TypeOK /\ StageInv(o) /\ RecordInv(o) /\ OrderInv(o) /\ TopicInv(o)
    BY DEF IInv, PipelineInv, BooksInv, EventsInv
  <1>00. order[o] \in OrderRecord /\ order[o].status \in Statuses \cup {"None"}
    BY <1>0 DEF TypeOK, OrderRecord
  \* A step that moves an order that is not closed and publishes nothing.
  <1>m. ASSUME ~Closed(o), UNCHANGED <<topic, late>>, UNCHANGED <<coll, book>>,
               \A p \in Orders : p # o => order'[p] = order[p] /\ stage'[p] = stage[p]
        PROVE  EventsInv'
    <2>1. ASSUME NEW p \in Orders, Closed(p) PROVE Closed(p)'
      BY <1>m, <2>1 DEF Closed
    <2> QED BY <1>m, <2>1, SilentEvents
  <1>1. ASSUME NEW q \in Quantities, NEW v \in Venues \cup {NoVenue}, Submit(o, q, v)
        PROVE  EventsInv'
    BY <1>0, <1>1, <1>m DEF Submit, MoveTo, TypeOK, Closed
  <1>2. ASSUME NEW q \in Quantities, NEW v \in Venues \cup {NoVenue}, SubmitRefused(o, q, v)
        PROVE  EventsInv'
    BY <1>0, <1>2, <1>m DEF SubmitRefused, MoveTo, TypeOK, Closed
  <1>3. CASE Enqueue(o)
    BY <1>0, <1>3, <1>m DEF Enqueue, MoveTo, TypeOK, Closed
  <1>4. CASE Abandon(o)
    BY <1>0, <1>4, <1>m DEF Abandon, MoveTo, TypeOK, Closed
  <1>5. CASE Cancel(o)
    BY <1>5, SilentEvents DEF Cancel, memory, Closed
  <1>6. CASE TakeForRisk(o)
    BY <1>0, <1>6, <1>m DEF TakeForRisk, MoveTo, TypeOK, Closed
  <1>7. CASE RiskPass(o)
    BY <1>0, <1>7, <1>m DEF RiskPass, MoveTo, TypeOK, Closed
  \* A rejection before the order reaches a dispatcher.
  <1>r. ASSUME stage[o] \in Waiting, Reject(o), UNCHANGED <<arg, book, coll, late>>
        PROVE  EventsInv'
    <2> DEFINE s == Transition(order[o], "Rejected").status
    <2>1. book[o].at = NoVenue /\ Going(topic[o], Ends(o))
      BY <1>0, <1>r DEF OrderInv, Sent, Waiting, TopicInv, Closed
    <2>2. s \in Statuses \cup {"None"} /\ Notify(o, s)
      BY <1>00, <1>r, TransitionResult DEF Reject, Statuses
    <2>3. EndsWell(topic'[o], Ends(o)) /\ \A p \in Orders : p # o => topic'[p] = topic[p]
      BY <1>0, <2>1, <2>2, NotifyEnds DEF TypeOK
    <2>4. OnlyOrder(o) /\ stage'[o] = "done"
      BY <1>0, <1>r DEF Reject, MoveTo, OnlyOrder, TypeOK
    <2>5. TopicInv(o)'
      BY <1>r, <2>1, <2>3, <2>4 DEF TopicInv, Closed, Ends
    <2> QED BY <1>r, <2>3, <2>4, <2>5, OneOrderEvents
  <1>8. CASE RiskReject(o)
    BY <1>8, <1>r DEF RiskReject, Waiting
  <1>9. CASE Route(o)
    BY <1>0, <1>9, <1>m DEF Route, MoveTo, TypeOK, Closed
  <1>10. CASE RejectDisconnected(o)
    BY <1>10, <1>r DEF RejectDisconnected, Waiting
  <1>11. CASE PassVenueCheck(o)
    BY <1>0, <1>11, <1>m DEF PassVenueCheck, MoveTo, TypeOK, Closed
  <1>12. CASE Dispatch(o)
    BY <1>0, <1>12, <1>m DEF Dispatch, MoveTo, TypeOK, Closed
  <1>13. CASE Acknowledge(o)
    BY <1>0, <1>13, <1>m DEF Acknowledge, MoveTo, TypeOK, Closed
  <1>14. CASE SaveAck(o)
    <2>1. Going(topic[o], Ends(o)) /\ order[o].status = "Acknowledged"
      BY <1>0, <1>14 DEF SaveAck, StageInv, TopicInv, Closed
    <2>2. /\ OnlyOrder(o) /\ UNCHANGED <<coll, late>>
          /\ Notify(o, order[o].status) \/ topic' = topic
      BY <1>0, <1>14 DEF SaveAck, MoveTo, OnlyOrder, TypeOK
    <2>3. Going(topic'[o], Ends(o)) /\ \A p \in Orders : p # o => topic'[p] = topic[p]
      BY <1>0, <1>00, <2>1, <2>2, NotifyEnds DEF TypeOK
    <2>4. TopicInv(o)'
      BY <2>2, <2>3 DEF TopicInv, Going, EndsWell, Ends
    <2> QED BY <2>2, <2>3, <2>4, OneOrderEvents
  <1>15. CASE SubmitOk(o)
    <2>1. ASSUME NEW p \in Orders, Closed(p) PROVE Closed(p)'
      BY <1>0, <1>15, <2>1 DEF SubmitOk, MoveTo, TypeOK, Closed
    <2> QED BY <1>15, <2>1, SilentEvents DEF SubmitOk
  <1>16. CASE SubmitError(o)
    <2>1. CASE book[o].at = NoVenue
      <3>1. ~Closed(o)
        BY <1>16, <2>1 DEF SubmitError, Closed
      <3> QED BY <1>0, <1>16, <1>m, <2>1, <3>1 DEF SubmitError, MoveTo, TypeOK
    <2>2. CASE book[o].at # NoVenue
      <3>1. o \notin late /\ order[o].status # "Rejected"
        BY <1>0, <1>16, <2>2 DEF SubmitError, OrderInv, RecordInv, Live
      <3>2. ~Doomed(o)
        BY <1>16, <2>2, <3>1 DEF SubmitError, RejectionInv, RejectInv
      <3>3. Going(topic[o], {"order_rejected"})
        BY <3>2, GoingRejection DEF Doomed
      <3>4. Ends(o)' = {"order_rejected"} /\ UNCHANGED <<topic, coll>>
        BY <1>16, <2>2 DEF SubmitError, Ends
      <3>5. TopicInv(o)'
        BY <3>3, <3>4 DEF TopicInv, Going, EndsWell
      <3>7. late' = late \cup {o}
        BY <1>16, <2>2 DEF SubmitError
      <3>6. OnlyOrder(o)
        BY <1>0, <1>16, <3>7 DEF SubmitError, MoveTo, OnlyOrder, TypeOK, tables
      <3> QED BY <3>4, <3>5, <3>6, OneOrderEvents
    <2> QED BY <2>1, <2>2
  <1>17. CASE ReadStatusArg(o)
    BY <1>0, <1>17, <1>m DEF ReadStatusArg, MoveTo, TypeOK, Closed
  <1>18. CASE SaveRejected(o)
    <2>1. Going(topic[o], Ends(o)) /\ (book[o].at = NoVenue \/ o \in late)
      BY <1>0, <1>18 DEF SaveRejected, StageInv, TopicInv, Closed
    <2>2. /\ OnlyOrder(o) /\ UNCHANGED <<order, coll, book, late>> /\ stage'[o] = "done"
          /\ Notify(o, order[o].status)
      BY <1>0, <1>18 DEF SaveRejected, MoveTo, OnlyOrder, TypeOK
    <2>3. /\ EndsWell(topic'[o], Ends(o))
          /\ o \in late /\ order[o].status # "Rejected" => Going(topic'[o], Ends(o))
          /\ \A p \in Orders : p # o => topic'[p] = topic[p]
      BY <1>0, <1>00, <2>1, <2>2, NotifyEnds DEF TypeOK
    <2>5. Ends(o)' = Ends(o)
      BY <2>2 DEF Ends
    <2>6. Closed(o)' \/ Going(topic'[o], Ends(o))
      BY <2>1, <2>2, <2>3 DEF Closed
    <2>4. TopicInv(o)'
      BY <2>3, <2>5, <2>6 DEF TopicInv
    <2> QED BY <2>2, <2>3, <2>4, OneOrderEvents
  <1>19. CASE VenueAccept(o)
    <2>1. ~Closed(o)
      BY <1>19 DEF VenueAccept, Closed
    <2>2. /\ UNCHANGED <<order, stage, coll, topic, late>>
          /\ \A p \in Orders : p # o => book'[p] = book[p]
      BY <1>19 DEF VenueAccept, memory
    <2>3. ASSUME NEW p \in Orders, Closed(p) PROVE Closed(p)'
      BY <2>1, <2>2, <2>3 DEF Closed
    <2> QED BY <2>2, <2>3, SilentEvents
  <1>20. ASSUME NEW q \in 1 .. book[o].left, VenueFill(o, q) \/ LoseFill(o, q)
         PROVE  EventsInv'
    <2>1. \A p \in Orders : book'[p].at = book[p].at
      BY <1>20, ExecutionResult
    <2>2. UNCHANGED <<order, stage, coll, topic, late>>
      BY <1>20 DEF VenueFill, LoseFill, memory
    <2>3. ASSUME NEW p \in Orders, Closed(p) PROVE Closed(p)'
      BY <2>1, <2>2, <2>3 DEF Closed
    <2> QED BY <2>2, <2>3, SilentEvents
  <1> QED BY <1>1, <1>2, <1>3, <1>4, <1>5, <1>6, <1>7, <1>8, <1>9, <1>10, <1>11, <1>12,
             <1>13, <1>14, <1>15, <1>16, <1>17, <1>18, <1>19, <1>20 DEF OrderStep

\* Every step of a venue keeps it too: an order whose fill a collector is booking
\* is not closed, and it is closed when the collector publishes its end.
LEMMA VenueStepEvents ==
  ASSUME IInv, BooksInv, EventsInv, NEW v \in Venues, VenueStep(v)
  PROVE  EventsInv'
  <1>0. coll \in [Venues -> [pc : {"idle", "fill", "order", "read", "write"},
                             fill : Fill \cup {NoFill}, row : SUBSET Fill]]
    BY DEF IInv, TypeOK
  \* The collector goes on with its fill or stops.
  <1>1. ASSUME UNCHANGED <<topic, order, stage, book, late>>,
               \A u \in Venues : coll'[u].pc # "idle" =>
                  coll[u].pc # "idle" /\ coll'[u].fill = coll[u].fill
        PROVE  EventsInv'
    <2>1. ASSUME NEW p \in Orders, Closed(p) PROVE Closed(p)'
      BY <1>1, <2>1 DEF Closed
    <2> QED BY <1>1, <2>1, SilentEvents
  <1>2. CASE Connect(v) \/ Disconnect(v) \/ DropFill(v)
    BY <1>1, <1>2 DEF Connect, Disconnect, DropFill, memory
  <1>3. CASE ReadForPrice(v) \/ SavePrice(v)
    BY <1>1, <1>3 DEF ReadForPrice, SavePrice, memory
  <1>4. CASE SaveFill(v) \/ SaveOrder(v)
    BY <1>0, <1>1, <1>4 DEF SaveFill, SaveOrder, memory, Idle
  <1>5. CASE ReadPosition(v)
    BY <1>0, <1>1, <1>5 DEF ReadPosition, memory
  <1>6. CASE TakeFill(v)
    <2>1. PICK o \in Orders : o = Head(feed[v]).order
      BY <1>6 DEF TakeFill, IInv, TypeOK
    <2>2. /\ UNCHANGED <<topic, stage, book, late>>
          /\ order[o].status \notin {"Filled", "Rejected"} /\ order[o] # NoOrder
          /\ \A p \in Orders : p # o => order'[p] = order[p]
      BY <1>6, <2>1, FillableOrder DEF TakeFill, CanFill, IInv, TypeOK
    <2>3. stage[o] # "gone" /\ book[o].at # NoVenue
      <3>1. stage[o] # "gone"
        BY <2>2 DEF IInv, PipelineInv, OrderInv
      <3> QED BY <1>6, <2>1, <3>1, HeadFits, VenueAssumption DEF TakeFill
    <2>4. \A u \in Venues : coll'[u].pc # "idle" =>
             \/ coll[u].pc # "idle" /\ coll'[u].fill = coll[u].fill
             \/ coll'[u].fill.order = o
      BY <1>0, <1>6, <2>1 DEF TakeFill
    <2>5. ~Closed(o)
      BY <2>2, <2>3 DEF Closed
    <2>6. ASSUME NEW p \in Orders, Closed(p) PROVE Closed(p)'
      BY <2>2, <2>4, <2>5, <2>6 DEF Closed
    <2> QED BY <2>2, <2>6, SilentEvents
  <1>7. CASE SavePosition(v)
    <2>0. coll[v].pc = "write"
      BY <1>7 DEF SavePosition
    <2>1. PICK o \in Orders : o = coll[v].fill.order
      BY <2>0, FillOrders
    <2>2. book[o].at = v /\ book[o].at # NoVenue /\ stage[o] # "gone"
      BY <2>0, <2>1, FillOrders, VenueAssumption
    <2>3. /\ order[o].status # "Rejected"
          /\ o \notin late => stage[o] \in {"calling", "done"}
      BY <2>0, <2>1, <2>2 DEF BooksInv, RecordInv, ExecutionInv
    <2>4. ~Closed(o) /\ Going(topic[o], Ends(o))
      BY <2>0, <2>1, <2>2, <2>3 DEF Closed, EventsInv, TopicInv
    <2>5. UNCHANGED <<order, stage, book, late>> /\ coll' = [coll EXCEPT ![v] = Idle]
      BY <1>7 DEF SavePosition
    <2>6. \A u \in Venues : coll'[u].pc # "idle" =>
             u # v /\ coll[u].pc # "idle" /\ coll'[u].fill = coll[u].fill
      BY <1>0, <2>5 DEF Idle
    <2>7. \A p \in Orders : Closed(p) => Closed(p)'
      BY <2>5, <2>6 DEF Closed
    <2>8. ASSUME order[o].status = "Filled", o \notin late PROVE Closed(o)'
      <3>1. \A u \in Venues : coll'[u].pc # "idle" => coll'[u].fill.order # o
        BY <2>2, <2>6, FillOrders
      <3> QED BY <2>2, <2>3, <2>5, <2>8, <3>1 DEF Closed
    <2>9. CASE topic' = topic
      BY <2>5, <2>7, <2>9, SilentEvents
    <2>10. ASSUME NEW a, NEW b,
                  topic' = [topic EXCEPT ![o] =
                              @ \o FillEvents(a, b, order[o].status = "Filled")]
           PROVE  EventsInv'
      <3> DEFINE t == FillEvents(a, b, order[o].status = "Filled")
      <3>0. Ends(o) \in SUBSET Terminal
        BY DEF Ends, Terminal
      <3>1. /\ t \in Seq(Events) /\ EndsWell(t, Ends(o))
            /\ order[o].status # "Filled" => Going(t, Ends(o))
        BY <3>0, FillEventsResult, FillEventsEnds
      <3>7. o \in late => Going(t, Ends(o))
        BY FillEventsResult, GoingRejection DEF Ends
      <3>2. topic \in [Orders -> Seq(Events)] /\ topic[o] \in Seq(Events)
        BY DEF IInv, TypeOK
      <3> HIDE DEF t
      <3>3. /\ EndsWell(topic[o] \o t, Ends(o))
            /\ order[o].status # "Filled" \/ o \in late => Going(topic[o] \o t, Ends(o))
        BY <2>4, <3>1, <3>2, <3>7, AppendEnds
      <3>4. topic'[o] = topic[o] \o t /\ \A p \in Orders : p # o => topic'[p] = topic[p]
        BY <2>10, <3>2 DEF t
      <3>8. \A p \in Orders : Ends(p)' = Ends(p)
        BY <2>5 DEF Ends
      <3>5. TopicInv(o)'
        BY <2>8, <3>3, <3>4, <3>8 DEF TopicInv
      <3>6. \A p \in Orders : p # o => TopicInv(p)'
        BY <2>7, <3>4, <3>8 DEF EventsInv, TopicInv
      <3> QED BY <3>5, <3>6 DEF EventsInv
    <2> QED BY <1>7, <2>1, <2>9, <2>10 DEF SavePosition
  <1> QED BY <1>2, <1>3, <1>4, <1>5, <1>6, <1>7 DEF VenueStep

\* A terminal event is the last one of its order on the order-lifecycle topic,
\* whatever calls fail and whenever the gateway restarts: an order that was
\* rejected is sent to no venue, or the fills of it are kept out if the venue has
\* it already, and nothing is published of an order after its last fill was booked
\* (notifyOrderUpdate, notifyFillEvent).  Only the dispatcher that meets a late
\* failure of SubmitOrder may notify once more of an order that is full.
THEOREM NothingAfterTheEnd == Spec => []TerminalEventIsLast
  <1>1. Init => EventsInv
    BY OneEventEnds DEF Init, EventsInv, TopicInv, Events
  <1>2. ASSUME IInv, BooksInv, RejectionInv, EventsInv, [Next]_vars PROVE EventsInv'
    <2>1. ASSUME NEW o \in Orders, OrderStep(o) PROVE EventsInv'
      BY <1>2, <2>1, OrderStepEvents
    <2>2. ASSUME NEW v \in Venues, VenueStep(v) PROVE EventsInv'
      BY <1>2, <2>2, VenueStepEvents
    <2>3. ASSUME Restart PROVE EventsInv'
      BY <1>2, <2>3, SilentEvents DEF Restart, Closed
    <2>4. ASSUME UNCHANGED vars PROVE EventsInv'
      BY <1>2, <2>4, SilentEvents DEF vars, Closed
    <2> QED BY <1>2, <2>1, <2>2, <2>3, <2>4 DEF Next
  <1>3. ASSUME IInv, EventsInv PROVE TerminalEventIsLast
    <2> SUFFICES ASSUME NEW o \in Orders, NEW i \in DOMAIN topic[o],
                        \/ topic[o][i] = "order_rejected"
                        \/ topic[o][i] = "order_filled" /\ o \notin late
                 PROVE  i = Len(topic[o])
      BY DEF TerminalEventIsLast
    <2>1. i \in 1 .. Len(topic[o])
      BY <1>3 DEF IInv, TypeOK
    <2>2. topic[o][i] \in Ends(o)
      BY DEF Ends, Terminal
    <2> QED BY <1>3, <2>1, <2>2 DEF EventsInv, TopicInv, EndsWell
  <1>4. IInv /\ BooksInv /\ RejectionInv /\ EventsInv /\ [Next]_vars => EventsInv'
    BY <1>2
  <1>5. IInv /\ EventsInv => TerminalEventIsLast
    BY <1>3
  <1> QED BY <1>1, <1>4, <1>5, BooksInvariance, RejectionInvariance, Invariance, PTL
          DEF Spec


-----------------------------------------------------------------------------
\* When nothing fails

\* An order is in orderMap from Submit on, until it is filled at its venue.
TrackedInv(o) ==
  stage[o] \notin {"none", "refused"} /\ (book[o].at = NoVenue \/ order[o].status # "Filled")
    => o \in tracked

\* The invariants of an order make no claim of one whose SubmitOrder failed late:
\* once it is rejected its fills are dropped.

\* total[i] is what is filled in memory once the collector has taken the first i
\* fills of the channel; what the venue has left is missing then.
Totals(o, v, total) ==
  /\ total[0] = order[o].filled
  /\ \A i \in 1 .. Len(feed[v]) :
       total[i] = total[i - 1] + (IF feed[v][i].order = o THEN feed[v][i].qty ELSE 0)
  /\ total[Len(feed[v])] + book[o].left = order[o].qty

TotalInv(o) ==
  \A v \in Venues : book[o].at = v /\ o \notin late =>
    \E total \in [0 .. Len(feed[v]) -> Nat] : Totals(o, v, total)

\* The row of an order at v shows what memory has, but for a fill in the
\* collector's hands.
RowInv(o) ==
  \A v \in Venues : book[o].at = v /\ o \notin late =>
    \/ rows[o].filled = order[o].filled
    \/ coll[v].pc \in {"fill", "order"} /\ coll[v].fill.order = o

SameExecution(f, g) == f.order = g.order /\ f.n = g.n

\* A fill that the collector of v has not saved yet.
Unsaved(v) == IF coll[v].pc = "fill" THEN {coll[v].fill} ELSE {}

\* An execution is a fill in one place: saved, in the hands of the collector, or
\* on the channel once.
OneFillInv(v) ==
  /\ \A i, j \in 1 .. Len(feed[v]) : SameExecution(feed[v][i], feed[v][j]) => i = j
  /\ \A i \in 1 .. Len(feed[v]) : \A f \in fills \cup Unsaved(v) : ~SameExecution(feed[v][i], f)
  /\ \A f \in fills, g \in Unsaved(v) : ~SameExecution(f, g)

\* The n-th execution of o has become a fill.
Reported(o, n) ==
  \/ \E f \in fills : f.order = o /\ f.n = n
  \/ \E f \in Unsaved(book[o].at) : f.order = o /\ f.n = n
  \/ \E i \in 1 .. Len(feed[book[o].at]) :
       feed[book[o].at][i].order = o /\ feed[book[o].at][i].n = n

ReportedInv(o) ==
  book[o].at # NoVenue /\ o \notin late => \A n \in 1 .. book[o].n : Reported(o, n)

\* A saved fill that the collector of v has not counted yet.
Uncounted(v) == IF coll[v].pc \in {"order", "read", "write"} THEN {coll[v].fill} ELSE {}

PositionInv(v) ==
  /\ pos[v] = ExecutedAt(v) \ Uncounted(v)
  /\ coll[v].pc = "write" => coll[v].row = pos[v]
  /\ ~pricer[v].busy

AgreeInv ==
  /\ \A o \in Orders : TrackedInv(o) /\ TotalInv(o) /\ RowInv(o) /\ ReportedInv(o)
  /\ \A v \in Venues : OneFillInv(v) /\ PositionInv(v)
  /\ \A f, g \in fills : SameExecution(f, g) => f = g

\* Nothing on the way from a venue's execution to the books fails; clients may be
\* refused, events may be lost and SubmitOrder may fail, late or not.
NothingFails ==
  /\ Lossy = {} /\ Pricers = {} /\ MaxRestarts = 0
  /\ Faults \subseteq {"CreateOrder", "Publish"}

\* A restart is the only way to lose an order of a venue from memory.
LEMMA NoneGone ==
  ASSUME IInv, BooksInv, AgreeInv, NEW o \in Orders
  PROVE  stage[o] # "gone"
  <1> SUFFICES ASSUME stage[o] = "gone" PROVE FALSE
    OBVIOUS
  <1>1. order[o] = NoOrder
    BY DEF IInv, PipelineInv, OrderInv
  <1>2. o \in tracked
    BY <1>1 DEF AgreeInv, TrackedInv, NoOrder
  <1> QED BY <1>2 DEF BooksInv, FillsInv, FilledInv

\* An order enters orderMap when it leaves stage "none", and a venue takes it with
\* nothing filled and all of it left.
LEMMA OrderStepTracked ==
  ASSUME IInv, BooksInv, NEW o \in Orders, OrderStep(o),
         ~ \E q \in 1 .. book[o].left : VenueFill(o, q) \/ LoseFill(o, q)
  PROVE  /\ \/ tracked' = tracked \cup {o}
            \/ /\ tracked' = tracked
               /\ stage[o] \in {"none", "refused"} => stage'[o] \in {"none", "refused"}
         /\ book'[o].at # book[o].at => VenueAccept(o)
  <1>0. TypeOK
    BY DEF IInv
  <1>1. ASSUME NEW q \in Quantities, NEW v \in Venues \cup {NoVenue}, Submit(o, q, v)
        PROVE  tracked' = tracked \cup {o} /\ book' = book
    BY <1>1 DEF Submit
  <1>2. ASSUME NEW q \in Quantities, NEW v \in Venues \cup {NoVenue}, SubmitRefused(o, q, v)
        PROVE  tracked' = tracked /\ stage'[o] = "refused" /\ book' = book
    BY <1>0, <1>2 DEF SubmitRefused, MoveTo, TypeOK
  <1>3. CASE Cancel(o)
    BY <1>3 DEF Cancel, memory
  <1>4. CASE Enqueue(o) \/ Abandon(o) \/ TakeForRisk(o) \/ RiskPass(o) \/ RiskReject(o)
    BY <1>4 DEF Enqueue, Abandon, TakeForRisk, RiskPass, RiskReject
  <1>5. CASE Route(o) \/ RejectDisconnected(o) \/ PassVenueCheck(o) \/ Dispatch(o)
    BY <1>5 DEF Route, RejectDisconnected, PassVenueCheck, Dispatch
  <1>6. CASE Acknowledge(o) \/ SaveAck(o) \/ SubmitOk(o)
    BY <1>6 DEF Acknowledge, SaveAck, SubmitOk
  <1>7. CASE SubmitError(o) \/ ReadStatusArg(o) \/ SaveRejected(o)
    BY <1>7 DEF SubmitError, ReadStatusArg, SaveRejected
  <1>8. CASE VenueAccept(o)
    BY <1>8 DEF VenueAccept, memory
  <1> QED BY <1>1, <1>2, <1>3, <1>4, <1>5, <1>6, <1>7, <1>8 DEF OrderStep

\* Fills are saved of orders at a venue only, so an order that comes to a venue
\* brings none.
LEMMA ExecutedKept ==
  ASSUME IInv, BooksInv, fills' = fills,
         \A p \in Orders : book'[p].at = book[p].at \/ book[p].at = NoVenue
  PROVE  \A v \in Venues : ExecutedAt(v)' = ExecutedAt(v)
  <1> SUFFICES ASSUME NEW v \in Venues, NEW f \in fills
               PROVE  book'[f.order].at = v <=> book[f.order].at = v
    BY DEF ExecutedAt
  <1>1. f.order \in Orders /\ book[f.order].n \in Nat
    BY DEF IInv, TypeOK, Fill
  <1>2. f.n \in 1 .. book[f.order].n
    BY DEF BooksInv, FillsInv
  <1>3. book[f.order].n # 0
    BY <1>1, <1>2
  <1>4. book[f.order].at # NoVenue
    BY <1>1, <1>3 DEF BooksInv, FillsInv, FilledInv
  <1> QED BY <1>1, <1>4

\* A step of an order keeps the agreement; the venue that takes the order knows
\* of no fill of it.
LEMMA OrderStepAgree ==
  ASSUME IInv, BooksInv, AgreeInv, NEW o \in Orders, OrderStep(o),
         ~ \E q \in 1 .. book[o].left : VenueFill(o, q) \/ LoseFill(o, q)
  PROVE  AgreeInv'
  <1>1. /\ OnlyOrder(o)
        /\ UNCHANGED <<feed, coll, fills, pos, pricer>>
        /\ book'[o].n = book[o].n
        /\ RecordsKept(o)
    BY OrderStepResult
  <1>2. /\ \/ tracked' = tracked \cup {o}
           \/ /\ tracked' = tracked
              /\ stage[o] \in {"none", "refused"} => stage'[o] \in {"none", "refused"}
        /\ book'[o].at # book[o].at => VenueAccept(o)
    BY OrderStepTracked
  <1>3. \A v \in Venues : ExecutedAt(v)' = ExecutedAt(v)
    <2>1. \A p \in Orders : book'[p].at = book[p].at \/ book[p].at = NoVenue
      BY <1>1 DEF OnlyOrder, RecordsKept
    <2> QED BY <1>1, <2>1, ExecutedKept
  <1>4. ASSUME NEW p \in Orders, p \notin late,
               UNCHANGED <<order[p], rows[p], book[p]>>
        PROVE  TotalInv(p)' /\ RowInv(p)' /\ ReportedInv(p)'
    <2>1. TotalInv(p) /\ RowInv(p) /\ ReportedInv(p)
      BY DEF AgreeInv
    <2>2. TotalInv(p)'
      BY <1>1, <1>4, <2>1 DEF TotalInv, Totals
    <2>3. RowInv(p)'
      BY <1>1, <1>4, <2>1 DEF RowInv
    <2>4. ReportedInv(p)'
      BY <1>1, <1>4, <2>1 DEF ReportedInv, Reported, Unsaved
    <2> QED BY <2>2, <2>3, <2>4
  <1>5. ASSUME NEW p \in Orders PROVE TotalInv(p)' /\ RowInv(p)' /\ ReportedInv(p)'
    <2>0. CASE p \in late'
      BY <2>0 DEF TotalInv, RowInv, ReportedInv
    <2>1. CASE p \notin late' /\ (p # o \/ book[o].at # NoVenue)
      <3>1. p \notin late /\ UNCHANGED <<order[p], rows[p], book[p]>>
        <4>1. CASE p # o
          BY <1>1, <2>1, <4>1 DEF OnlyOrder
        <4>2. CASE p = o
          BY <1>1, <2>1, <4>2 DEF RecordsKept
        <4> QED BY <4>1, <4>2
      <3> QED BY <1>4, <3>1
    <2>2. CASE p = o /\ book[o].at = NoVenue /\ book'[o].at = NoVenue
      BY <2>2, VenueAssumption DEF TotalInv, RowInv, ReportedInv
    <2>3. CASE p = o /\ book[o].at = NoVenue /\ VenueAccept(o)
      <3>1. /\ order[o].status = "Acknowledged" /\ rows[o] = order[o]
        BY <2>3 DEF VenueAccept, BooksInv, StageInv
      <3>2. order[o].filled = 0 /\ order[o].qty \in Nat
        BY <3>1 DEF BooksInv, RecordInv, WellFormed, IInv, TypeOK, OrderRecord
      <3>3. /\ book'[o] = [at |-> order[o].venue, left |-> order[o].qty, n |-> 0]
            /\ UNCHANGED <<order, rows>>
        BY <2>3 DEF VenueAccept, memory, tables, IInv, TypeOK
      <3>4. ASSUME NEW v \in Venues
            PROVE  \E total \in [0 .. Len(feed'[v]) -> Nat] : Totals(o, v, total)'
        <4>1. Len(feed[v]) \in Nat
          BY DEF IInv, TypeOK
        <4>2. \A i \in 1 .. Len(feed[v]) : feed[v][i].order # o
          BY <2>3, FillOrders, VenueAssumption
        <4>3. PICK total \in [0 .. Len(feed[v]) -> Nat] : \A i \in 0 .. Len(feed[v]) : total[i] = 0
          <5>1. [i \in 0 .. Len(feed[v]) |-> 0] \in [0 .. Len(feed[v]) -> Nat]
            OBVIOUS
          <5> QED BY <5>1
        <4>4. total[0] = 0 /\ total[Len(feed[v])] = 0
          BY <4>1, <4>3
        <4>5. \A i \in 1 .. Len(feed[v]) : total[i] = total[i - 1] + 0
          BY <4>1, <4>3
        <4>6. Totals(o, v, total)'
          BY <1>1, <3>2, <3>3, <4>2, <4>4, <4>5 DEF Totals
        <4> QED BY <1>1, <4>6
      <3>5. TotalInv(o)'
        BY <3>4 DEF TotalInv
      <3>6. RowInv(o)' /\ ReportedInv(o)'
        BY <3>1, <3>3 DEF RowInv, ReportedInv
      <3> QED BY <2>3, <3>5, <3>6
    <2> QED BY <1>2, <2>0, <2>1, <2>2, <2>3
  <1>6. ASSUME NEW p \in Orders PROVE TrackedInv(p)'
    <2>1. TrackedInv(p)
      BY DEF AgreeInv
    <2>2. CASE p # o
      BY <1>1, <1>2, <2>1, <2>2 DEF OnlyOrder, TrackedInv
    <2>3. CASE p = o
      <3>1. CASE book[o].at = NoVenue
        BY <1>2, <2>1, <2>3, <3>1 DEF TrackedInv
      <3>2. CASE book[o].at # NoVenue
        <4>1. order'[o].status # "Filled" => order[o].status # "Filled"
          BY <1>1, <3>2 DEF RecordsKept
        <4>2. book'[o] = book[o]
          BY <1>1, <3>2 DEF RecordsKept
        <4> QED BY <1>2, <2>1, <2>3, <3>2, <4>1, <4>2 DEF TrackedInv
      <3> QED BY <3>1, <3>2
    <2> QED BY <2>2, <2>3
  <1>7. ASSUME NEW v \in Venues PROVE OneFillInv(v)' /\ PositionInv(v)'
    <2>1. OneFillInv(v) /\ PositionInv(v)
      BY DEF AgreeInv
    <2>2. OneFillInv(v)'
      BY <1>1, <2>1 DEF OneFillInv, Unsaved
    <2>3. PositionInv(v)'
      BY <1>1, <1>3, <2>1 DEF PositionInv, Uncounted
    <2> QED BY <2>2, <2>3
  <1>8. \A f, g \in fills' : SameExecution(f, g) => f = g
    BY <1>1 DEF AgreeInv
  <1> QED BY <1>5, <1>6, <1>7, <1>8 DEF AgreeInv

\* An execution: its fill is the last of the channel, with the next number, and
\* adds its quantity to the totals of its order.
LEMMA ExecutionAgree ==
  ASSUME IInv, BooksInv, AgreeInv, Lossy = {}, NEW o \in Orders, NEW q \in 1 .. book[o].left,
         VenueFill(o, q) \/ LoseFill(o, q)
  PROVE  AgreeInv'
  <1>0. VenueFill(o, q)
    BY DEF LoseFill
  <1> DEFINE x == [order |-> o, n |-> book[o].n + 1, qty |-> q]
             at == book[o].at
             last == Len(feed[at]) + 1
  <1>1. /\ at \in Venues
        /\ book[o].left \in Nat /\ book[o].n \in Nat /\ q \in Nat
        /\ book'[o].at = at
        /\ book'[o].left = book[o].left - q
        /\ book'[o].n = book[o].n + 1
        /\ \A p \in Orders : p # o => book'[p] = book[p]
        /\ UNCHANGED <<order, stage, arg, rows, tracked, fills, pos, coll, pricer, late>>
    BY ExecutionResult
  <1>2. /\ feed' = [feed EXCEPT ![at] = Append(feed[at], x)]
        /\ feed \in [Venues -> Seq(Fill)]
    BY <1>0 DEF VenueFill, IInv, TypeOK
  <1>3. \A v \in Venues : v # at => feed'[v] = feed[v]
    BY <1>2
  <1>4. x \in Fill
    BY <1>1 DEF Fill
  <1>5. /\ Len(feed[at]) \in Nat
        /\ Len(feed'[at]) = last
        /\ \A i \in 1 .. Len(feed[at]) : feed'[at][i] = feed[at][i]
        /\ feed'[at][last] = x
    <2> HIDE DEF x
    <2>1. feed[at] \in Seq(Fill) /\ Len(feed[at]) \in Nat
      BY <1>1, <1>2
    <2>2. feed'[at] = Append(feed[at], x)
      BY <1>1, <1>2
    <2>3. \A i \in 1 .. Len(feed[at]) : i \in 1 .. Len(feed[at]) + 1 /\ i # Len(feed[at]) + 1
      BY <2>1
    <2>4. Len(feed[at]) + 1 \in 1 .. Len(feed[at]) + 1
      BY <2>1
    <2> QED BY <1>4, <2>1, <2>2, <2>3, <2>4, SendResult
  <1>6. \A i \in 1 .. last : i \in 1 .. Len(feed[at]) \/ i = last
    BY <1>5
  <1>7. \A p \in Orders : book'[p].at = book[p].at
    BY <1>1
  <1> HIDE DEF last
  \* The totals of an order at the venue get one more, larger by q for o.
  <1>8. ASSUME NEW p \in Orders PROVE TotalInv(p)'
    <2> SUFFICES ASSUME NEW v \in Venues, book'[p].at = v, p \notin late
                 PROVE  \E total \in [0 .. Len(feed'[v]) -> Nat] : Totals(p, v, total)'
      BY <1>1 DEF TotalInv
    <2>1. PICK total \in [0 .. Len(feed[v]) -> Nat] : Totals(p, v, total)
      BY <1>7 DEF AgreeInv, TotalInv
    <2>2. CASE v # at
      <3>1. book'[p] = book[p] /\ feed'[v] = feed[v]
        BY <1>1, <1>3, <1>7, <2>2
      <3>2. order' = order
        BY <1>1
      <3> QED BY <2>1, <3>1, <3>2 DEF Totals
    <2>3. CASE v = at
      <3> DEFINE n == Len(feed[at])
                 more == IF p = o THEN q ELSE 0
      <3>1. n \in Nat /\ last = n + 1 /\ more \in Nat /\ total \in [0 .. n -> Nat]
        BY <1>1, <1>5, <2>3 DEF last
      <3>2. book'[p].left + more = book[p].left /\ book[p].left \in Nat /\ book'[p].left \in Nat
        <4>1. book[p].left \in Nat
          BY DEF IInv, TypeOK
        <4> QED BY <1>1, <4>1
      <3>3. /\ total[0] = order[p].filled
            /\ \A i \in 1 .. n :
                  total[i] = total[i - 1] + (IF feed[at][i].order = p THEN feed[at][i].qty ELSE 0)
            /\ total[n] + book[p].left = order[p].qty
        BY <2>1, <2>3 DEF Totals
      <3>4. (IF x.order = p THEN x.qty ELSE 0) = more
        OBVIOUS
      <3> HIDE DEF n, more
      <3>5. PICK g \in [0 .. n + 1 -> Nat] :
               (\A i \in 0 .. n : g[i] = total[i]) /\ g[n + 1] = total[n] + more
        <4> DEFINE y == [i \in 0 .. n + 1 |-> IF i = n + 1 THEN total[n] + more ELSE total[i]]
        <4>1. n \in 0 .. n /\ \A i \in 0 .. n : i \in 0 .. n + 1 /\ i # n + 1
          BY <3>1
        <4>2. y \in [0 .. n + 1 -> Nat]
          BY <3>1
        <4>3. (\A i \in 0 .. n : y[i] = total[i]) /\ y[n + 1] = total[n] + more
          BY <3>1
        <4> QED BY <4>2, <4>3
      <3>6. g[0] = order[p].filled
        BY <3>1, <3>3, <3>5
      <3>7. ASSUME NEW i \in 1 .. n + 1
            PROVE  g[i] = g[i - 1] + (IF feed'[at][i].order = p THEN feed'[at][i].qty ELSE 0)
        <4>1. CASE i \in 1 .. n
          <5>0. i \in 0 .. n /\ i - 1 \in 0 .. n
            BY <3>1, <4>1
          <5>1. g[i] = total[i] /\ g[i - 1] = total[i - 1]
            BY <3>5, <5>0
          <5>2. feed'[at][i] = feed[at][i]
            BY <1>5, <4>1 DEF n
          <5> QED BY <3>3, <4>1, <5>1, <5>2
        <4>2. CASE i = n + 1
          <5>1. g[i] = total[n] + more /\ g[i - 1] = total[n]
            BY <3>1, <3>5, <4>2
          <5>2. feed'[at][i] = x
            BY <1>5, <3>1, <4>2
          <5> QED BY <3>4, <5>1, <5>2
        <4> QED BY <3>1, <4>1, <4>2
      <3>8. g[n + 1] + book'[p].left = order[p].qty
        <4>1. total[n] \in Nat
          BY <3>1
        <4> QED BY <3>1, <3>2, <3>3, <3>5, <4>1
      <3>9. Len(feed'[v]) = n + 1
        BY <1>5, <2>3, <3>1
      <3>10. Totals(p, v, g)'
        BY <1>1, <2>3, <3>6, <3>7, <3>8, <3>9 DEF Totals
      <3> QED BY <3>9, <3>10
    <2> QED BY <2>2, <2>3
  <1>9. ASSUME NEW p \in Orders PROVE TrackedInv(p)' /\ RowInv(p)'
    BY <1>1, <1>7 DEF AgreeInv, TrackedInv, RowInv
  <1>10. ASSUME NEW p \in Orders PROVE ReportedInv(p)'
    <2> SUFFICES ASSUME book[p].at # NoVenue, p \notin late, NEW n \in 1 .. book'[p].n
                 PROVE  Reported(p, n)'
      BY <1>1, <1>7 DEF ReportedInv
    <2>0. book[p].at \in Venues
      BY DEF IInv, TypeOK
    <2>1. CASE n \in 1 .. book[p].n
      <3>1. Reported(p, n)
        BY <2>1 DEF AgreeInv, ReportedInv
      <3>2. CASE book[p].at # at
        BY <1>1, <1>3, <1>7, <2>0, <3>1, <3>2 DEF Reported, Unsaved
      <3>3. CASE book[p].at = at
        <4>1. \A i \in 1 .. Len(feed[at]) :
                 i \in 1 .. Len(feed'[at]) /\ feed'[at][i] = feed[at][i]
          BY <1>5 DEF last
        <4>2. book'[p].at = at /\ coll' = coll /\ fills' = fills
          BY <1>1, <1>7, <3>3
        <4> QED BY <3>1, <3>3, <4>1, <4>2 DEF Reported, Unsaved
      <3> QED BY <3>2, <3>3
    <2>2. CASE p = o /\ n = book[o].n + 1
      <3>1. last \in 1 .. Len(feed'[at]) /\ x.order = o /\ x.n = n
        BY <1>5, <2>2 DEF last
      <3> QED BY <1>5, <1>7, <2>2, <3>1 DEF Reported
    <2> QED BY <1>1, <2>1, <2>2
  \* No fill has the number of the new one.
  <1>11. /\ \A v \in Venues : \A i \in 1 .. Len(feed[v]) : ~SameExecution(feed[v][i], x)
         /\ \A f \in fills : ~SameExecution(x, f)
         /\ \A v \in Venues : \A f \in Unsaved(v) : ~SameExecution(x, f)
    <2>1. \A m \in 1 .. book[o].n : m # book[o].n + 1
      BY <1>1
    <2>2. \A v \in Venues : \A i \in 1 .. Len(feed[v]) :
             feed[v][i].n \in 1 .. book[feed[v][i].order].n
      BY DEF BooksInv, FillsInv, ReportInv
    <2>3. \A v \in Venues : \A f \in Unsaved(v) : f.n \in 1 .. book[f.order].n
      BY DEF BooksInv, FillsInv, ReportInv, Unsaved
    <2>4. \A f \in fills : f.n \in 1 .. book[f.order].n
      BY DEF BooksInv, FillsInv
    <2> QED BY <2>1, <2>2, <2>3, <2>4 DEF SameExecution
  <1>12. ASSUME NEW v \in Venues PROVE OneFillInv(v)'
    <2>1. OneFillInv(v) /\ Unsaved(v)' = Unsaved(v)
      BY <1>1 DEF AgreeInv, Unsaved
    <2>2. CASE v # at
      BY <1>1, <1>3, <2>1, <2>2 DEF OneFillInv
    <2>3. CASE v = at
      <3> HIDE DEF x
      <3>1. ASSUME NEW i \in 1 .. last, NEW j \in 1 .. last,
                   SameExecution(feed'[at][i], feed'[at][j])
            PROVE  i = j
        <4>1. CASE i \in 1 .. Len(feed[at]) /\ j \in 1 .. Len(feed[at])
          BY <1>5, <2>1, <2>3, <3>1, <4>1 DEF OneFillInv
        <4>2. CASE i = last /\ j = last
          BY <4>2
        <4>3. CASE i \in 1 .. Len(feed[at]) /\ j = last
          BY <1>1, <1>5, <1>11, <3>1, <4>3
        <4>4. CASE i = last /\ j \in 1 .. Len(feed[at])
          <5>1. SameExecution(feed[at][j], x)
            BY <1>5, <3>1, <4>4 DEF SameExecution
          <5> QED BY <1>1, <1>11, <4>4, <5>1
        <4> QED BY <1>6, <4>1, <4>2, <4>3, <4>4
      <3>2. ASSUME NEW i \in 1 .. last, NEW f \in fills \cup Unsaved(v)
            PROVE  ~SameExecution(feed'[at][i], f)
        <4>1. CASE i \in 1 .. Len(feed[at])
          BY <1>5, <2>1, <2>3, <4>1 DEF OneFillInv
        <4>2. CASE i = last
          BY <1>5, <1>11, <4>2
        <4> QED BY <1>6, <4>1, <4>2
      <3> QED BY <1>1, <1>5, <2>1, <2>3, <3>1, <3>2 DEF OneFillInv
    <2> QED BY <2>2, <2>3
  <1>13. ASSUME NEW v \in Venues PROVE PositionInv(v)'
    <2>1. ExecutedAt(v)' = ExecutedAt(v)
      BY <1>1, <1>7, ExecutedKept
    <2> QED BY <1>1, <2>1 DEF AgreeInv, PositionInv, Uncounted
  <1>14. \A f, g \in fills' : SameExecution(f, g) => f = g
    BY <1>1 DEF AgreeInv
  <1> QED BY <1>8, <1>9, <1>10, <1>12, <1>13, <1>14 DEF AgreeInv

\* The channel without its first fill.
LEMMA FeedTail ==
  ASSUME IInv, NEW v \in Venues, feed[v] # << >>, feed'[v] = Tail(feed[v])
  PROVE  /\ Len(feed[v]) \in Nat /\ Len(feed[v]) >= 1 /\ 1 \in 1 .. Len(feed[v])
         /\ Head(feed[v]) = feed[v][1]
         /\ Len(feed'[v]) = Len(feed[v]) - 1
         /\ \A i \in 1 .. Len(feed[v]) - 1 :
               i + 1 \in 1 .. Len(feed[v]) /\ feed'[v][i] = feed[v][i + 1]
         /\ \A i \in 1 .. Len(feed[v]) :
               \/ i = 1
               \/ i - 1 \in 1 .. Len(feed[v]) - 1 /\ feed'[v][i - 1] = feed[v][i]
  <1> DEFINE n == Len(feed[v])
  <1>1. feed[v] \in Seq(Fill)
    BY DEF IInv, TypeOK
  <1>2. n \in Nat /\ n >= 1
    BY <1>1
  <1>3. Len(feed'[v]) = n - 1
    <2>1. Len(Tail(feed[v])) = Len(feed[v]) - 1
      BY <1>1
    <2> QED BY <2>1
  <1>4. \A i \in 1 .. n - 1 : i + 1 \in 1 .. n /\ feed'[v][i] = feed[v][i + 1]
    BY <1>1, <1>2, TailElements
  <1>5. Head(feed[v]) = feed[v][1] /\ 1 \in 1 .. n
    BY <1>1, <1>2
  <1> HIDE DEF n
  <1>6. ASSUME NEW i \in 1 .. n, i # 1
        PROVE  i - 1 \in 1 .. n - 1 /\ feed'[v][i - 1] = feed[v][i]
    <2>1. i - 1 \in 1 .. n - 1 /\ (i - 1) + 1 = i
      BY <1>2, <1>6
    <2> QED BY <1>4, <2>1
  <1> QED BY <1>2, <1>3, <1>4, <1>5, <1>6 DEF n

\* With the first fill of the channel the first of the totals of an order goes, if
\* its quantity is counted in memory or is none of the order's.
LEMMA TotalsTail ==
  ASSUME IInv, NEW v \in Venues, NEW p \in Orders,
         feed[v] # << >>, feed'[v] = Tail(feed[v]), book'[p] = book[p],
         order'[p].filled = order[p].filled
                  + (IF Head(feed[v]).order = p THEN Head(feed[v]).qty ELSE 0),
         order'[p].qty = order[p].qty,
         NEW total \in [0 .. Len(feed[v]) -> Nat], Totals(p, v, total)
  PROVE  \E g \in [0 .. Len(feed'[v]) -> Nat] : Totals(p, v, g)'
  <1> DEFINE n == Len(feed[v])
  <1>1. /\ n \in Nat /\ n >= 1 /\ 1 \in 1 .. n
        /\ Head(feed[v]) = feed[v][1]
        /\ Len(feed'[v]) = n - 1
        /\ \A i \in 1 .. n - 1 : i + 1 \in 1 .. n /\ feed'[v][i] = feed[v][i + 1]
    BY FeedTail
  <1>2. total \in [0 .. n -> Nat]
    OBVIOUS
  <1>3. /\ total[0] = order[p].filled
        /\ \A i \in 1 .. n :
              total[i] = total[i - 1] + (IF feed[v][i].order = p THEN feed[v][i].qty ELSE 0)
        /\ total[n] + book[p].left = order[p].qty
    BY DEF Totals
  <1> HIDE DEF n
  <1>4. PICK g \in [0 .. n - 1 -> Nat] : \A i \in 0 .. n - 1 : g[i] = total[i + 1]
    <2>1. \A i \in 0 .. n - 1 : i + 1 \in 0 .. n
      BY <1>1
    <2>2. [i \in 0 .. n - 1 |-> total[i + 1]] \in [0 .. n - 1 -> Nat]
      BY <1>2, <2>1
    <2> QED BY <2>2
  <1>5. g[0] = order'[p].filled
    <2>1. g[0] = total[1]
      <3>1. 0 \in 0 .. n - 1 /\ 0 + 1 = 1
        BY <1>1
      <3> QED BY <1>4, <3>1
    <2>2. total[1] = total[0] + (IF feed[v][1].order = p THEN feed[v][1].qty ELSE 0)
      BY <1>1, <1>3
    <2> QED BY <1>1, <1>3, <2>1, <2>2
  <1>6. ASSUME NEW i \in 1 .. n - 1
        PROVE  g[i] = g[i - 1] + (IF feed'[v][i].order = p THEN feed'[v][i].qty ELSE 0)
    <2>1. i \in 0 .. n - 1 /\ i - 1 \in 0 .. n - 1 /\ (i - 1) + 1 = i /\ (i + 1) - 1 = i
          /\ i + 1 \in 1 .. n
      BY <1>1
    <2>2. g[i] = total[i + 1] /\ g[i - 1] = total[i]
      BY <1>4, <2>1
    <2> QED BY <1>1, <1>3, <2>1, <2>2
  <1>7. g[n - 1] + book[p].left = order'[p].qty
    <2>1. n - 1 \in 0 .. n - 1 /\ (n - 1) + 1 = n
      BY <1>1
    <2>2. g[n - 1] = total[n]
      BY <1>4, <2>1
    <2> QED BY <1>3, <2>2
  <1>8. Totals(p, v, g)'
    BY <1>1, <1>5, <1>6, <1>7 DEF Totals
  <1> QED BY <1>1, <1>8

\* The collector takes a fill from the channel, and with it the first of the totals
\* of each order; the fill is in its hands instead.
LEMMA TakeFillAgree ==
  ASSUME IInv, BooksInv, AgreeInv, NEW v \in Venues, TakeFill(v)
  PROVE  AgreeInv'
  <1> DEFINE f == Head(feed[v])
             o == f.order
             ord == ApplyFill(order[o], f.qty)
             n == Len(feed[v])
  <1>0. /\ order' = [order EXCEPT ![o] = ord]
        /\ feed' = [feed EXCEPT ![v] = Tail(feed[v])]
        /\ coll' = [coll EXCEPT ![v] = [pc |-> "fill", fill |-> f, row |-> {}]]
        /\ UNCHANGED <<tracked, stage, arg, rows, fills, pos, book, pricer, late>>
        /\ feed[v] # << >> /\ o \in tracked /\ coll[v].pc = "idle"
    BY DEF TakeFill, tables
  <1>1. o \in Orders /\ stage[o] # "gone"
    BY <1>0 DEF IInv, TypeOK, BooksInv, FillsInv, FilledInv
  <1>2. /\ f \in Fill /\ f.qty \in Nat
        /\ f = feed[v][1] /\ 1 \in 1 .. n
        /\ book[o].at = v
        /\ order[o] \in OrderRecord
        /\ order[o].filled \in Nat
    BY <1>0, <1>1, HeadFits
  <1>3. /\ ord.filled = order[o].filled + f.qty
        /\ ord.qty = order[o].qty
    BY <1>2 DEF ApplyFill, OrderRecord
  <1> HIDE DEF ord
  <1>4. /\ order'[o] = ord
        /\ \A p \in Orders : p # o => order'[p] = order[p]
        /\ feed'[v] = Tail(feed[v])
        /\ \A u \in Venues : u # v => feed'[u] = feed[u] /\ coll'[u] = coll[u]
        /\ coll'[v] = [pc |-> "fill", fill |-> f, row |-> {}]
    BY <1>0, <1>1 DEF IInv, TypeOK
  <1>5. /\ n \in Nat /\ n >= 1
        /\ Len(feed'[v]) = n - 1
        /\ \A i \in 1 .. n - 1 : i + 1 \in 1 .. n /\ feed'[v][i] = feed[v][i + 1]
    BY <1>0, <1>4, FeedTail
  <1>6. \A i \in 1 .. n : i = 1 \/ (i - 1 \in 1 .. n - 1 /\ feed'[v][i - 1] = feed[v][i])
    BY <1>0, <1>4, FeedTail
  <1> HIDE DEF f, o, n
  <1>7. ASSUME NEW p \in Orders PROVE TotalInv(p)'
    <2> SUFFICES ASSUME NEW u \in Venues, book[p].at = u, p \notin late
                 PROVE  \E total \in [0 .. Len(feed'[u]) -> Nat] : Totals(p, u, total)'
      BY <1>0 DEF TotalInv
    <2>1. PICK total \in [0 .. Len(feed[u]) -> Nat] : Totals(p, u, total)
      BY DEF AgreeInv, TotalInv
    <2>2. CASE u # v
      <3>1. order'[p] = order[p] /\ feed'[u] = feed[u]
        BY <1>2, <1>4, <2>2
      <3> QED BY <1>0, <2>1, <3>1 DEF Totals
    <2>3. CASE u = v
      <3>1. order'[p].filled = order[p].filled
                                 + (IF f.order = p THEN f.qty ELSE 0)
            /\ order'[p].qty = order[p].qty
        <4>1. CASE p = o
          BY <1>3, <1>4, <4>1 DEF o
        <4>2. CASE p # o
          <5>1. order[p].filled \in Nat
            BY DEF IInv, TypeOK, OrderRecord
          <5> QED BY <1>4, <4>2, <5>1 DEF o
        <4> QED BY <4>1, <4>2
      <3> QED BY <1>0, <1>4, <2>1, <2>3, <3>1, TotalsTail DEF f
    <2> QED BY <2>2, <2>3
  <1>8. ASSUME NEW p \in Orders PROVE TrackedInv(p)'
    <2>1. TrackedInv(p)
      BY DEF AgreeInv
    <2>2. CASE p = o
      BY <1>0, <2>2 DEF TrackedInv
    <2>3. CASE p # o
      BY <1>0, <1>4, <2>1, <2>3 DEF TrackedInv
    <2> QED BY <2>2, <2>3
  <1>9. ASSUME NEW p \in Orders PROVE RowInv(p)'
    <2>1. RowInv(p)
      BY DEF AgreeInv
    <2>2. CASE p = o
      BY <1>0, <1>2, <1>4, <2>2 DEF RowInv, o
    <2>3. CASE p # o
      BY <1>0, <1>4, <2>1, <2>3 DEF RowInv
    <2> QED BY <2>2, <2>3
  <1>10. /\ Unsaved(v) = {} /\ Unsaved(v)' = {f}
         /\ \A u \in Venues : u # v => Unsaved(u)' = Unsaved(u)
    BY <1>0, <1>4 DEF Unsaved
  <1>11. ASSUME NEW p \in Orders PROVE ReportedInv(p)'
    <2> SUFFICES ASSUME book[p].at # NoVenue, p \notin late, NEW m \in 1 .. book[p].n
                 PROVE  Reported(p, m)'
      BY <1>0 DEF ReportedInv
    <2>0. Reported(p, m) /\ book[p].at \in Venues
      BY DEF AgreeInv, ReportedInv, IInv, TypeOK
    <2>1. CASE book[p].at # v
      <3>1. /\ feed'[book[p].at] = feed[book[p].at]
            /\ Unsaved(book[p].at)' = Unsaved(book[p].at)
            /\ book' = book /\ fills' = fills
        BY <1>0, <1>4, <1>10, <2>0, <2>1
      <3> QED BY <2>0, <3>1 DEF Reported, Unsaved
    <2>2. CASE book[p].at = v
      <3>1. CASE \E g \in fills : g.order = p /\ g.n = m
        BY <1>0, <3>1 DEF Reported
      <3>2. CASE \E i \in 1 .. n : feed[v][i].order = p /\ feed[v][i].n = m
        <4>1. PICK i \in 1 .. n : feed[v][i].order = p /\ feed[v][i].n = m
          BY <3>2
        <4>2. CASE i = 1
          BY <1>0, <1>2, <1>10, <2>2, <4>1, <4>2 DEF Reported
        <4>3. CASE i - 1 \in 1 .. n - 1 /\ feed'[v][i - 1] = feed[v][i]
          BY <1>0, <1>5, <2>2, <4>1, <4>3 DEF Reported
        <4> QED BY <1>6, <4>2, <4>3
      <3> QED BY <1>10, <2>0, <2>2, <3>1, <3>2 DEF Reported, n
    <2> QED BY <2>1, <2>2
  <1>12. ASSUME NEW u \in Venues PROVE OneFillInv(u)'
    <2>1. OneFillInv(u)
      BY DEF AgreeInv
    <2>2. CASE u # v
      BY <1>0, <1>4, <1>10, <2>1, <2>2 DEF OneFillInv
    <2>3. CASE u = v
      <3>1. ASSUME NEW i \in 1 .. n - 1, NEW j \in 1 .. n - 1,
                   SameExecution(feed'[v][i], feed'[v][j])
            PROVE  i = j
        <4>1. i + 1 = j + 1
          BY <1>5, <2>1, <2>3, <3>1 DEF OneFillInv, n
        <4> QED BY <1>5, <4>1
      <3>2. ASSUME NEW i \in 1 .. n - 1, NEW g \in fills
            PROVE  ~SameExecution(feed'[v][i], g)
        BY <1>5, <2>1, <2>3 DEF OneFillInv, n
      <3>3. ASSUME NEW i \in 1 .. n - 1 PROVE ~SameExecution(feed'[v][i], f)
        <4>1. SameExecution(feed[v][i + 1], feed[v][1]) => i + 1 = 1
          BY <1>2, <1>5, <2>1, <2>3 DEF OneFillInv, n
        <4>2. i + 1 # 1
          BY <1>5
        <4> QED BY <1>2, <1>5, <4>1, <4>2
      <3>4. ASSUME NEW g \in fills PROVE ~SameExecution(g, f)
        <4>1. ~SameExecution(feed[v][1], g)
          BY <1>2, <2>1, <2>3 DEF OneFillInv, n
        <4> QED BY <1>2, <4>1 DEF SameExecution
      <3> QED BY <1>0, <1>5, <1>10, <2>3, <3>1, <3>2, <3>3, <3>4 DEF OneFillInv
    <2> QED BY <2>2, <2>3
  <1>13. ASSUME NEW u \in Venues PROVE PositionInv(u)'
    <2>1. ExecutedAt(u)' = ExecutedAt(u)
      BY <1>0 DEF ExecutedAt
    <2>2. Uncounted(u)' = Uncounted(u)
      <3>1. CASE u # v
        BY <1>4, <3>1 DEF Uncounted
      <3>2. CASE u = v
        BY <1>0, <1>4, <3>2 DEF Uncounted
      <3> QED BY <3>1, <3>2
    <2> QED BY <1>0, <1>4, <2>1, <2>2 DEF AgreeInv, PositionInv
  <1>14. \A g, h \in fills' : SameExecution(g, h) => g = h
    BY <1>0 DEF AgreeInv
  <1> QED BY <1>7, <1>8, <1>9, <1>11, <1>12, <1>13, <1>14 DEF AgreeInv

\* A fill on the channel is of an order in orderMap, which has room for it; only
\* one of an order whose SubmitOrder failed late may be dropped.
LEMMA DroppedLate ==
  ASSUME IInv, BooksInv, AgreeInv, NEW v \in Venues, DropFill(v)
  PROVE  Head(feed[v]).order \in late
  <1> DEFINE f == Head(feed[v])
  <1> SUFFICES ASSUME f.order \notin late PROVE FALSE
    OBVIOUS
  <1>1. feed[v] # << >> /\ ~(f.order \in tracked /\ CanFill(order[f.order], f.qty))
    BY DEF DropFill
  <1>2. f.order \in Orders
    <2>1. feed[v] \in Seq(Fill)
      BY DEF IInv, TypeOK
    <2>2. f \in Fill
      BY <1>1, <2>1, ReceiveResult
    <2> QED BY <2>2 DEF Fill
  <1>3. stage[f.order] # "gone"
    BY <1>2, NoneGone
  <1>4. CanFill(order[f.order], f.qty) /\ book[f.order].at = v
    BY <1>1, <1>3, HeadFits DEF Live
  <1>5. stage[f.order] \notin {"none", "refused"} /\ order[f.order].status # "Filled"
    BY <1>2, <1>3, <1>4, VenueAssumption DEF CanFill, BooksInv, RecordInv
  <1>6. f.order \in tracked
    BY <1>2, <1>5 DEF AgreeInv, TrackedInv
  <1> QED BY <1>1, <1>4, <1>6

\* A dropped fill counts for no other order.
LEMMA DropFillAgree ==
  ASSUME IInv, BooksInv, AgreeInv, NEW v \in Venues, DropFill(v)
  PROVE  AgreeInv'
  <1> DEFINE f == Head(feed[v])
             o == f.order
             n == Len(feed[v])
  <1>0. /\ feed' = [feed EXCEPT ![v] = Tail(feed[v])]
        /\ UNCHANGED <<order, tracked, stage, rows, fills, pos, book, coll, pricer, late>>
        /\ feed[v] # << >> /\ o \in late
    BY DroppedLate DEF DropFill, memory, tables
  <1>1. /\ feed'[v] = Tail(feed[v])
        /\ \A u \in Venues : u # v => feed'[u] = feed[u]
    BY <1>0 DEF IInv, TypeOK
  <1>2. /\ n \in Nat /\ n >= 1
        /\ f = feed[v][1]
        /\ Len(feed'[v]) = n - 1
        /\ \A i \in 1 .. n - 1 : i + 1 \in 1 .. n /\ feed'[v][i] = feed[v][i + 1]
        /\ \A i \in 1 .. n : i = 1 \/ (i - 1 \in 1 .. n - 1 /\ feed'[v][i - 1] = feed[v][i])
    BY <1>0, <1>1, FeedTail
  <1>3. \A u \in Venues : Unsaved(u)' = Unsaved(u) /\ Uncounted(u)' = Uncounted(u)
                          /\ ExecutedAt(u)' = ExecutedAt(u)
    BY <1>0 DEF Unsaved, Uncounted, ExecutedAt
  <1> HIDE DEF f, o, n
  <1>4. ASSUME NEW p \in Orders PROVE TotalInv(p)'
    <2> SUFFICES ASSUME NEW u \in Venues, book[p].at = u, p \notin late
                 PROVE  \E total \in [0 .. Len(feed'[u]) -> Nat] : Totals(p, u, total)'
      BY <1>0 DEF TotalInv
    <2>1. PICK total \in [0 .. Len(feed[u]) -> Nat] : Totals(p, u, total)
      BY DEF AgreeInv, TotalInv
    <2>2. CASE u # v
      BY <1>0, <1>1, <2>1, <2>2 DEF Totals
    <2>3. CASE u = v
      <3>1. order[p].filled \in Nat
        BY DEF IInv, TypeOK, OrderRecord
      <3>2. order'[p].filled = order[p].filled
                                 + (IF Head(feed[v]).order = p THEN Head(feed[v]).qty ELSE 0)
            /\ order'[p].qty = order[p].qty
        BY <1>0, <3>1 DEF f, o
      <3> QED BY <1>0, <1>1, <2>1, <2>3, <3>2, TotalsTail
    <2> QED BY <2>2, <2>3
  <1>5. ASSUME NEW p \in Orders PROVE TrackedInv(p)' /\ RowInv(p)'
    BY <1>0 DEF AgreeInv, TrackedInv, RowInv
  <1>6. ASSUME NEW p \in Orders PROVE ReportedInv(p)'
    <2> SUFFICES ASSUME book[p].at # NoVenue, p \notin late, NEW m \in 1 .. book[p].n
                 PROVE  Reported(p, m)'
      BY <1>0 DEF ReportedInv
    <2>0. Reported(p, m) /\ book[p].at \in Venues
      BY DEF AgreeInv, ReportedInv, IInv, TypeOK
    <2>1. CASE book[p].at # v
      <3>1. /\ feed'[book[p].at] = feed[book[p].at]
            /\ Unsaved(book[p].at)' = Unsaved(book[p].at)
            /\ book' = book /\ fills' = fills
        BY <1>0, <1>1, <1>3, <2>0, <2>1
      <3> QED BY <2>0, <3>1 DEF Reported, Unsaved
    <2>2. CASE book[p].at = v
      <3>1. CASE \E g \in fills : g.order = p /\ g.n = m
        BY <1>0, <3>1 DEF Reported
      <3>2. CASE \E g \in Unsaved(v) : g.order = p /\ g.n = m
        BY <1>0, <1>3, <2>2, <3>2 DEF Reported
      <3>3. CASE \E i \in 1 .. n : feed[v][i].order = p /\ feed[v][i].n = m
        <4>1. PICK i \in 1 .. n : feed[v][i].order = p /\ feed[v][i].n = m
          BY <3>3
        <4>2. i # 1
          BY <1>0, <1>2, <4>1 DEF o
        <4>3. i - 1 \in 1 .. n - 1 /\ feed'[v][i - 1] = feed[v][i]
          BY <1>2, <4>2
        <4>4. /\ i - 1 \in 1 .. Len(feed'[v])
              /\ feed'[v][i - 1].order = p /\ feed'[v][i - 1].n = m
          BY <1>2, <4>1, <4>3
        <4>5. book'[p].at = v
          BY <1>0, <2>2
        <4> QED BY <4>4, <4>5 DEF Reported
      <3> QED BY <2>0, <2>2, <3>1, <3>2, <3>3 DEF Reported, n
    <2> QED BY <2>1, <2>2
  <1>7. ASSUME NEW u \in Venues PROVE OneFillInv(u)'
    <2>1. OneFillInv(u)
      BY DEF AgreeInv
    <2>2. CASE u # v
      BY <1>0, <1>1, <1>3, <2>1, <2>2 DEF OneFillInv
    <2>3. CASE u = v
      <3>1. ASSUME NEW i \in 1 .. n - 1, NEW j \in 1 .. n - 1,
                   SameExecution(feed'[v][i], feed'[v][j])
            PROVE  i = j
        <4>1. i + 1 = j + 1
          BY <1>2, <2>1, <2>3, <3>1 DEF OneFillInv, n
        <4> QED BY <1>2, <4>1
      <3>2. ASSUME NEW i \in 1 .. n - 1, NEW g \in fills \cup Unsaved(v)
            PROVE  ~SameExecution(feed'[v][i], g)
        BY <1>2, <2>1, <2>3 DEF OneFillInv, n
      <3> QED BY <1>0, <1>2, <1>3, <2>1, <2>3, <3>1, <3>2 DEF OneFillInv
    <2> QED BY <2>2, <2>3
  <1>8. ASSUME NEW u \in Venues PROVE PositionInv(u)'
    BY <1>0, <1>3 DEF AgreeInv, PositionInv
  <1>9. \A g, h \in fills' : SameExecution(g, h) => g = h
    BY <1>0 DEF AgreeInv
  <1> QED BY <1>4, <1>5, <1>6, <1>7, <1>8, <1>9 DEF AgreeInv

\* A step that leaves the orders, the channels, the rows and the fills alone keeps
\* the agreement if it keeps what the collectors have in hand.
LEMMA BookkeepingAgree ==
  ASSUME IInv, AgreeInv, UNCHANGED <<order, stage, rows, book, feed, fills, late>>,
         \A v \in Venues : /\ coll'[v].pc = "fill" <=> coll[v].pc = "fill"
                           /\ coll'[v].pc = "order" <=> coll[v].pc = "order"
                           /\ coll[v].pc \in {"fill", "order"} => coll'[v].fill = coll[v].fill,
         \A o \in Orders : TrackedInv(o)',
         \A v \in Venues : PositionInv(v)'
  PROVE  AgreeInv'
  <1>1. \A v \in Venues : Unsaved(v)' = Unsaved(v)
    BY DEF Unsaved
  <1>2. ASSUME NEW o \in Orders PROVE TotalInv(o)' /\ RowInv(o)' /\ ReportedInv(o)'
    <2>1. TotalInv(o) /\ RowInv(o) /\ ReportedInv(o)
      BY DEF AgreeInv
    <2>2. TotalInv(o)'
      BY <2>1 DEF TotalInv, Totals
    <2>3. RowInv(o)'
      BY <2>1 DEF RowInv
    <2>4. ReportedInv(o)'
      <3> SUFFICES ASSUME book[o].at # NoVenue, o \notin late, NEW n \in 1 .. book[o].n
                   PROVE  Reported(o, n)'
        BY DEF ReportedInv
      <3>1. Reported(o, n) /\ book[o].at \in Venues
        BY <2>1 DEF ReportedInv, IInv, TypeOK
      <3> QED BY <1>1, <3>1 DEF Reported
    <2> QED BY <2>2, <2>3, <2>4
  <1>3. ASSUME NEW v \in Venues PROVE OneFillInv(v)'
    BY <1>1 DEF AgreeInv, OneFillInv
  <1>4. \A f, g \in fills' : SameExecution(f, g) => f = g
    BY DEF AgreeInv
  <1> QED BY <1>2, <1>3, <1>4 DEF AgreeInv

\* The fill in the collector's hands is saved: it was not before, so the table has
\* each execution once.
LEMMA SaveFillAgree ==
  ASSUME IInv, BooksInv, AgreeInv, "CreateFill" \notin Faults, NEW v \in Venues, SaveFill(v)
  PROVE  AgreeInv'
  <1> DEFINE f == coll[v].fill
  <1>1. coll[v].pc = "fill" /\ f \in Fill /\ f.order \in Orders /\ book[f.order].at = v
    BY FillOrders DEF SaveFill
  <1>2. Unsaved(v) = {f}
    BY <1>1 DEF Unsaved
  <1>3. \A g \in fills : ~SameExecution(g, f)
    BY <1>2 DEF AgreeInv, OneFillInv
  <1>4. f \notin fills
    BY <1>3 DEF SameExecution
  <1>5. /\ fills' = fills \cup {f}
        /\ coll' = [coll EXCEPT ![v].pc = "order"]
        /\ UNCHANGED <<order, tracked, stage, rows, book, feed, pos, pricer, late>>
    BY <1>4 DEF SaveFill, Result, memory
  <1>6. /\ coll'[v].pc = "order" /\ coll'[v].fill = f
        /\ \A u \in Venues : u # v => coll'[u] = coll[u]
    BY <1>5 DEF IInv, TypeOK
  <1>7. Unsaved(v)' = {} /\ \A u \in Venues : u # v => Unsaved(u)' = Unsaved(u)
    BY <1>6 DEF Unsaved
  <1> HIDE DEF f
  <1>8. ASSUME NEW o \in Orders PROVE TrackedInv(o)' /\ TotalInv(o)' /\ RowInv(o)'
    <2>1. TrackedInv(o) /\ TotalInv(o) /\ RowInv(o)
      BY DEF AgreeInv
    <2>2. TrackedInv(o)' /\ TotalInv(o)'
      BY <1>5, <2>1 DEF TrackedInv, TotalInv, Totals
    <2>3. RowInv(o)'
      BY <1>1, <1>5, <1>6, <2>1 DEF RowInv, f
    <2> QED BY <2>2, <2>3
  <1>9. ASSUME NEW o \in Orders PROVE ReportedInv(o)'
    <2> SUFFICES ASSUME book[o].at # NoVenue, o \notin late, NEW n \in 1 .. book[o].n
                 PROVE  Reported(o, n)'
      BY <1>5 DEF ReportedInv
    <2>1. Reported(o, n) /\ book[o].at \in Venues
      BY DEF AgreeInv, ReportedInv, IInv, TypeOK
    <2>2. CASE book[o].at # v
      BY <1>5, <1>7, <2>1, <2>2 DEF Reported
    <2>3. CASE book[o].at = v
      BY <1>2, <1>5, <2>1, <2>3 DEF Reported
    <2> QED BY <2>2, <2>3
  \* Another venue has no fill of an order at v.
  <1>10. ASSUME NEW u \in Venues, u # v
         PROVE  /\ \A i \in 1 .. Len(feed[u]) : ~SameExecution(feed[u][i], f)
                /\ \A g \in Unsaved(u) : ~SameExecution(f, g)
    BY <1>1, <1>10, FillOrders DEF SameExecution, Unsaved
  <1>11. ASSUME NEW u \in Venues PROVE OneFillInv(u)'
    <2>1. OneFillInv(u)
      BY DEF AgreeInv
    <2>2. CASE u # v
      BY <1>5, <1>7, <1>10, <2>1, <2>2 DEF OneFillInv
    <2>3. CASE u = v
      BY <1>2, <1>5, <1>7, <2>1, <2>3 DEF OneFillInv
    <2> QED BY <2>2, <2>3
  <1>12. ASSUME NEW u \in Venues PROVE PositionInv(u)'
    <2>1. PositionInv(u)
      BY DEF AgreeInv
    <2>2. CASE u # v
      <3>1. ExecutedAt(u)' = ExecutedAt(u)
        BY <1>1, <1>5, <2>2 DEF ExecutedAt
      <3>2. Uncounted(u)' = Uncounted(u)
        BY <1>6, <2>2 DEF Uncounted
      <3> QED BY <1>5, <1>6, <2>1, <2>2, <3>1, <3>2 DEF PositionInv
    <2>3. CASE u = v
      <3>1. ExecutedAt(v)' = ExecutedAt(v) \cup {f} /\ f \notin ExecutedAt(v)
        BY <1>1, <1>4, <1>5 DEF ExecutedAt, f
      <3>2. Uncounted(v) = {} /\ Uncounted(v)' = {f}
        BY <1>1, <1>6 DEF Uncounted
      <3> QED BY <1>5, <1>6, <2>1, <2>3, <3>1, <3>2 DEF PositionInv
    <2> QED BY <2>2, <2>3
  <1>13. \A g, h \in fills' : SameExecution(g, h) => g = h
    BY <1>3, <1>5 DEF AgreeInv, SameExecution
  <1> QED BY <1>8, <1>9, <1>11, <1>12, <1>13 DEF AgreeInv

\* The row catches up with memory.
LEMMA SaveOrderAgree ==
  ASSUME IInv, BooksInv, AgreeInv, "UpdateOrder" \notin Faults, NEW v \in Venues, SaveOrder(v)
  PROVE  AgreeInv'
  <1> DEFINE o == coll[v].fill.order
  <1>1. coll[v].pc = "order" /\ o \in Orders /\ book[o].at = v
    BY FillOrders DEF SaveOrder
  <1>2. /\ rows' = [rows EXCEPT ![o] = order[o]]
        /\ coll' = [coll EXCEPT ![v].pc = "read"]
        /\ UNCHANGED <<order, tracked, stage, book, feed, fills, pos, pricer, late>>
    BY DEF SaveOrder, Result, memory
  <1>3. /\ coll'[v].pc = "read" /\ coll'[v].fill = coll[v].fill
        /\ \A u \in Venues : u # v => coll'[u] = coll[u]
        /\ rows'[o] = order[o] /\ \A p \in Orders : p # o => rows'[p] = rows[p]
    BY <1>1, <1>2 DEF IInv, TypeOK
  <1>4. \A u \in Venues : Unsaved(u)' = Unsaved(u) /\ Uncounted(u)' = Uncounted(u)
    <2>1. Unsaved(v)' = Unsaved(v) /\ Uncounted(v)' = Uncounted(v)
      BY <1>1, <1>3 DEF Unsaved, Uncounted
    <2>2. \A u \in Venues : u # v => Unsaved(u)' = Unsaved(u) /\ Uncounted(u)' = Uncounted(u)
      BY <1>3 DEF Unsaved, Uncounted
    <2> QED BY <2>1, <2>2
  <1> HIDE DEF o
  <1>5. ASSUME NEW p \in Orders PROVE TrackedInv(p)' /\ TotalInv(p)'
    BY <1>2 DEF AgreeInv, TrackedInv, TotalInv, Totals
  <1>6. ASSUME NEW p \in Orders PROVE RowInv(p)'
    <2>1. RowInv(p)
      BY DEF AgreeInv
    <2>2. CASE p = o
      BY <1>2, <1>3, <2>2 DEF RowInv
    <2>3. CASE p # o
      BY <1>1, <1>2, <1>3, <2>1, <2>3 DEF RowInv, o
    <2> QED BY <2>2, <2>3
  <1>7. ASSUME NEW p \in Orders PROVE ReportedInv(p)'
    <2> SUFFICES ASSUME book[p].at # NoVenue, p \notin late, NEW n \in 1 .. book[p].n
                 PROVE  Reported(p, n)'
      BY <1>2 DEF ReportedInv
    <2>1. Reported(p, n) /\ book[p].at \in Venues
      BY DEF AgreeInv, ReportedInv, IInv, TypeOK
    <2> QED BY <1>2, <1>4, <2>1 DEF Reported
  <1>8. ASSUME NEW u \in Venues PROVE OneFillInv(u)' /\ PositionInv(u)'
    <2>1. OneFillInv(u) /\ PositionInv(u)
      BY DEF AgreeInv
    <2>2. OneFillInv(u)'
      BY <1>2, <1>4, <2>1 DEF OneFillInv
    <2>3. ExecutedAt(u)' = ExecutedAt(u)
      BY <1>2 DEF ExecutedAt
    <2>4. coll'[u].pc = "write" => coll'[u] = coll[u]
      BY <1>3
    <2>5. PositionInv(u)'
      BY <1>2, <1>4, <2>1, <2>3, <2>4 DEF PositionInv
    <2> QED BY <2>2, <2>5
  <1>9. \A f, g \in fills' : SameExecution(f, g) => f = g
    BY <1>2 DEF AgreeInv
  <1> QED BY <1>5, <1>6, <1>7, <1>8, <1>9 DEF AgreeInv

\* The collector writes the position it has read, with its fill: no other fill of
\* the venue was saved in the meantime, and nobody else wrote the row.
LEMMA PositionStepAgree ==
  ASSUME IInv, BooksInv, AgreeInv, Faults \subseteq {"CreateOrder", "Publish"},
         NEW v \in Venues, ReadPosition(v) \/ SavePosition(v)
  PROVE  AgreeInv'
  <1> DEFINE f == coll[v].fill
             o == coll[v].fill.order
  <1>1. /\ coll[v].pc \in {"read", "write"} /\ o \in Orders /\ book[o].at = v
        /\ order[o].venue = v
    <2>1. coll[v].pc \in {"read", "write"}
      BY DEF ReadPosition, SavePosition
    <2>2. o \in Orders /\ book[o].at = v /\ stage[o] # "gone"
      BY <2>1, FillOrders
    <2> QED BY <2>1, <2>2, VenueAssumption DEF IInv, PipelineInv, OrderInv
  <1>2. UNCHANGED <<order, stage, rows, book, feed, fills, pricer, late>>
    BY DEF ReadPosition, SavePosition, memory, tables
  <1>3. \A u \in Venues : PositionInv(u) /\ ExecutedAt(u)' = ExecutedAt(u)
    BY <1>2 DEF AgreeInv, ExecutedAt
  <1>4. CASE ReadPosition(v)
    <2>1. /\ coll' = [coll EXCEPT ![v] = [pc |-> "write", fill |-> f, row |-> pos[v]]]
          /\ coll[v].pc = "read" /\ UNCHANGED <<pos, tracked>>
      BY <1>1, <1>4 DEF ReadPosition, Result, tables, memory
    <2>2. /\ coll'[v] = [pc |-> "write", fill |-> f, row |-> pos[v]]
          /\ \A u \in Venues : u # v => coll'[u] = coll[u]
      BY <2>1 DEF IInv, TypeOK
    <2> HIDE DEF f, o
    <2>3. ASSUME NEW u \in Venues PROVE PositionInv(u)'
      <3>1. CASE u = v
        <4>1. Uncounted(v)' = Uncounted(v)
          BY <2>1, <2>2 DEF Uncounted, f
        <4> QED BY <1>2, <1>3, <2>1, <2>2, <3>1, <4>1 DEF PositionInv
      <3>2. CASE u # v
        BY <1>2, <1>3, <2>1, <2>2, <3>2 DEF PositionInv, Uncounted
      <3> QED BY <3>1, <3>2
    <2>4. \A p \in Orders : TrackedInv(p)'
      BY <1>2, <2>1 DEF AgreeInv, TrackedInv
    <2>5. \A u \in Venues : /\ coll'[u].pc = "fill" <=> coll[u].pc = "fill"
                            /\ coll'[u].pc = "order" <=> coll[u].pc = "order"
                            /\ coll[u].pc \in {"fill", "order"} => coll'[u].fill = coll[u].fill
      BY <2>1, <2>2
    <2> QED BY <1>2, <2>3, <2>4, <2>5, BookkeepingAgree
  <1>5. CASE SavePosition(v)
    <2>1. /\ coll' = [coll EXCEPT ![v] = Idle] /\ coll[v].pc = "write"
          /\ pos' = [pos EXCEPT ![v] = NewRow(v)]
          /\ tracked' = Forget(o)
      BY <1>1, <1>5 DEF SavePosition, Result
    <2>2. /\ coll'[v] = Idle /\ \A u \in Venues : u # v => coll'[u] = coll[u]
          /\ pos'[v] = NewRow(v) /\ \A u \in Venues : u # v => pos'[u] = pos[u]
      BY <2>1 DEF IInv, TypeOK
    <2>3. pos'[v] = ExecutedAt(v)
      <3>1. f \in fills
        BY <2>1 DEF BooksInv, FillsInv, ReportInv
      <3>2. f \in ExecutedAt(v)
        BY <1>1, <3>1 DEF ExecutedAt
      <3>3. pos'[v] = (ExecutedAt(v) \ {f}) \cup {f}
        BY <1>3, <2>1, <2>2 DEF NewRow, PositionInv, Uncounted
      <3> QED BY <3>2, <3>3
    <2> HIDE DEF f
    <2>4. ASSUME NEW u \in Venues PROVE PositionInv(u)'
      <3>1. CASE u = v
        <4>1. Uncounted(v)' = {}
          BY <2>2 DEF Uncounted, Idle
        <4> QED BY <1>2, <1>3, <2>2, <2>3, <3>1, <4>1 DEF PositionInv, Idle
      <3>2. CASE u # v
        BY <1>2, <1>3, <2>2, <3>2 DEF PositionInv, Uncounted
      <3> QED BY <3>1, <3>2
    <2>5. ASSUME NEW p \in Orders PROVE TrackedInv(p)'
      <3>1. TrackedInv(p)
        BY DEF AgreeInv
      <3>2. CASE p = o
        BY <1>1, <1>2, <2>1, <3>1, <3>2, VenueAssumption DEF TrackedInv, Forget
      <3>3. CASE p # o
        BY <1>2, <2>1, <3>1, <3>3 DEF TrackedInv, Forget
      <3> QED BY <3>2, <3>3
    <2>6. \A u \in Venues : /\ coll'[u].pc = "fill" <=> coll[u].pc = "fill"
                            /\ coll'[u].pc = "order" <=> coll[u].pc = "order"
                            /\ coll[u].pc \in {"fill", "order"} => coll'[u].fill = coll[u].fill
      BY <2>1, <2>2 DEF Idle
    <2> QED BY <1>2, <2>4, <2>5, <2>6, BookkeepingAgree
  <1> QED BY <1>4, <1>5

\* Every step of a venue's adapter or collector keeps the agreement; the pricer does
\* not run.
LEMMA VenueStepAgree ==
  ASSUME IInv, BooksInv, AgreeInv, NothingFails, NEW v \in Venues, VenueStep(v)
  PROVE  AgreeInv'
  <1>1. "CreateFill" \notin Faults /\ "UpdateOrder" \notin Faults
    BY DEF NothingFails
  <1>2. ~ReadForPrice(v) /\ ~SavePrice(v)
    BY DEF NothingFails, ReadForPrice, SavePrice, AgreeInv, PositionInv
  <1>3. CASE Connect(v) \/ Disconnect(v)
    <2>1. UNCHANGED <<order, tracked, stage, rows, book, feed, fills, pos, coll, pricer, late>>
      BY <1>3 DEF Connect, Disconnect, memory, tables
    <2>2. \A o \in Orders : TrackedInv(o)'
      BY <2>1 DEF AgreeInv, TrackedInv
    <2>3. \A u \in Venues : PositionInv(u)'
      BY <2>1 DEF AgreeInv, PositionInv, Uncounted, ExecutedAt
    <2> QED BY <2>1, <2>2, <2>3, BookkeepingAgree
  <1>4. CASE ReadPosition(v) \/ SavePosition(v)
    BY <1>4, PositionStepAgree DEF NothingFails
  <1> QED BY <1>1, <1>2, <1>3, <1>4, TakeFillAgree, DropFillAgree, SaveFillAgree, SaveOrderAgree
       DEF VenueStep

\* The agreement holds initially ...
LEMMA InitAgree == Init => AgreeInv
  <1> SUFFICES ASSUME Init PROVE AgreeInv
    OBVIOUS
  <1>1. ASSUME NEW o \in Orders
        PROVE  TrackedInv(o) /\ TotalInv(o) /\ RowInv(o) /\ ReportedInv(o)
    <2>1. book[o].at = NoVenue /\ stage[o] = "none"
      BY DEF Init, Unknown
    <2> QED BY <2>1, VenueAssumption DEF TrackedInv, TotalInv, RowInv, ReportedInv
  <1>2. ASSUME NEW v \in Venues PROVE OneFillInv(v) /\ PositionInv(v)
    <2>1. /\ feed[v] = << >> /\ coll[v] = Idle /\ pricer[v] = NotPricing
          /\ pos[v] = {} /\ fills = {}
      BY DEF Init
    <2>2. Len(feed[v]) = 0 /\ \A i \in 1 .. Len(feed[v]) : FALSE
      BY <2>1
    <2>3. OneFillInv(v)
      BY <2>1, <2>2 DEF OneFillInv
    <2>4. PositionInv(v)
      BY <2>1 DEF PositionInv, ExecutedAt, Uncounted, Idle, NotPricing
    <2> QED BY <2>3, <2>4
  <1>3. fills = {}
    BY DEF Init
  <1> QED BY <1>1, <1>2, <1>3 DEF AgreeInv

\* ... and every step keeps it.
LEMMA NextAgree ==
  ASSUME IInv, BooksInv, AgreeInv, NothingFails, [Next]_vars
  PROVE  AgreeInv'
  <1>1. ASSUME NEW o \in Orders, OrderStep(o) PROVE AgreeInv'
    <2>1. CASE \E q \in 1 .. book[o].left : VenueFill(o, q) \/ LoseFill(o, q)
      BY <2>1, ExecutionAgree DEF NothingFails
    <2>2. CASE ~ \E q \in 1 .. book[o].left : VenueFill(o, q) \/ LoseFill(o, q)
      BY <1>1, <2>2, OrderStepAgree DEF NothingFails
    <2> QED BY <2>1, <2>2
  <1>2. ASSUME NEW v \in Venues, VenueStep(v) PROVE AgreeInv'
    BY <1>2, VenueStepAgree
  <1>3. ~Restart
    BY DEF NothingFails, Restart, IInv, TypeOK
  <1>4. ASSUME UNCHANGED vars PROVE AgreeInv'
    <2>1. UNCHANGED <<order, tracked, stage, rows, book, feed, fills, pos, coll, pricer, late>>
      BY <1>4 DEF vars
    <2>2. \A o \in Orders : TrackedInv(o)'
      BY <2>1 DEF AgreeInv, TrackedInv
    <2>3. \A u \in Venues : PositionInv(u)'
      BY <2>1 DEF AgreeInv, PositionInv, Uncounted, ExecutedAt
    <2> QED BY <2>1, <2>2, <2>3, BookkeepingAgree
  <1> QED BY <1>1, <1>2, <1>3, <1>4 DEF Next

\* The executions of an order with an empty channel and an idle collector are as
\* many as its saved fills: each number has one.
LEMMA FillsCounted ==
  ASSUME IInv, BooksInv, AgreeInv, NEW v \in Venues, NEW o \in Orders,
         feed[v] = << >>, coll[v].pc = "idle", book[o].at = v, o \notin late
  PROVE  Cardinality({f \in ExecutedAt(v) : f.order = o}) = book[o].n
  <1> DEFINE S == {f \in ExecutedAt(v) : f.order = o}
             n == book[o].n
             fill(m) == CHOOSE f \in S : f.n = m
             F == [m \in 1 .. n |-> fill(m)]
  <1>1. n \in Nat /\ S = {f \in fills : f.order = o}
    BY DEF IInv, TypeOK, ExecutedAt
  <1>2. \A f \in S : f.n \in 1 .. n
    BY <1>1 DEF BooksInv, FillsInv
  <1>3. \A f, g \in S : f.n = g.n => f = g
    BY <1>1 DEF AgreeInv, SameExecution
  <1>4. ASSUME NEW m \in 1 .. n PROVE \E f \in S : f.n = m
    <2>1. Reported(o, m)
      BY VenueAssumption DEF AgreeInv, ReportedInv
    <2>2. Unsaved(v) = {} /\ Len(feed[v]) = 0
      BY DEF Unsaved
    <2>3. \A i \in 1 .. Len(feed[v]) : FALSE
      BY <2>2
    <2> QED BY <1>1, <2>1, <2>2, <2>3 DEF Reported
  <1> HIDE DEF S, n
  <1>5. \A m \in 1 .. n : fill(m) \in S /\ fill(m).n = m
    BY <1>4
  <1>6. \A f \in S : f.n \in 1 .. n /\ fill(f.n) = f
    BY <1>2, <1>3, <1>5
  <1> HIDE DEF fill
  <1>7. F \in [1 .. n -> S] /\ \A m \in 1 .. n : F[m] = fill(m)
    BY <1>5
  <1> HIDE DEF F
  <1>8. F \in Injection(1 .. n, S)
    <2>1. \A a, b \in 1 .. n : F[a] = F[b] => a = b
      BY <1>5, <1>7
    <2> QED BY <1>7, <2>1, Fun_IsInj
  <1>9. F \in Surjection(1 .. n, S)
    BY <1>6, <1>7, Fun_IsSurj
  <1>10. ExistsBijection(1 .. n, S)
    BY <1>8, <1>9 DEF ExistsBijection, Bijection
  <1> QED BY <1>1, <1>10, FS_CountingElements DEF S, n

\* When nothing on the way of a fill fails, a venue whose channel is empty and
\* whose collector is idle has a position that counts every fill on record, and,
\* but for orders whose SubmitOrder failed late, every execution of the venue, and
\* rows that show what it has executed: no interleaving of dispatcher, collector
\* and venue loses a fill, counts one twice or leaves a row behind (venueDispatch
\* and processFill).
THEOREM BooksAgree ==
  ASSUME NothingFails
  PROVE  Spec => []BooksAgreeWhenIdle
  <1>1. IInv /\ BooksInv /\ AgreeInv /\ [Next]_vars => AgreeInv'
    BY NextAgree
  <1>2. IInv /\ BooksInv /\ AgreeInv => BooksAgreeWhenIdle
    <2> SUFFICES ASSUME IInv, BooksInv, AgreeInv, NEW v \in Venues,
                        feed[v] = << >>, coll[v].pc = "idle"
                 PROVE  /\ pos[v] = ExecutedAt(v)
                        /\ \A o \in Orders \ late : book[o].at = v =>
                              /\ rows[o].filled + book[o].left = rows[o].qty
                              /\ Cardinality({f \in pos[v] : f.order = o}) = book[o].n
      BY DEF BooksAgreeWhenIdle
    <2>1. pos[v] = ExecutedAt(v)
      BY DEF AgreeInv, PositionInv, Uncounted
    <2>2. ASSUME NEW o \in Orders \ late, book[o].at = v
          PROVE  rows[o].filled + book[o].left = rows[o].qty
      <3>1. PICK total \in [0 .. Len(feed[v]) -> Nat] : Totals(o, v, total)
        BY <2>2 DEF AgreeInv, TotalInv
      <3>2. Len(feed[v]) = 0
        OBVIOUS
      <3>3. order[o].filled + book[o].left = order[o].qty
        BY <3>1, <3>2 DEF Totals
      <3>4. rows[o].filled = order[o].filled
        BY <2>2 DEF AgreeInv, RowInv
      <3>5. stage[o] \notin {"none", "refused", "gone"}
        BY <2>2, VenueAssumption, NoneGone DEF BooksInv, RecordInv
      <3>6. rows[o].qty = order[o].qty
        BY <3>5 DEF BooksInv, RecordInv
      <3> QED BY <3>3, <3>4, <3>6
    <2> QED BY <2>1, <2>2, FillsCounted
  <1> QED BY <1>1, <1>2, InitAgree, Invariance, BooksInvariance, PTL DEF Spec
=============================================================================
