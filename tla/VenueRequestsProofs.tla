------------------------- MODULE VenueRequestsProofs -------------------------
(***************************************************************************)
(* What the proofs about the adapters share: what holds of the requests to *)
(* connect and disconnect a venue, whatever its adapter, and of books and  *)
(* inboxes, which have everything once.                                    *)
(***************************************************************************)
EXTENDS VenueRequests, SequencesExt, FiniteSetTheorems, TLAPS

-----------------------------------------------------------------------------
\* Requests

\* Clients that wait for answers have one request under way at a time.
OneAtATime == orderly => \A r, s \in InFlight : r = s

\* The adapter's steps are not among those of the handlers.
LEMMA RequestTypesKept ==
  ASSUME NEW steps, RequestTypes(steps), RequestStep, status' = status
  PROVE  RequestTypes(steps)'
  <1>1. ASSUME NEW r \in Connects, ConnectArrives(r) \/ RegisterCancel(r)
        PROVE  RequestTypes(steps)'
    <2>1. r \in Requests
      BY DEF Requests
    <2> QED BY <1>1, <2>1 DEF ConnectArrives, RegisterCancel, Arrive, Goto, RequestTypes, Steps
  <1>2. ASSUME NEW r \in Disconnects, DisconnectArrives(r) \/ ForgetCancel(r)
        PROVE  RequestTypes(steps)'
    <2>1. r \in Requests
      BY DEF Requests
    <2> QED BY <1>2, <2>1 DEF DisconnectArrives, ForgetCancel, Arrive, Goto, RequestTypes, Steps
  <1> QED BY <1>1, <1>2 DEF RequestStep

\* A request that is under way makes a step: no other gets under way.
LEMMA AdapterOneAtATime ==
  ASSUME NEW S, pc \in [Requests -> S], OneAtATime, orderly' = orderly,
         NEW r \in Requests, r \in InFlight, NEW step, Goto(r, step)
  PROVE  OneAtATime'
  <1>1. \A s \in Requests : s # r => pc'[s] = pc[s]
    BY DEF Goto
  <1>2. InFlight' \subseteq InFlight
    BY <1>1 DEF InFlight
  <1> QED BY <1>2 DEF OneAtATime

\* A request that arrives counts as orderly only when no other is under way.
LEMMA RequestsOneAtATime ==
  ASSUME NEW S, pc \in [Requests -> S], OneAtATime, RequestStep
  PROVE  OneAtATime'
  <1>1. ASSUME NEW r \in Requests, NEW expected, Arrive(r, expected),
               NEW step, Goto(r, step)
        PROVE  OneAtATime'
    <2>1. \A s \in Requests : s # r => pc'[s] = pc[s]
      BY <1>1 DEF Goto
    <2>2. orderly' => InFlight = {}
      BY <1>1 DEF Arrive
    <2>3. InFlight' \subseteq InFlight \cup {r}
      BY <2>1 DEF InFlight
    <2> QED BY <2>2, <2>3 DEF OneAtATime
  <1>2. ASSUME NEW r \in Connects, ConnectArrives(r)
        PROVE  OneAtATime'
    BY <1>1, <1>2 DEF ConnectArrives, Requests
  <1>3. ASSUME NEW r \in Disconnects, DisconnectArrives(r)
        PROVE  OneAtATime'
    BY <1>1, <1>3 DEF DisconnectArrives, Requests
  <1>4. ASSUME NEW r \in Connects, RegisterCancel(r)
        PROVE  OneAtATime'
    BY <1>4, AdapterOneAtATime DEF RegisterCancel, Requests, InFlight
  <1>5. ASSUME NEW r \in Disconnects, ForgetCancel(r)
        PROVE  OneAtATime'
    BY <1>5, AdapterOneAtATime DEF ForgetCancel, Requests, InFlight
  <1> QED BY <1>2, <1>3, <1>4, <1>5 DEF RequestStep

-----------------------------------------------------------------------------
\* Sequences that have everything once

\* Something new is appended to a sequence that has everything once.
LEMMA AppendOnce ==
  ASSUME NEW S, NEW s \in Seq(S), NEW e \in S
  PROVE  /\ Append(s, e) \in Seq(S)
         /\ ToSet(Append(s, e)) = ToSet(s) \cup {e}
         /\ IsInjective(s) /\ e \notin ToSet(s) => IsInjective(Append(s, e))
  <1> DEFINE t == Append(s, e)
             n == Len(s)
  <1>1. /\ n \in Nat /\ DOMAIN s = 1 .. n /\ DOMAIN t = 1 .. n + 1
        /\ t[n + 1] = e /\ t \in Seq(S)
        /\ \A k \in 1 .. n : t[k] = s[k]
    OBVIOUS
  <1> HIDE DEF t, n
  <1>2. \A k \in 1 .. n + 1 : k = n + 1 \/ k \in 1 .. n
    BY <1>1
  <1>3. n + 1 \in 1 .. n + 1 /\ \A k \in 1 .. n : k \in 1 .. n + 1
    BY <1>1
  <1>4. ToSet(t) = ToSet(s) \cup {e}
    BY <1>1, <1>2, <1>3 DEF ToSet
  <1>5. ASSUME IsInjective(s), e \notin ToSet(s)
        PROVE  IsInjective(t)
    BY <1>1, <1>2, <1>5 DEF IsInjective, ToSet
  <1> QED BY <1>1, <1>4, <1>5 DEF t

\* The first element of such a sequence is taken off.
LEMMA TailOnce ==
  ASSUME NEW S, NEW s \in Seq(S), s # << >>, IsInjective(s)
  PROVE  /\ Head(s) \in S /\ Tail(s) \in Seq(S)
         /\ ToSet(Tail(s)) = ToSet(s) \ {Head(s)}
         /\ Head(s) \in ToSet(s)
         /\ IsInjective(Tail(s))
  <1> DEFINE t == Tail(s)
             n == Len(s)
  <1>1. /\ n \in Nat /\ n > 0 /\ DOMAIN s = 1 .. n /\ DOMAIN t = 1 .. n - 1
        /\ Head(s) = s[1] /\ t \in Seq(S) /\ s[1] \in S
        /\ \A k \in 1 .. n - 1 : t[k] = s[k + 1]
    OBVIOUS
  <1> HIDE DEF t, n
  <1>2. 1 \in 1 .. n /\ \A k \in 1 .. n - 1 : k + 1 \in 1 .. n /\ k + 1 # 1
    BY <1>1
  <1>3. \A k \in 1 .. n : k = 1 \/ (k - 1 \in 1 .. n - 1 /\ t[k - 1] = s[k])
    <2> TAKE k \in 1 .. n
    <2>1. k = 1 \/ (k - 1 \in 1 .. n - 1 /\ (k - 1) + 1 = k)
      BY <1>1
    <2> QED BY <1>1, <2>1
  <1>4. \A j, k \in 1 .. n : s[j] = s[k] => j = k
    BY <1>1 DEF IsInjective
  <1>5. ToSet(t) = ToSet(s) \ {s[1]}
    <2>1. ASSUME NEW x \in ToSet(t)
          PROVE  x \in ToSet(s) /\ x # s[1]
      <3>1. PICK k \in 1 .. n - 1 : x = t[k]
        BY <1>1 DEF ToSet
      <3>2. x = s[k + 1] /\ k + 1 \in 1 .. n /\ k + 1 # 1
        BY <1>1, <1>2, <3>1
      <3>3. s[k + 1] # s[1]
        BY <1>2, <1>4, <3>2
      <3> QED BY <1>1, <3>2, <3>3 DEF ToSet
    <2>2. ASSUME NEW x \in ToSet(s), x # s[1]
          PROVE  x \in ToSet(t)
      <3>1. PICK j \in 1 .. n : x = s[j]
        BY <1>1 DEF ToSet
      <3>2. j - 1 \in 1 .. n - 1 /\ t[j - 1] = x
        BY <1>3, <2>2, <3>1
      <3> QED BY <1>1, <3>2 DEF ToSet
    <2> QED BY <2>1, <2>2
  <1>6. IsInjective(t)
    <2>1. ASSUME NEW j \in 1 .. n - 1, NEW k \in 1 .. n - 1, t[j] = t[k]
          PROVE  j = k
      <3>1. j + 1 = k + 1
        BY <1>1, <1>2, <1>4, <2>1
      <3> QED BY <3>1
    <2> QED BY <1>1, <2>1 DEF IsInjective
  <1>7. s[1] \in ToSet(s)
    BY <1>1, <1>2 DEF ToSet
  <1> QED BY <1>1, <1>5, <1>6, <1>7 DEF t

-----------------------------------------------------------------------------
\* The inboxes of feeds

\* The feeds that still hold the message about execution e.
Holders(box, e) == {f \in Connects : \E i \in DOMAIN box[f] : box[f][i] = e}

\* Holding a message is having it in the inbox.
LEMMA HoldersInbox ==
  ASSUME NEW box, NEW e, NEW f \in Connects
  PROVE  f \in Holders(box, e) <=> e \in ToSet(box[f])
  BY DEF Holders, ToSet

\* A feed that reads a message has it no more.
LEMMA HoldersRead ==
  ASSUME NEW M, NEW box \in [Connects -> Seq(M)], NEW f \in Connects,
         box[f] # << >>, IsInjective(box[f])
  PROVE  LET box2 == [box EXCEPT ![f] = Tail(box[f])] IN
         /\ Head(box[f]) \in M /\ f \in Holders(box, Head(box[f]))
         /\ Holders(box2, Head(box[f])) = Holders(box, Head(box[f])) \ {f}
         /\ \A e : e # Head(box[f]) => Holders(box2, e) = Holders(box, e)
         /\ box2 \in [Connects -> Seq(M)]
         /\ IsInjective(box2[f])
  <1> DEFINE box2 == [box EXCEPT ![f] = Tail(box[f])]
  <1>1. /\ Head(box[f]) \in M /\ Tail(box[f]) \in Seq(M)
        /\ ToSet(Tail(box[f])) = ToSet(box[f]) \ {Head(box[f])}
        /\ Head(box[f]) \in ToSet(box[f])
        /\ IsInjective(Tail(box[f]))
    BY TailOnce
  <1>2. box2[f] = Tail(box[f]) /\ \A g \in Connects : g # f => box2[g] = box[g]
    OBVIOUS
  <1> HIDE DEF box2
  <1>3. \A g \in Connects : \A e :
          g \in Holders(box2, e) <=> g \in Holders(box, e) /\ ~ (g = f /\ e = Head(box[f]))
    <2> SUFFICES ASSUME NEW g \in Connects, NEW e
                 PROVE  g \in Holders(box2, e) <=>
                          g \in Holders(box, e) /\ ~ (g = f /\ e = Head(box[f]))
      OBVIOUS
    <2>1. /\ g \in Holders(box2, e) <=> e \in ToSet(box2[g])
          /\ g \in Holders(box, e) <=> e \in ToSet(box[g])
      BY HoldersInbox
    <2> QED BY <1>1, <1>2, <2>1
  <1>4. \A e : Holders(box, e) \subseteq Connects /\ Holders(box2, e) \subseteq Connects
    BY DEF Holders
  <1>5. f \in Holders(box, Head(box[f]))
    BY <1>1, HoldersInbox
  <1>6. Holders(box2, Head(box[f])) = Holders(box, Head(box[f])) \ {f}
    BY <1>3, <1>4
  <1>7. ASSUME NEW e, e # Head(box[f])
        PROVE  Holders(box2, e) = Holders(box, e)
    <2>1. \A g \in Connects : g \in Holders(box2, e) <=> g \in Holders(box, e)
      BY <1>3, <1>7
    <2> QED BY <1>4, <2>1
  <1>8. box2 \in [Connects -> Seq(M)] /\ IsInjective(box2[f])
    BY <1>1, <1>2 DEF box2
  <1> QED BY <1>1, <1>5, <1>6, <1>7, <1>8 DEF box2

\* The venue tells the streams in L of an execution nobody was told of.
LEMMA HoldersTold ==
  ASSUME NEW M, NEW box \in [Connects -> Seq(M)], NEW e \in M, NEW L \in SUBSET Connects,
         \A f \in Connects : IsInjective(box[f]), Holders(box, e) = {},
         NEW box2 \in [Connects -> Seq(M)],
         \A f \in Connects : box2[f] = IF f \in L THEN Append(box[f], e) ELSE box[f]
  PROVE  /\ Holders(box2, e) = L
         /\ \A d : d # e => Holders(box2, d) = Holders(box, d)
         /\ \A f \in Connects : IsInjective(box2[f])
  <1>1. ASSUME NEW f \in Connects
        PROVE  /\ IsInjective(box2[f])
               /\ ToSet(box2[f]) = ToSet(box[f]) \cup (IF f \in L THEN {e} ELSE {})
    <2>1. e \notin ToSet(box[f])
      BY HoldersInbox
    <2>2. CASE f \in L
      <3>1. box2[f] = Append(box[f], e)
        BY <2>2
      <3>2. box[f] \in Seq(M) /\ IsInjective(box[f])
        OBVIOUS
      <3> QED BY <2>1, <2>2, <3>1, <3>2, AppendOnce
    <2>3. CASE f \notin L
      BY <2>3
    <2> QED BY <2>2, <2>3
  <1>2. \A f \in Connects : \A d :
          /\ f \in Holders(box2, d) <=> d \in ToSet(box2[f])
          /\ f \in Holders(box, d) <=> d \in ToSet(box[f])
    BY HoldersInbox
  <1>3. \A d : Holders(box, d) \subseteq Connects /\ Holders(box2, d) \subseteq Connects
    BY DEF Holders
  <1>4. \A f \in Connects : f \in Holders(box2, e) <=> f \in L
    BY <1>1, <1>2
  <1>5. ASSUME NEW d, d # e
        PROVE  Holders(box2, d) = Holders(box, d)
    <2>1. \A f \in Connects : f \in Holders(box2, d) <=> f \in Holders(box, d)
      BY <1>1, <1>2, <1>5
    <2> QED BY <1>3, <2>1
  <1>6. Holders(box2, e) = L
    BY <1>3, <1>4
  <1> QED BY <1>1, <1>5, <1>6

\* Fewer holders are fewer messages.
LEMMA HoldersCounted ==
  ASSUME NEW A, IsFiniteSet(A), NEW B \in SUBSET A
  PROVE  /\ IsFiniteSet(B)
         /\ \A f : IsFiniteSet(A \cup {f})
         /\ Cardinality(A) \in Nat /\ Cardinality(B) \in Nat
         /\ Cardinality(B) <= Cardinality(A)
         /\ Cardinality(A) = 0 <=> A = {}
         /\ \A f \in A : Cardinality(A \ {f}) = Cardinality(A) - 1
         /\ \A f : f \notin A => Cardinality(A \cup {f}) = Cardinality(A) + 1
  <1>1. IsFiniteSet(B) /\ Cardinality(B) <= Cardinality(A)
    BY FS_Subset
  <1> QED BY <1>1, FS_CardinalityType, FS_EmptySet, FS_RemoveElement, FS_AddElement
=============================================================================
