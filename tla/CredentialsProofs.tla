-------------------------- MODULE CredentialsProofs --------------------------
(***************************************************************************)
(* Theorems about the credential manager, for any venues, requests,        *)
(* rotations and passphrases.                                              *)
(***************************************************************************)
EXTENDS Credentials, FiniteSetTheorems, SequenceTheorems, TLAPS

-----------------------------------------------------------------------------
\* The inductive invariant

\* What a store request has in hand is its own credential.
HeldInv == \A s \in Stores : \A row \in held[s] : row.credential = s

\* A rotation between its read and its write has one row in hand; it is the
\* credential stored last unless the venue was written in the meantime.
InHandInv ==
  \A r \in Rotations : rot[r] = "write" =>
    /\ todo[r] # << >>
    /\ \E row \in AllRows :
         /\ held[r] = {row}
         /\ Head(todo[r]) \notin raced => latest[Head(todo[r])] = {row.credential}

\* Venues with a row.
Listed == {v \in Venues : rows[v] # {}}

\* Every row of the venues that were not stored across a rotation opens with p.
AllOpenWith(p) == \A v \in Venues \ straddled : \A row \in rows[v] : row.under = p

\* A rotation that is alone: what it has yet to rotate opens with the old
\* passphrase, the rest with the new one.
HalfWay(r) ==
  /\ IsInjective(todo[r])
  /\ r \notin touched => AllOpenWith(passphrase)
  /\ \A v \in Venues \ straddled : \A row \in rows[v] :
       row.under = IF v \in ToSet(todo[r]) THEN passphrase ELSE New[r]

RotationInv ==
  ~disturbed => /\ \A r, q \in Rotating : r = q
                /\ Rotating = {} => AllOpenWith(passphrase)
                /\ \A r \in Rotating : HalfWay(r)

UntouchedInv == \A r \in Rotations : rot[r] = "idle" => r \notin touched

CredentialInv ==
  /\ TypeOK /\ HeldInv /\ InHandInv /\ RowsAreLatest
  /\ IsFiniteSet(Listed) /\ UntouchedInv /\ RotationInv

-----------------------------------------------------------------------------
\* Lemmas about rows and listings

\* A set of at most one element is empty or has one.
LEMMA AtMostOneOf ==
  ASSUME NEW S
  PROVE  /\ {} \in AtMostOne(S)
         /\ \A x \in S : {x} \in AtMostOne(S)
         /\ \A X \in AtMostOne(S) : \A x \in X : x \in S /\ X = {x}
  BY DEF AtMostOne

\* A row has a credential and a passphrase.
LEMMA RowFields ==
  /\ \A s \in Stores, p \in Passphrases :
       Row(s, p) \in AllRows /\ Row(s, p).credential = s /\ Row(s, p).under = p
  /\ \A row \in AllRows : row.credential \in Stores /\ row.under \in Passphrases
  BY DEF Row, AllRows

\* The table has at most one row per venue.
LEMMA OneRow ==
  ASSUME TypeOK
  PROVE  /\ \A v \in Venues : \A row \in rows[v] : row \in AllRows /\ rows[v] = {row}
         /\ \A x \in Requests \cup Rotations :
              \A row \in held[x] : row \in AllRows /\ held[x] = {row}
  BY AtMostOneOf DEF TypeOK

\* A listing has every venue with a row once.
LEMMA ListingEffects ==
  ASSUME IsFiniteSet(Listed), NEW listing \in SetToSeqs(Listed)
  PROVE  /\ listing \in Seq(Venues) /\ IsInjective(listing)
         /\ ToSet(listing) = Listed
  <1> DEFINE n == Cardinality(Listed)
             D == 1 .. n
  <1>1. n \in Nat
    BY FS_CardinalityType
  <1>2. /\ listing \in [D -> Listed]
        /\ \A i, j \in D : i # j => listing[i] # listing[j]
    BY DEF SetToSeqs
  <1>3. IsFiniteSet(D) /\ Cardinality(D) = n
    BY <1>1, FS_Interval
  <1> HIDE DEF n, D
  <1>4. listing \in Injection(D, Listed)
    BY <1>2 DEF Injection, IsInjective
  <1>5. listing \in Surjection(D, Listed)
    BY <1>3, <1>4, FS_Injection DEF n
  <1>6. ToSet(listing) = Listed
    BY <1>2, <1>5 DEF Surjection, ToSet
  <1>7. listing \in Seq(Venues)
    <2>1. listing \in [1 .. n -> Venues]
      BY <1>2 DEF D, Listed
    <2> QED BY <1>1, <2>1
  <1>8. IsInjective(listing)
    BY <1>2 DEF IsInjective
  <1> QED BY <1>6, <1>7, <1>8

\* The first element of a sequence without repetitions is taken off.
LEMMA TailOnce ==
  ASSUME NEW S, NEW s \in Seq(S), s # << >>, IsInjective(s)
  PROVE  /\ Head(s) \in S /\ Tail(s) \in Seq(S)
         /\ Head(s) \in ToSet(s)
         /\ ToSet(Tail(s)) = ToSet(s) \ {Head(s)}
         /\ IsInjective(Tail(s))
  <1> DEFINE t == Tail(s)
             n == Len(s)
  <1>1. /\ n \in Nat /\ n > 0 /\ DOMAIN s = 1 .. n /\ DOMAIN t = 1 .. n - 1
        /\ Head(s) = s[1] /\ t \in Seq(S) /\ s[1] \in S
        /\ \A k \in 1 .. n - 1 : t[k] = s[k + 1]
    OBVIOUS
  <1> HIDE DEF t, n
  <1>2. 1 \in 1 .. n /\ \A k \in 1 .. n - 1 : k + 1 \in 1 .. n /\ k + 1 # 1
    BY <1>1
  <1>3. \A k \in 1 .. n : k = 1 \/ (k - 1 \in 1 .. n - 1 /\ t[k - 1] = s[k])
    <2> TAKE k \in 1 .. n
    <2>1. k = 1 \/ (k - 1 \in 1 .. n - 1 /\ (k - 1) + 1 = k)
      BY <1>1
    <2> QED BY <1>1, <2>1
  <1>4. \A j, k \in 1 .. n : s[j] = s[k] => j = k
    BY <1>1 DEF IsInjective
  <1>5. ToSet(t) = ToSet(s) \ {s[1]}
    <2>1. ASSUME NEW x \in ToSet(t)
          PROVE  x \in ToSet(s) /\ x # s[1]
      <3>1. PICK k \in 1 .. n - 1 : x = t[k]
        BY <1>1 DEF ToSet
      <3>2. x = s[k + 1] /\ k + 1 \in 1 .. n /\ k + 1 # 1
        BY <1>1, <1>2, <3>1
      <3>3. s[k + 1] # s[1]
        BY <1>2, <1>4, <3>2
      <3> QED BY <1>1, <3>2, <3>3 DEF ToSet
    <2>2. ASSUME NEW x \in ToSet(s), x # s[1]
          PROVE  x \in ToSet(t)
      <3>1. PICK j \in 1 .. n : x = s[j]
        BY <1>1 DEF ToSet
      <3>2. j - 1 \in 1 .. n - 1 /\ t[j - 1] = x
        BY <1>3, <2>2, <3>1
      <3> QED BY <1>1, <3>2 DEF ToSet
    <2> QED BY <2>1, <2>2
  <1>6. IsInjective(t)
    <2>1. ASSUME NEW j \in 1 .. n - 1, NEW k \in 1 .. n - 1, t[j] = t[k]
          PROVE  j = k
      <3>1. j + 1 = k + 1
        BY <1>1, <1>2, <1>4, <2>1
      <3> QED BY <3>1
    <2> QED BY <1>1, <2>1 DEF IsInjective
  <1>7. s[1] \in ToSet(s)
    BY <1>1, <1>2 DEF ToSet
  <1> QED BY <1>1, <1>5, <1>6, <1>7 DEF t

-----------------------------------------------------------------------------
\* The requests

\* A request writes X in the table: a row of its own, or none.
Writes(v, X) ==
  /\ rows' = [rows EXCEPT ![v] = X]
  /\ latest' = [latest EXCEPT ![v] = {row.credential : row \in X}]
  /\ {row.credential : row \in X} \in AtMostOne(Stores)
  /\ raced' = IF InHand(v) THEN raced \cup {v} ELSE raced
  /\ straddled' \in {straddled, straddled \cup {v}}
  /\ v \in straddled' \/ \A row \in X : Rotating = {} /\ row.under = passphrase

\* What a request changes.
LEMMA RequestEffects ==
  ASSUME TypeOK, HeldInv, RequestStep
  PROVE  \E q \in Requests :
           /\ req' \in [Requests -> {"idle", "busy", "ok", "failed"}]
           /\ held' \in [Requests \cup Rotations -> AtMostOne(AllRows)]
           /\ \A x \in Requests \cup Rotations : x # q => held'[x] = held[x]
           /\ q \in Stores => \A row \in held'[q] : row.credential = q
           /\ \/ UNCHANGED <<rows, latest, raced, straddled>>
              \/ \E v \in Venues : \E X \in AtMostOne(AllRows) : Writes(v, X)
  <1>0. /\ Stores \subseteq Requests /\ Deletes \subseteq Requests /\ Retrieves \subseteq Requests
        /\ Venue \in [Requests -> Venues]
        /\ held \in [Requests \cup Rotations -> AtMostOne(AllRows)]
        /\ req \in [Requests -> {"idle", "busy", "ok", "failed"}]
        /\ {} \in AtMostOne(AllRows)
    BY CredentialAssumption, AtMostOneOf DEF Requests, TypeOK
  <1>1. ASSUME NEW s \in Stores, StoreEncrypts(s)
        PROVE  /\ req' \in [Requests -> {"idle", "busy", "ok", "failed"}]
               /\ held' \in [Requests \cup Rotations -> AtMostOne(AllRows)]
               /\ \A x \in Requests \cup Rotations : x # s => held'[x] = held[x]
               /\ \A row \in held'[s] : row.credential = s
               /\ UNCHANGED <<rows, latest, raced, straddled>>
    <2> DEFINE row == Row(s, passphrase)
    <2>1. row \in AllRows /\ row.credential = s
      BY RowFields DEF TypeOK
    <2>2. {row} \in AtMostOne(AllRows)
      BY <2>1, AtMostOneOf
    <2>3. held' = [held EXCEPT ![s] = {row}] /\ req' = [req EXCEPT ![s] = "busy"]
      BY <1>1 DEF StoreEncrypts
    <2>4. s \in Requests /\ s \in Requests \cup Rotations
      BY <1>0
    <2> HIDE DEF row
    <2>5. /\ held' \in [Requests \cup Rotations -> AtMostOne(AllRows)] /\ held'[s] = {row}
          /\ \A x \in Requests \cup Rotations : x # s => held'[x] = held[x]
      BY <1>0, <2>2, <2>3, <2>4
    <2>6. req' \in [Requests -> {"idle", "busy", "ok", "failed"}]
      BY <1>0, <2>3, <2>4
    <2> QED BY <1>1, <2>1, <2>5, <2>6 DEF StoreEncrypts
  <1>2. ASSUME NEW s \in Stores, StorePersists(s)
        PROVE  /\ req' \in [Requests -> {"idle", "busy", "ok", "failed"}]
               /\ held' \in [Requests \cup Rotations -> AtMostOne(AllRows)]
               /\ \A x \in Requests \cup Rotations : x # s => held'[x] = held[x]
               /\ \A row \in held'[s] : row.credential = s
               /\ \/ UNCHANGED <<rows, latest, raced, straddled>>
                  \/ \E v \in Venues : \E X \in AtMostOne(AllRows) : Writes(v, X)
    <2>1. /\ held' \in [Requests \cup Rotations -> AtMostOne(AllRows)] /\ held'[s] = {}
          /\ \A x \in Requests \cup Rotations : x # s => held'[x] = held[x]
          /\ req' \in [Requests -> {"idle", "busy", "ok", "failed"}]
      BY <1>0, <1>2 DEF StorePersists
    <2>2. ASSUME ~ UNCHANGED <<rows, latest, raced, straddled>>
          PROVE  \E v \in Venues : \E X \in AtMostOne(AllRows) : Writes(v, X)
      <3> DEFINE v == Venue[s]
      <3>1. PICK row \in held[s] :
              /\ rows' = [rows EXCEPT ![v] = {row}]
              /\ straddled' = IF Rotating # {} \/ ~OpensWith(row, passphrase)
                              THEN straddled \cup {v} ELSE straddled
        BY <1>2, <2>2 DEF StorePersists, Upsert
      <3>2. /\ latest' = [latest EXCEPT ![v] = {s}]
            /\ raced' = IF InHand(v) THEN raced \cup {v} ELSE raced
        BY <1>2, <2>2 DEF StorePersists
      <3>3. row \in AllRows /\ row.credential = s
        BY <1>0, OneRow DEF HeldInv
      <3>4. {row} \in AtMostOne(AllRows) /\ {s} \in AtMostOne(Stores)
        BY <3>3, AtMostOneOf
      <3>5. {x.credential : x \in {row}} = {s}
        BY <3>3
      <3>6. v \in Venues
        BY <1>0
      <3> HIDE DEF v
      <3>7. v \in straddled' \/ (Rotating = {} /\ row.under = passphrase)
        BY <3>1 DEF OpensWith
      <3>8. Writes(v, {row})
        BY <3>1, <3>2, <3>4, <3>5, <3>7 DEF Writes
      <3> QED BY <3>4, <3>6, <3>8
    <2> QED BY <2>1, <2>2
  <1>3. ASSUME NEW d \in Deletes, Delete(d)
        PROVE  /\ req' \in [Requests -> {"idle", "busy", "ok", "failed"}]
               /\ held' = held
               /\ \/ UNCHANGED <<rows, latest, raced, straddled>>
                  \/ \E v \in Venues : \E X \in AtMostOne(AllRows) : Writes(v, X)
    <2>1. req' \in [Requests -> {"idle", "busy", "ok", "failed"}] /\ held' = held
      BY <1>0, <1>3 DEF Delete
    <2>2. ASSUME ~ UNCHANGED <<rows, latest, raced, straddled>>
          PROVE  \E v \in Venues : \E X \in AtMostOne(AllRows) : Writes(v, X)
      <3> DEFINE v == Venue[d]
      <3>1. /\ rows' = [rows EXCEPT ![v] = {}] /\ latest' = [latest EXCEPT ![v] = {}]
            /\ raced' = IF InHand(v) THEN raced \cup {v} ELSE raced
            /\ straddled' = straddled
        BY <1>3, <2>2 DEF Delete
      <3>2. v \in Venues /\ {} \in AtMostOne(AllRows) /\ {} \in AtMostOne(Stores)
        BY <1>0, AtMostOneOf
      <3>3. {x.credential : x \in {}} = {}
        OBVIOUS
      <3> HIDE DEF v
      <3>4. Writes(v, {})
        BY <3>1, <3>2, <3>3 DEF Writes
      <3> QED BY <3>2, <3>4
    <2> QED BY <2>1, <2>2
  <1>4. ASSUME NEW q \in Retrieves, RetrieveReads(q) \/ RetrieveOpens(q)
        PROVE  /\ req' \in [Requests -> {"idle", "busy", "ok", "failed"}]
               /\ held' \in [Requests \cup Rotations -> AtMostOne(AllRows)]
               /\ \A x \in Requests \cup Rotations : x # q => held'[x] = held[x]
               /\ UNCHANGED <<rows, latest, raced, straddled>>
    <2>1. rows[Venue[q]] \in AtMostOne(AllRows)
      BY <1>0 DEF TypeOK
    <2> QED BY <1>0, <1>4, <2>1 DEF RetrieveReads, RetrieveOpens
  <1>5. ASSUME NEW s \in Stores, StoreEncrypts(s) \/ StorePersists(s)
        PROVE  \E q \in Requests :
                 /\ req' \in [Requests -> {"idle", "busy", "ok", "failed"}]
                 /\ held' \in [Requests \cup Rotations -> AtMostOne(AllRows)]
                 /\ \A x \in Requests \cup Rotations : x # q => held'[x] = held[x]
                 /\ q \in Stores => \A row \in held'[q] : row.credential = q
                 /\ \/ UNCHANGED <<rows, latest, raced, straddled>>
                    \/ \E v \in Venues : \E X \in AtMostOne(AllRows) : Writes(v, X)
    <2>1. s \in Requests
      BY <1>0
    <2> QED BY <1>1, <1>2, <1>5, <2>1
  <1>6. ASSUME NEW q \in Deletes \cup Retrieves,
               \/ q \in Deletes /\ Delete(q)
               \/ q \in Retrieves /\ (RetrieveReads(q) \/ RetrieveOpens(q))
        PROVE  /\ q \in Requests /\ q \notin Stores
               /\ req' \in [Requests -> {"idle", "busy", "ok", "failed"}]
               /\ held' \in [Requests \cup Rotations -> AtMostOne(AllRows)]
               /\ \A x \in Requests \cup Rotations : x # q => held'[x] = held[x]
               /\ \/ UNCHANGED <<rows, latest, raced, straddled>>
                  \/ \E v \in Venues : \E X \in AtMostOne(AllRows) : Writes(v, X)
    <2>1. q \in Requests /\ q \notin Stores
      BY <1>0, CredentialAssumption
    <2> QED BY <1>0, <1>3, <1>4, <1>6, <2>1
  <1>7. CASE \E s \in Stores : StoreEncrypts(s) \/ StorePersists(s)
    BY <1>5, <1>7
  <1>8. CASE \/ \E d \in Deletes : Delete(d)
             \/ \E q \in Retrieves : RetrieveReads(q) \/ RetrieveOpens(q)
    <2>1. PICK q \in Deletes \cup Retrieves :
            \/ q \in Deletes /\ Delete(q)
            \/ q \in Retrieves /\ (RetrieveReads(q) \/ RetrieveOpens(q))
      BY <1>8
    <2> QED BY <1>6, <2>1
  <1> QED BY <1>7, <1>8 DEF RequestStep

\* A request keeps the invariant but for RotationInv.
LEMMA RequestPreserves ==
  ASSUME CredentialInv, RequestStep
  PROVE  /\ TypeOK' /\ HeldInv' /\ InHandInv' /\ RowsAreLatest'
         /\ IsFiniteSet(Listed)' /\ UntouchedInv'
  <1> USE DEF CredentialInv
  <1>1. UNCHANGED <<passphrase, rot, todo, touched, disturbed>>
    BY DEF RequestStep
  <1>2. PICK q \in Requests :
           /\ req' \in [Requests -> {"idle", "busy", "ok", "failed"}]
           /\ held' \in [Requests \cup Rotations -> AtMostOne(AllRows)]
           /\ \A x \in Requests \cup Rotations : x # q => held'[x] = held[x]
           /\ q \in Stores => \A row \in held'[q] : row.credential = q
           /\ \/ UNCHANGED <<rows, latest, raced, straddled>>
              \/ \E v \in Venues : \E X \in AtMostOne(AllRows) : Writes(v, X)
    BY RequestEffects
  <1>3. Stores \subseteq Requests /\ \A r \in Rotations : r # q
    BY CredentialAssumption DEF Requests
  <1>4. HeldInv'
    BY <1>2, <1>3 DEF HeldInv
  <1>5. UntouchedInv'
    BY <1>1 DEF UntouchedInv
  <1>6. \A r \in Rotations : held'[r] = held[r]
    BY <1>2, <1>3
  <1>7. CASE UNCHANGED <<rows, latest, raced, straddled>>
    <2>1. TypeOK'
      BY <1>1, <1>2, <1>7 DEF TypeOK
    <2>2. InHandInv'
      BY <1>1, <1>6, <1>7 DEF InHandInv
    <2>3. RowsAreLatest' /\ IsFiniteSet(Listed)'
      BY <1>7 DEF RowsAreLatest, Listed
    <2> QED BY <1>4, <1>5, <2>1, <2>2, <2>3
  <1>8. ASSUME NEW v \in Venues, NEW X \in AtMostOne(AllRows), Writes(v, X)
        PROVE  TypeOK' /\ InHandInv' /\ RowsAreLatest' /\ IsFiniteSet(Listed)'
    <2> DEFINE C == {row.credential : row \in X}
    <2>1. /\ rows' = [rows EXCEPT ![v] = X] /\ latest' = [latest EXCEPT ![v] = C]
          /\ C \in AtMostOne(Stores)
          /\ raced' = IF InHand(v) THEN raced \cup {v} ELSE raced
          /\ straddled' \in {straddled, straddled \cup {v}}
      BY <1>8 DEF Writes
    <2>2. /\ rows' \in [Venues -> AtMostOne(AllRows)] /\ rows'[v] = X
          /\ \A u \in Venues : u # v => rows'[u] = rows[u]
      BY <2>1 DEF TypeOK
    <2>3. latest'[v] = C /\ \A u \in Venues : u # v => latest'[u] = latest[u]
      BY <2>1 DEF TypeOK
    <2>4. RowsAreLatest'
      <3>1. ASSUME NEW u \in Venues \ raced'
            PROVE  {row.credential : row \in rows'[u]} = latest'[u]
        <4>1. CASE u = v
          BY <2>2, <2>3, <4>1
        <4>2. CASE u # v
          <5>1. u \notin raced
            BY <2>1
          <5> QED BY <2>2, <2>3, <4>2, <5>1 DEF RowsAreLatest
        <4> QED BY <4>1, <4>2
      <3> QED BY <3>1 DEF RowsAreLatest
    <2> HIDE DEF C
    <2>5. TypeOK'
      <3>1. latest' \in [Venues -> AtMostOne(Stores)]
        BY <2>1 DEF TypeOK
      <3>2. raced' \subseteq Venues /\ straddled' \subseteq Venues
        BY <2>1 DEF TypeOK
      <3> QED BY <1>1, <1>2, <2>2, <3>1, <3>2 DEF TypeOK
    <2>6. InHandInv'
      <3>1. ASSUME NEW r \in Rotations, rot[r] = "write"
            PROVE  \E row \in AllRows :
                      /\ held'[r] = {row}
                      /\ Head(todo[r]) \notin raced' => latest'[Head(todo[r])] = {row.credential}
        <4>1. PICK row \in AllRows :
                /\ held[r] = {row}
                /\ Head(todo[r]) \notin raced => latest[Head(todo[r])] = {row.credential}
          BY <3>1 DEF InHandInv
        <4>2. todo[r] \in Seq(Venues) /\ todo[r] # << >>
          BY <3>1 DEF InHandInv, TypeOK
        <4>3. Head(todo[r]) \in Venues
          BY <4>2
        <4>4. CASE Head(todo[r]) = v
          <5>1. InHand(v)
            BY <3>1, <4>4 DEF InHand
          <5>2. v \in raced'
            BY <2>1, <5>1
          <5> QED BY <1>6, <4>1, <4>4, <5>2
        <4>5. CASE Head(todo[r]) # v
          <5>1. latest'[Head(todo[r])] = latest[Head(todo[r])]
            BY <2>3, <4>3, <4>5
          <5>2. Head(todo[r]) \notin raced' => Head(todo[r]) \notin raced
            BY <2>1
          <5> QED BY <1>6, <4>1, <5>1, <5>2
        <4> QED BY <4>4, <4>5
      <3> QED BY <1>1, <3>1 DEF InHandInv
    <2>7. IsFiniteSet(Listed)'
      <3>1. Listed' \subseteq Listed \cup {v}
        BY <2>2 DEF Listed
      <3>2. IsFiniteSet(Listed \cup {v})
        BY FS_AddElement
      <3> QED BY <3>1, <3>2, FS_Subset
    <2> QED BY <2>4, <2>5, <2>6, <2>7
  <1> QED BY <1>2, <1>4, <1>5, <1>7, <1>8

\* A request leaves the rows of other venues, and its own as the rotations
\* need it.
LEMMA RequestRotationInv ==
  ASSUME CredentialInv, RequestStep
  PROVE  RotationInv'
  <1> USE DEF CredentialInv
  <1>1. UNCHANGED <<passphrase, rot, todo, touched, disturbed>> /\ Rotating' = Rotating
    BY DEF RequestStep, Rotating
  <1>2. \/ UNCHANGED <<rows, straddled>>
        \/ \E v \in Venues : \E X \in AtMostOne(AllRows) : Writes(v, X)
    BY RequestEffects
  <1>3. CASE UNCHANGED <<rows, straddled>>
    BY <1>1, <1>3 DEF RotationInv, AllOpenWith, HalfWay
  <1>4. ASSUME NEW v \in Venues, NEW X \in AtMostOne(AllRows), Writes(v, X)
        PROVE  RotationInv'
    <2>1. /\ rows'[v] = X /\ \A u \in Venues : u # v => rows'[u] = rows[u]
          /\ straddled \subseteq straddled'
          /\ v \in straddled' \/ \A row \in X : Rotating = {} /\ row.under = passphrase
      BY <1>4 DEF Writes, TypeOK
    <2>2. ASSUME AllOpenWith(passphrase), Rotating = {}
          PROVE  AllOpenWith(passphrase)'
      <3>1. ASSUME NEW u \in Venues \ straddled', NEW row \in rows'[u]
            PROVE  row.under = passphrase
        <4>1. CASE u = v
          BY <2>1, <4>1, <3>1
        <4>2. CASE u # v
          <5>1. u \in Venues \ straddled /\ row \in rows[u]
            BY <2>1, <4>2, <3>1
          <5> QED BY <2>2, <5>1 DEF AllOpenWith
        <4> QED BY <4>1, <4>2
      <3> QED BY <1>1, <3>1 DEF AllOpenWith
    <2>3. ASSUME NEW r \in Rotating, HalfWay(r)
          PROVE  HalfWay(r)'
      <3>1. ASSUME NEW u \in Venues \ straddled'
            PROVE  u \notin straddled /\ (rows'[u] = rows[u] \/ rows'[u] = {})
        <4>1. u = v => rows'[u] = {}
          BY <2>1, <3>1
        <4> QED BY <2>1, <3>1, <4>1
      <3>2. IsInjective(todo'[r])
        BY <1>1, <2>3 DEF HalfWay
      <3>3. r \notin touched' => AllOpenWith(passphrase)'
        <4>1. ASSUME r \notin touched', NEW u \in Venues \ straddled', NEW row \in rows'[u]
              PROVE  row.under = passphrase
          <5>1. r \notin touched /\ u \in Venues \ straddled /\ row \in rows[u]
            BY <1>1, <3>1, <4>1
          <5> QED BY <2>3, <5>1 DEF HalfWay, AllOpenWith
        <4> QED BY <1>1, <4>1 DEF AllOpenWith
      <3>4. ASSUME NEW u \in Venues \ straddled', NEW row \in rows'[u]
            PROVE  row.under = IF u \in ToSet(todo'[r]) THEN passphrase ELSE New[r]
        <4>1. u \in Venues \ straddled /\ row \in rows[u]
          BY <3>1, <3>4
        <4> QED BY <1>1, <2>3, <4>1 DEF HalfWay
      <3> QED BY <1>1, <3>2, <3>3, <3>4 DEF HalfWay
    <2> QED BY <1>1, <2>2, <2>3 DEF RotationInv
  <1> QED BY <1>2, <1>3, <1>4

-----------------------------------------------------------------------------
\* The rotations

\* A rotation keeps the types.
LEMMA RotationTypes ==
  ASSUME CredentialInv, RotationStep
  PROVE  TypeOK' /\ HeldInv'
  <1> USE DEF CredentialInv
  <1>1. PICK r \in Rotations :
          RotationStarts(r) \/ RotationReads(r) \/ RotationWrites(r) \/ RotationEnds(r)
    BY DEF RotationStep
  <1>2. UNCHANGED <<req, latest, raced, straddled>>
    BY DEF RotationStep
  <1>3. /\ r \in Requests \cup Rotations /\ r \notin Stores /\ Stores \subseteq Requests
        /\ todo[r] \in Seq(Venues) /\ New[r] \in Passphrases
        /\ rot \in [Rotations -> {"idle", "read", "write", "ok", "failed"}]
        /\ todo \in [Rotations -> Seq(Venues)]
        /\ held \in [Requests \cup Rotations -> AtMostOne(AllRows)]
        /\ rows \in [Venues -> AtMostOne(AllRows)]
        /\ passphrase \in Passphrases /\ touched \subseteq Rotations /\ disturbed \in BOOLEAN
    BY CredentialAssumption DEF Requests, TypeOK
  <1>4. /\ held' \in [Requests \cup Rotations -> AtMostOne(AllRows)]
        /\ \A s \in Stores : held'[s] = held[s]
    <2>1. PICK X \in AtMostOne(AllRows) : held' = [held EXCEPT ![r] = X] \/ held' = held
      <3>1. CASE RotationStarts(r) \/ RotationEnds(r)
        BY <3>1, AtMostOneOf DEF RotationStarts, RotationEnds
      <3>2. CASE RotationReads(r)
        <4>1. Head(todo[r]) \in Venues
          BY <1>3, <3>2 DEF RotationReads
        <4>2. \A row \in rows[Head(todo[r])] : {row} \in AtMostOne(AllRows)
          BY <4>1, OneRow, AtMostOneOf
        <4> QED BY <3>2, <4>2, AtMostOneOf DEF RotationReads
      <3>3. CASE RotationWrites(r)
        BY <3>3, AtMostOneOf DEF RotationWrites
      <3> QED BY <1>1, <3>1, <3>2, <3>3
    <2> QED BY <1>3, <2>1
  <1>5. rows' \in [Venues -> AtMostOne(AllRows)]
    <2>1. CASE rows' = rows
      BY <1>3, <2>1
    <2>2. CASE RotationWrites(r) /\ rows' # rows
      <3>1. PICK row \in held[r] :
              rows' = [rows EXCEPT ![Head(todo[r])] = {Row(row.credential, New[r])}]
        BY <2>2 DEF RotationWrites, Upsert
      <3>2. row.credential \in Stores
        BY <1>3, OneRow, RowFields
      <3>3. {Row(row.credential, New[r])} \in AtMostOne(AllRows)
        BY <1>3, <3>2, RowFields, AtMostOneOf
      <3> QED BY <1>3, <3>1, <3>3
    <2> QED BY <1>1, <2>1, <2>2 DEF RotationStarts, RotationReads, RotationEnds
  <1>6. todo' \in [Rotations -> Seq(Venues)]
    <2>1. CASE todo' = todo
      BY <1>3, <2>1
    <2>2. CASE RotationStarts(r) /\ todo' # todo
      <3>1. PICK listing \in SetToSeqs(Listed) : todo' = [todo EXCEPT ![r] = listing]
        BY <2>2 DEF RotationStarts, Listed
      <3>2. listing \in Seq(Venues)
        BY ListingEffects
      <3> QED BY <1>3, <3>1, <3>2
    <2>3. CASE RotationWrites(r) /\ todo' # todo
      <3>1. todo[r] # << >> /\ todo' = [todo EXCEPT ![r] = Tail(todo[r])]
        BY <1>3, <2>3 DEF RotationWrites, InHandInv
      <3>2. Tail(todo[r]) \in Seq(Venues)
        BY <1>3, <3>1
      <3> QED BY <1>3, <3>1, <3>2
    <2> QED BY <1>1, <2>1, <2>2, <2>3 DEF RotationReads, RotationEnds
  <1>7. /\ rot' \in [Rotations -> {"idle", "read", "write", "ok", "failed"}]
        /\ disturbed' \in BOOLEAN
    BY <1>1, <1>3 DEF RotationStarts, RotationReads, RotationWrites, RotationEnds, Aborts
  <1>8. passphrase' \in Passphrases /\ touched' \subseteq Rotations
    BY <1>1, <1>3 DEF RotationStarts, RotationReads, RotationWrites, RotationEnds, Switch
  <1>9. TypeOK'
    BY <1>2, <1>4, <1>5, <1>6, <1>7, <1>8 DEF TypeOK
  <1>10. HeldInv'
    BY <1>4 DEF HeldInv
  <1> QED BY <1>9, <1>10

\* A step of one rotation leaves the others where they are.
LEMMA RotationAlone ==
  ASSUME TypeOK, NEW r \in Rotations,
         RotationStarts(r) \/ RotationReads(r) \/ RotationWrites(r) \/ RotationEnds(r)
  PROVE  \A q \in Rotations : q # r =>
           rot'[q] = rot[q] /\ todo'[q] = todo[q] /\ held'[q] = held[q]
  <1>1. /\ rot \in [Rotations -> {"idle", "read", "write", "ok", "failed"}]
        /\ todo \in [Rotations -> Seq(Venues)]
        /\ held \in [Requests \cup Rotations -> AtMostOne(AllRows)]
    BY DEF TypeOK
  <1>2. CASE RotationStarts(r)
    BY <1>1, <1>2 DEF RotationStarts
  <1>3. CASE RotationReads(r)
    BY <1>1, <1>3 DEF RotationReads, Aborts
  <1>4. CASE RotationWrites(r)
    BY <1>1, <1>4 DEF RotationWrites, Aborts
  <1>5. CASE RotationEnds(r)
    BY <1>1, <1>5 DEF RotationEnds
  <1> QED BY <1>2, <1>3, <1>4, <1>5

\* What the second half of a rotation's round does to the table.
LEMMA WriteEffects ==
  ASSUME CredentialInv, NEW r \in Rotations, RotationWrites(r)
  PROVE  \/ /\ Aborts(r) /\ UNCHANGED <<rows, todo, touched>>
         \/ \E row \in AllRows :
              /\ held[r] = {row}
              /\ Head(todo[r]) \notin raced => latest[Head(todo[r])] = {row.credential}
              /\ rows'[Head(todo[r])] = {Row(row.credential, New[r])}
              /\ \A u \in Venues : u # Head(todo[r]) => rows'[u] = rows[u]
              /\ Head(todo[r]) \in Venues /\ todo[r] \in Seq(Venues) /\ todo[r] # << >>
              /\ todo'[r] = Tail(todo[r])
              /\ rot' = [rot EXCEPT ![r] = "read"]
              /\ touched' = touched \cup {r} /\ disturbed' = disturbed
  <1> USE DEF CredentialInv
  <1>1. PICK row \in AllRows :
          /\ held[r] = {row}
          /\ Head(todo[r]) \notin raced => latest[Head(todo[r])] = {row.credential}
    BY DEF RotationWrites, InHandInv
  <1>2. todo[r] \in Seq(Venues) /\ todo[r] # << >>
    BY DEF RotationWrites, InHandInv, TypeOK
  <1>3. Head(todo[r]) \in Venues
    BY <1>2
  <1>4. CASE ~(Aborts(r) /\ UNCHANGED <<rows, todo, touched>>)
    <2>1. /\ rows' = [rows EXCEPT ![Head(todo[r])] = {Row(row.credential, New[r])}]
          /\ rot' = [rot EXCEPT ![r] = "read"]
          /\ todo' = [todo EXCEPT ![r] = Tail(todo[r])]
          /\ touched' = touched \cup {r} /\ disturbed' = disturbed
      BY <1>1, <1>4 DEF RotationWrites, Upsert, TypeOK
    <2>2. /\ rows'[Head(todo[r])] = {Row(row.credential, New[r])}
          /\ \A u \in Venues : u # Head(todo[r]) => rows'[u] = rows[u]
      BY <1>3, <2>1 DEF TypeOK
    <2>3. todo'[r] = Tail(todo[r])
      BY <2>1 DEF TypeOK
    <2> QED BY <1>1, <1>2, <1>3, <2>1, <2>2, <2>3
  <1> QED BY <1>4

\* A rotation brings back what was stored last, unless the venue was written
\* while the rotation had its row in hand.
LEMMA RotationKeepsRows ==
  ASSUME CredentialInv, RotationStep
  PROVE  /\ InHandInv' /\ RowsAreLatest' /\ IsFiniteSet(Listed)' /\ UntouchedInv'
  <1> USE DEF CredentialInv
  <1>1. PICK r \in Rotations :
          RotationStarts(r) \/ RotationReads(r) \/ RotationWrites(r) \/ RotationEnds(r)
    BY DEF RotationStep
  <1>2. UNCHANGED <<latest, raced>>
    BY DEF RotationStep
  <1>3. \A q \in Rotations : q # r =>
          rot'[q] = rot[q] /\ todo'[q] = todo[q] /\ held'[q] = held[q]
    BY <1>1, RotationAlone
  <1>4. rot'[r] = "write" => RotationReads(r) /\ ~Aborts(r)
    BY <1>1 DEF RotationStarts, RotationReads, RotationWrites, RotationEnds, Aborts, TypeOK
  <1>5. InHandInv'
    <2>1. ASSUME rot'[r] = "write"
          PROVE  /\ todo'[r] # << >>
                 /\ \E row \in AllRows :
                      /\ held'[r] = {row}
                      /\ Head(todo'[r]) \notin raced' =>
                           latest'[Head(todo'[r])] = {row.credential}
      <3>1. PICK row \in rows[Head(todo[r])] : held' = [held EXCEPT ![r] = {row}]
        BY <1>4, <2>1 DEF RotationReads
      <3>2. todo' = todo /\ todo[r] # << >> /\ todo[r] \in Seq(Venues)
        BY <1>4, <2>1 DEF RotationReads, TypeOK
      <3>3. Head(todo[r]) \in Venues
        BY <3>2
      <3>4. row \in AllRows /\ rows[Head(todo[r])] = {row}
        BY <3>3, OneRow
      <3>5. Head(todo[r]) \notin raced => latest[Head(todo[r])] = {row.credential}
        <4>1. {x.credential : x \in {row}} = {row.credential}
          OBVIOUS
        <4> QED BY <3>3, <3>4, <4>1 DEF RowsAreLatest
      <3>6. held'[r] = {row}
        BY <3>1 DEF TypeOK
      <3> QED BY <1>2, <3>2, <3>4, <3>5, <3>6
    <2>2. ASSUME NEW q \in Rotations, rot'[q] = "write", q # r
          PROVE  /\ todo'[q] # << >>
                 /\ \E row \in AllRows :
                      /\ held'[q] = {row}
                      /\ Head(todo'[q]) \notin raced' =>
                           latest'[Head(todo'[q])] = {row.credential}
      <3>1. rot[q] = "write" /\ todo'[q] = todo[q] /\ held'[q] = held[q]
        BY <1>3, <2>2
      <3> QED BY <1>2, <3>1 DEF InHandInv
    <2> QED BY <2>1, <2>2 DEF InHandInv
  <1>6. ASSUME rows' = rows
        PROVE  RowsAreLatest' /\ IsFiniteSet(Listed)'
    BY <1>2, <1>6 DEF RowsAreLatest, Listed
  <1>7. ASSUME rows' # rows
        PROVE  RowsAreLatest' /\ IsFiniteSet(Listed)'
    <2> DEFINE v == Head(todo[r])
    <2>1. RotationWrites(r)
      BY <1>1, <1>7 DEF RotationStarts, RotationReads, RotationEnds
    <2>2. PICK row \in AllRows :
            /\ v \notin raced => latest[v] = {row.credential}
            /\ rows'[v] = {Row(row.credential, New[r])}
            /\ \A u \in Venues : u # v => rows'[u] = rows[u]
            /\ v \in Venues
      BY <1>7, <2>1, WriteEffects
    <2> HIDE DEF v
    <2>3. RowsAreLatest'
      <3>1. Row(row.credential, New[r]).credential = row.credential
        BY DEF Row
      <3>2. {x.credential : x \in {Row(row.credential, New[r])}} = {row.credential}
        BY <3>1
      <3>3. v \notin raced => {x.credential : x \in rows'[v]} = latest[v]
        BY <2>2, <3>2
      <3> QED BY <1>2, <2>2, <3>3 DEF RowsAreLatest
    <2>4. IsFiniteSet(Listed)'
      <3>1. Listed' \subseteq Listed \cup {v}
        BY <2>2 DEF Listed
      <3>2. IsFiniteSet(Listed \cup {v})
        BY FS_AddElement
      <3> QED BY <3>1, <3>2, FS_Subset
    <2> QED BY <2>3, <2>4
  <1>8. UntouchedInv'
    <2>1. rot'[r] # "idle" /\ \A q \in Rotations : q # r => (q \in touched' <=> q \in touched)
      BY <1>1 DEF RotationStarts, RotationReads, RotationWrites, RotationEnds, Aborts, TypeOK
    <2> QED BY <1>3, <2>1 DEF UntouchedInv
  <1> QED BY <1>5, <1>6, <1>7, <1>8

\* A rotation that is alone moves the rows it lists from the old passphrase to
\* the new one, and leaves none behind when it ends.
LEMMA RotationRotationInv ==
  ASSUME CredentialInv, RotationStep
  PROVE  RotationInv'
  <1> USE DEF CredentialInv
  <1> SUFFICES ASSUME ~disturbed'
               PROVE  /\ \A p, q \in Rotating' : p = q
                      /\ Rotating' = {} => AllOpenWith(passphrase)'
                      /\ \A q \in Rotating' : HalfWay(q)'
    BY DEF RotationInv
  <1>1. PICK r \in Rotations :
          RotationStarts(r) \/ RotationReads(r) \/ RotationWrites(r) \/ RotationEnds(r)
    BY DEF RotationStep
  <1>2. straddled' = straddled
    BY DEF RotationStep
  <1>3. \A q \in Rotations : q # r =>
          rot'[q] = rot[q] /\ todo'[q] = todo[q] /\ held'[q] = held[q]
    BY <1>1, RotationAlone
  <1>4. rot \in [Rotations -> {"idle", "read", "write", "ok", "failed"}]
        /\ todo \in [Rotations -> Seq(Venues)] /\ disturbed \in BOOLEAN
    BY DEF TypeOK
  <1>5. ~disturbed
    BY <1>1 DEF RotationStarts, RotationReads, RotationWrites, RotationEnds, Aborts
  <1>6. /\ \A p, q \in Rotating : p = q
        /\ Rotating = {} => AllOpenWith(passphrase)
        /\ \A q \in Rotating : HalfWay(q)
    BY <1>5 DEF RotationInv
  <1>7. ASSUME Rotating' = Rotating, UNCHANGED <<rows, passphrase, touched, todo>>
        PROVE  /\ \A p, q \in Rotating' : p = q
               /\ Rotating' = {} => AllOpenWith(passphrase)'
               /\ \A q \in Rotating' : HalfWay(q)'
    BY <1>2, <1>6, <1>7 DEF AllOpenWith, HalfWay
  <1>8. ASSUME r \in Rotating
        PROVE  Rotating = {r} /\ HalfWay(r)
    BY <1>6, <1>8
  <1>9. ASSUME r \in Rotating, Aborts(r), UNCHANGED <<rows, passphrase>>
        PROVE  Rotating' = {} /\ AllOpenWith(passphrase)'
    <2>1. r \notin touched /\ rot'[r] = "failed"
      BY <1>4, <1>9 DEF Aborts
    <2>2. Rotating' = {}
      BY <1>3, <1>8, <1>9, <2>1 DEF Rotating
    <2>3. AllOpenWith(passphrase)
      BY <1>8, <1>9, <2>1 DEF HalfWay
    <2> QED BY <1>2, <1>9, <2>2, <2>3 DEF AllOpenWith
  <1>10. CASE RotationStarts(r)
    <2>1. CASE rot' = [rot EXCEPT ![r] = "failed"] /\ UNCHANGED todo
      <3>1. Rotating' = Rotating
        BY <1>3, <1>4, <1>10, <2>1 DEF RotationStarts, Rotating
      <3> QED BY <1>7, <1>10, <2>1, <3>1 DEF RotationStarts
    <2>2. CASE ~(rot' = [rot EXCEPT ![r] = "failed"] /\ UNCHANGED todo)
      <3>1. /\ rot' = [rot EXCEPT ![r] = "read"]
            /\ \E listing \in SetToSeqs(Listed) : todo' = [todo EXCEPT ![r] = listing]
            /\ Rotating = {} /\ rot[r] = "idle"
            /\ UNCHANGED <<passphrase, rows, touched>>
        BY <1>10, <2>2 DEF RotationStarts, Listed
      <3>2. PICK listing \in SetToSeqs(Listed) : todo' = [todo EXCEPT ![r] = listing]
        BY <3>1
      <3>3. todo'[r] = listing /\ rot'[r] = "read"
        BY <1>4, <3>1, <3>2
      <3>4. Rotating' = {r}
        BY <1>3, <3>1, <3>3 DEF Rotating
      <3>5. AllOpenWith(passphrase)
        BY <1>6, <3>1
      <3>6. IsInjective(listing) /\ ToSet(listing) = Listed
        BY ListingEffects
      <3>7. \A v \in Venues \ straddled : \A row \in rows[v] :
              row.under = IF v \in ToSet(listing) THEN passphrase ELSE New[r]
        BY <3>5, <3>6 DEF AllOpenWith, Listed
      <3>8. HalfWay(r)'
        BY <1>2, <3>1, <3>3, <3>5, <3>6, <3>7 DEF HalfWay, AllOpenWith
      <3> QED BY <3>4, <3>8
    <2> QED BY <2>1, <2>2
  <1>11. CASE RotationReads(r)
    <2>1. r \in Rotating
      BY <1>11 DEF RotationReads, Rotating
    <2>2. CASE Aborts(r)
      BY <1>9, <1>11, <2>1, <2>2 DEF RotationReads
    <2>3. CASE ~Aborts(r)
      <3>1. rot'[r] = "write"
        BY <1>4, <1>11, <2>3 DEF RotationReads
      <3>2. Rotating' = Rotating
        BY <1>3, <2>1, <3>1 DEF Rotating
      <3> QED BY <1>7, <1>11, <3>2 DEF RotationReads
    <2> QED BY <2>2, <2>3
  <1>12. CASE RotationWrites(r)
    <2> DEFINE v == Head(todo[r])
    <2>1. r \in Rotating /\ passphrase' = passphrase
      BY <1>12 DEF RotationWrites, Rotating
    <2>2. CASE Aborts(r) /\ UNCHANGED <<rows, todo, touched>>
      BY <1>9, <2>1, <2>2
    <2>3. ASSUME NEW row \in AllRows,
                 rows'[v] = {Row(row.credential, New[r])},
                 \A u \in Venues : u # v => rows'[u] = rows[u],
                 v \in Venues, todo[r] \in Seq(Venues), todo[r] # << >>,
                 todo'[r] = Tail(todo[r]),
                 rot' = [rot EXCEPT ![r] = "read"],
                 touched' = touched \cup {r}
          PROVE  Rotating' = {r} /\ HalfWay(r)'
      <3>1. HalfWay(r) /\ Rotating = {r}
        BY <1>8, <2>1
      <3>2. rot'[r] = "read"
        BY <1>4, <2>3
      <3>3. Rotating' = {r}
        BY <1>3, <3>1, <3>2 DEF Rotating
      <3>4. ToSet(todo'[r]) = ToSet(todo[r]) \ {v} /\ IsInjective(todo'[r])
        BY <2>3, <3>1, TailOnce DEF HalfWay
      <3>5. Row(row.credential, New[r]).under = New[r]
        BY DEF Row
      <3>6. ASSUME NEW u \in Venues \ straddled, NEW x \in rows'[u]
            PROVE  x.under = IF u \in ToSet(todo'[r]) THEN passphrase ELSE New[r]
        <4>1. CASE u = v
          BY <2>3, <3>4, <3>5, <3>6, <4>1
        <4>2. CASE u # v
          <5>1. x \in rows[u]
            BY <2>3, <3>6, <4>2
          <5>2. x.under = IF u \in ToSet(todo[r]) THEN passphrase ELSE New[r]
            BY <3>1, <5>1 DEF HalfWay
          <5> QED BY <3>4, <4>2, <5>2
        <4> QED BY <4>1, <4>2
      <3>7. r \in touched'
        BY <2>3
      <3> QED BY <1>2, <2>1, <3>3, <3>4, <3>6, <3>7 DEF HalfWay
    <2>4. CASE ~(Aborts(r) /\ UNCHANGED <<rows, todo, touched>>)
      <3>1. Rotating' = {r} /\ HalfWay(r)'
        BY <1>12, <2>3, <2>4, WriteEffects
      <3> QED BY <3>1
    <2> QED BY <2>2, <2>4
  <1>13. CASE RotationEnds(r)
    <2>1. /\ r \in Rotating /\ todo[r] = << >> /\ passphrase' = New[r]
          /\ rot' = [rot EXCEPT ![r] = "ok"] /\ rows' = rows
      BY <1>13 DEF RotationEnds, Rotating, Switch
    <2>2. HalfWay(r) /\ Rotating = {r}
      BY <1>8, <2>1
    <2>3. rot'[r] = "ok"
      BY <1>4, <2>1
    <2>4. Rotating' = {}
      BY <1>3, <2>2, <2>3 DEF Rotating
    <2>5. ToSet(todo[r]) = {}
      <3>1. DOMAIN todo[r] = {}
        BY <2>1
      <3> QED BY <3>1 DEF ToSet
    <2>6. AllOpenWith(New[r])
      BY <2>2, <2>5 DEF HalfWay, AllOpenWith
    <2>7. AllOpenWith(passphrase)'
      BY <1>2, <2>1, <2>6 DEF AllOpenWith
    <2> QED BY <2>4, <2>7
  <1> QED BY <1>1, <1>10, <1>11, <1>12, <1>13

-----------------------------------------------------------------------------
\* The theorems

\* The empty table satisfies the invariant.
LEMMA CredentialInitial ==
  ASSUME Init
  PROVE  CredentialInv
  <1>0. {} \in AtMostOne(AllRows) /\ {} \in AtMostOne(Stores) /\ << >> \in Seq(Venues)
    BY AtMostOneOf
  <1>1. TypeOK
    BY <1>0, CredentialAssumption DEF Init, TypeOK
  <1>2. HeldInv /\ InHandInv /\ UntouchedInv
    BY CredentialAssumption DEF Init, HeldInv, InHandInv, UntouchedInv, Requests
  <1>3. RowsAreLatest
    BY DEF Init, RowsAreLatest
  <1>4. Listed = {}
    BY DEF Init, Listed
  <1>5. IsFiniteSet(Listed)
    BY <1>4, FS_EmptySet
  <1>6. RotationInv
    BY DEF Init, RotationInv, Rotating, AllOpenWith
  <1> QED BY <1>1, <1>2, <1>3, <1>5, <1>6 DEF CredentialInv

\* The invariant of the credential manager: the table agrees with the
\* credentials last stored, and a rotation that is alone has every row under
\* the passphrase its progress says.
THEOREM CredentialInvariance == Spec => []CredentialInv
  <1>1. Init => CredentialInv
    BY CredentialInitial
  <1>2. CredentialInv /\ [Next]_vars => CredentialInv'
    <2> SUFFICES ASSUME CredentialInv, [Next]_vars
                 PROVE  CredentialInv'
      OBVIOUS
    <2>1. CASE RequestStep
      BY <2>1, RequestPreserves, RequestRotationInv DEF CredentialInv
    <2>2. CASE RotationStep
      BY <2>2, RotationTypes, RotationKeepsRows, RotationRotationInv DEF CredentialInv
    <2>3. CASE UNCHANGED vars
      BY <2>3 DEF CredentialInv, vars, TypeOK, HeldInv, InHandInv, RowsAreLatest, Listed,
                  UntouchedInv, RotationInv, Rotating, AllOpenWith, HalfWay
    <2> QED BY <2>1, <2>2, <2>3 DEF Next
  <1> QED BY <1>1, <1>2, PTL DEF Spec

\* Every variable of the manager and its table keeps its type.
THEOREM CredentialTypes == Spec => []TypeOK
  <1>1. CredentialInv => TypeOK
    BY DEF CredentialInv
  <1> QED BY <1>1, CredentialInvariance, PTL

\* manager.go: a venue's row holds the credential stored last, and a deleted row
\* stays away, unless the venue was written while a rotation had its row in hand.
THEOREM LatestCredentialKept == Spec => []RowsAreLatest
  <1>1. CredentialInv => RowsAreLatest
    BY DEF CredentialInv
  <1> QED BY <1>1, CredentialInvariance, PTL

\* manager.go: when no rotation is under way and none stopped half-way or met
\* another, the manager opens every row not stored across a rotation.
THEOREM NobodyLockedOut == Spec => []ReadableUnlessDisturbed
  <1>1. CredentialInv => ReadableUnlessDisturbed
    BY DEF CredentialInv, RotationInv, AllOpenWith, ReadableUnlessDisturbed, OpensWith
  <1> QED BY <1>1, CredentialInvariance, PTL
=============================================================================
