----------------------------- MODULE Credentials -----------------------------
(***************************************************************************)
(* The credential manager (gateway/internal/credential) over the table     *)
(* venue_credentials: requests that store, delete and retrieve credentials *)
(* beside rotations of the master passphrase.  Nothing locks the manager   *)
(* or puts several statements into one transaction: each statement is a    *)
(* step, and deriving keys takes the time between two of them.             *)
(*                                                                         *)
(* A row is the credential of the request that stored it, encrypted with a *)
(* key derived from a passphrase; a row opens with that passphrase only.   *)
(* Any statement may fail.                                                 *)
(***************************************************************************)
EXTENDS SequencesExt, FiniteSets

CONSTANTS
  Venues,
  Stores, Deletes, Retrieves,   \* the requests
  Rotations,
  Venue,                        \* the venue of each request
  Passphrases,
  Old, New,                     \* the passphrases each rotation is called with
  Initial                       \* the passphrase the gateway was started with

Requests == Stores \cup Deletes \cup Retrieves

ASSUME CredentialAssumption ==
  /\ Venue \in [Requests -> Venues]
  /\ Old \in [Rotations -> Passphrases] /\ New \in [Rotations -> Passphrases]
  /\ Initial \in Passphrases
  /\ Stores \cap Deletes = {} /\ (Stores \cup Deletes) \cap Retrieves = {}
  /\ Requests \cap Rotations = {}

VARIABLES
  passphrase,  \* m.passphrase
  rows,        \* the table: per venue a set of at most one row
  req,         \* how far each request is
  held,        \* the row a request or a rotation has in hand, if any
  rot,         \* how far each rotation is
  todo,        \* the venues a rotation has listed and not rotated
  touched,     \* the rotation has written a row
  latest,      \* the credential last stored and not deleted, per venue
  raced,       \* venues written while a rotation had their row in hand
  straddled,   \* venues stored across a rotation
  disturbed    \* rotations stopped between two rows, or ran side by side

vars == <<passphrase, rows, req, held, rot, todo, touched, latest, raced, straddled,
          disturbed>>

Row(s, p) == [credential |-> s, under |-> p]
AllRows == {Row(s, p) : s \in Stores, p \in Passphrases}
AtMostOne(S) == {{}} \cup {{x} : x \in S}

TypeOK ==
  /\ passphrase \in Passphrases
  /\ rows \in [Venues -> AtMostOne(AllRows)]
  /\ req \in [Requests -> {"idle", "busy", "ok", "failed"}]
  /\ held \in [Requests \cup Rotations -> AtMostOne(AllRows)]
  /\ rot \in [Rotations -> {"idle", "read", "write", "ok", "failed"}]
  /\ todo \in [Rotations -> Seq(Venues)]
  /\ touched \subseteq Rotations
  /\ latest \in [Venues -> AtMostOne(Stores)]
  /\ raced \subseteq Venues /\ straddled \subseteq Venues
  /\ disturbed \in BOOLEAN

Init ==
  /\ passphrase = Initial
  /\ rows = [v \in Venues |-> {}]
  /\ req = [q \in Requests |-> "idle"]
  /\ held = [x \in Requests \cup Rotations |-> {}]
  /\ rot = [r \in Rotations |-> "idle"]
  /\ todo = [r \in Rotations |-> <<>>]
  /\ touched = {}
  /\ latest = [v \in Venues |-> {}]
  /\ raced = {} /\ straddled = {}
  /\ disturbed = FALSE

Rotating == {r \in Rotations : rot[r] \in {"read", "write"}}
InHand(v) == \E r \in Rotations : rot[r] = "write" /\ Head(todo[r]) = v

OpensWith(row, p) == row.under = p

-----------------------------------------------------------------------------
(* The requests.                                                           *)

\* Mutant: INSERT without a conflict clause.
InsertDuplicates(v, row) == rows[v] \cup {row}

\* Mutant: ON CONFLICT DO NOTHING.
InsertIgnored(v, row) == IF rows[v] = {} THEN {row} ELSE rows[v]

\* INSERT ... ON CONFLICT (venue_id) DO UPDATE.
Upsert(v, row) == {row}

\* Store encrypts with the passphrase of the moment.
StoreEncrypts(s) ==
  /\ req[s] = "idle"
  /\ req' = [req EXCEPT ![s] = "busy"]
  /\ held' = [held EXCEPT ![s] = {Row(s, passphrase)}]
  /\ UNCHANGED <<rows, latest, raced, straddled>>

StorePersists(s) ==
  LET v == Venue[s] IN
  /\ req[s] = "busy"
  /\ \/ /\ req' = [req EXCEPT ![s] = "failed"]
        /\ UNCHANGED <<rows, latest, raced, straddled>>
     \/ /\ req' = [req EXCEPT ![s] = "ok"]
        /\ \E row \in held[s] :
             /\ rows' = [rows EXCEPT ![v] = Upsert(v, row)]
             /\ straddled' = IF Rotating # {} \/ ~OpensWith(row, passphrase)
                             THEN straddled \cup {v} ELSE straddled
        /\ latest' = [latest EXCEPT ![v] = {s}]
        /\ raced' = IF InHand(v) THEN raced \cup {v} ELSE raced
  /\ held' = [held EXCEPT ![s] = {}]

Delete(d) ==
  LET v == Venue[d] IN
  /\ req[d] = "idle"
  /\ \/ req' = [req EXCEPT ![d] = "failed"] /\ UNCHANGED <<rows, latest, raced>>
     \/ /\ req' = [req EXCEPT ![d] = "ok"]
        /\ rows' = [rows EXCEPT ![v] = {}]
        /\ latest' = [latest EXCEPT ![v] = {}]
        /\ raced' = IF InHand(v) THEN raced \cup {v} ELSE raced
  /\ UNCHANGED <<held, straddled>>

\* Retrieve reads the row, and opens it with the passphrase there is by then.
RetrieveReads(q) ==
  /\ req[q] = "idle"
  /\ \/ req' = [req EXCEPT ![q] = "failed"] /\ UNCHANGED held
     \/ /\ rows[Venue[q]] # {}
        /\ req' = [req EXCEPT ![q] = "busy"]
        /\ held' = [held EXCEPT ![q] = rows[Venue[q]]]
  /\ UNCHANGED <<rows, latest, raced, straddled>>

RetrieveOpens(q) ==
  /\ req[q] = "busy"
  /\ req' = [req EXCEPT ![q] = IF \E row \in held[q] : OpensWith(row, passphrase)
                               THEN "ok" ELSE "failed"]
  /\ UNCHANGED <<rows, held, latest, raced, straddled>>

RequestStep ==
  /\ \/ \E s \in Stores : StoreEncrypts(s) \/ StorePersists(s)
     \/ \E d \in Deletes : Delete(d)
     \/ \E q \in Retrieves : RetrieveReads(q) \/ RetrieveOpens(q)
  /\ UNCHANGED <<passphrase, rot, todo, touched, disturbed>>

-----------------------------------------------------------------------------
(* RotatePassphrase.                                                       *)

\* A rotation gives up; rows it has rewritten stay as they are.
Aborts(r) ==
  /\ rot' = [rot EXCEPT ![r] = "failed"]
  /\ disturbed' = (disturbed \/ r \in touched)

\* The old passphrase is compared, and the venues are listed (in an order that
\* is left open); either may turn the rotation down.
RotationStarts(r) ==
  /\ rot[r] = "idle"
  /\ \/ /\ rot' = [rot EXCEPT ![r] = "failed"]
        /\ UNCHANGED <<todo, disturbed>>
     \/ /\ Old[r] = passphrase
        /\ rot' = [rot EXCEPT ![r] = "read"]
        /\ \E listing \in SetToSeqs({v \in Venues : rows[v] # {}}) :
             todo' = [todo EXCEPT ![r] = listing]
        /\ disturbed' = (disturbed \/ Rotating # {})
  /\ UNCHANGED <<passphrase, rows, held, touched>>

\* rotateCredential retrieves a credential with the manager's passphrase ...
RotationReads(r) ==
  /\ rot[r] = "read" /\ todo[r] # <<>>
  /\ \/ Aborts(r) /\ UNCHANGED held
     \/ /\ \E row \in rows[Head(todo[r])] :
             OpensWith(row, passphrase) /\ held' = [held EXCEPT ![r] = {row}]
        /\ rot' = [rot EXCEPT ![r] = "write"]
        /\ UNCHANGED disturbed
  /\ UNCHANGED <<passphrase, rows, todo, touched>>

\* ... and stores it under the new one.
RotationWrites(r) ==
  LET v == Head(todo[r]) IN
  /\ rot[r] = "write"
  /\ \/ Aborts(r) /\ UNCHANGED <<rows, todo, touched>>
     \/ /\ \E row \in held[r] :
             rows' = [rows EXCEPT ![v] = Upsert(v, Row(row.credential, New[r]))]
        /\ rot' = [rot EXCEPT ![r] = "read"]
        /\ todo' = [todo EXCEPT ![r] = Tail(@)]
        /\ touched' = touched \cup {r}
        /\ UNCHANGED disturbed
  /\ held' = [held EXCEPT ![r] = {}]
  /\ UNCHANGED passphrase

\* Mutant: the manager keeps the old passphrase.
SwitchForgotten(r) == passphrase

Switch(r) == New[r]

RotationEnds(r) ==
  /\ rot[r] = "read" /\ todo[r] = <<>>
  /\ passphrase' = Switch(r)
  /\ rot' = [rot EXCEPT ![r] = "ok"]
  /\ UNCHANGED <<rows, held, todo, touched, disturbed>>

RotationStep ==
  /\ \E r \in Rotations :
       RotationStarts(r) \/ RotationReads(r) \/ RotationWrites(r) \/ RotationEnds(r)
  /\ UNCHANGED <<req, latest, raced, straddled>>

Next == RequestStep \/ RotationStep

Spec == Init /\ [][Next]_vars

-----------------------------------------------------------------------------
(* Properties.                                                             *)

\* A row holds the credential stored last, and a deleted row stays away,
\* unless the venue was written between a rotation's read and its write: then
\* the rotation brings the old credential back.
RowsAreLatest ==
  \A v \in Venues \ raced : {row.credential : row \in rows[v]} = latest[v]

\* With no rotation under way the manager can open every row, except after a
\* rotation that stopped half-way or met another one, and except for venues
\* stored while a rotation went by.
ReadableUnlessDisturbed ==
  Rotating = {} /\ ~disturbed =>
    \A v \in Venues \ straddled : \A row \in rows[v] : OpensWith(row, passphrase)

\* A rotation is all or nothing: when it is over, also when it gave up, the
\* manager opens every row that was not stored while it went by.
RotationAllOrNothing ==
  Rotating = {} =>
    \A v \in Venues \ straddled : \A row \in rows[v] : OpensWith(row, passphrase)

\* A rotation is one step to everyone else: no request that comes while it goes
\* by is undone by it.
RotationUndoesNothing ==
  \A v \in Venues : {row.credential : row \in rows[v]} = latest[v]
=============================================================================
