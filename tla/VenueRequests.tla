---------------------------- MODULE VenueRequests ----------------------------
(***************************************************************************)
(* The connect and disconnect requests a venue gets over REST              *)
(* (gateway/internal/rest/handler_venue.go).  Every request is served by a *)
(* goroutine of its own; pc[r] is what the goroutine of r does next.  The  *)
(* steps "connect", "subscribe" and "disconnect" are the adapter's: its    *)
(* module says what they do and names the steps they are made of.          *)
(*                                                                         *)
(* mdCancels is a Go map that nothing locks.  Its accesses are steps of    *)
(* their own here; that the Go runtime may also abort the process when two *)
(* of them coincide ends a behaviour and is left out.                      *)
(***************************************************************************)
EXTENDS Naturals, FiniteSets

CONSTANTS
  Connects,      \* the connect requests clients make, in any order
  Disconnects,   \* their disconnect requests
  NoRequest,
  Aggregating    \* bar aggregators are registered: connecting also subscribes

Requests == Connects \cup Disconnects

ASSUME RequestAssumption ==
  /\ Aggregating \in BOOLEAN
  /\ NoRequest \notin Requests /\ Connects \cap Disconnects = {}

VARIABLES
  status,      \* a.status of the adapter
  pc,          \* where the goroutine of each request is
  mdCancel,    \* mdCancels[venueID]: the request whose cancel function it holds
  pumps,       \* the goroutines started to carry market data to the aggregators
  ended,       \* the subscriptions whose context is cancelled
  orderly      \* clients so far connected a venue that was disconnected,
               \*   disconnected one that was connected, and waited for answers

requestVars == <<pc, mdCancel, pumps, ended, orderly>>

Steps == {"idle", "connect", "register", "subscribe", "forget", "disconnect", "done"}

RequestTypes(adapterSteps) ==
  /\ status \in {"Disconnected", "Connected"}
  /\ pc \in [Requests -> Steps \cup adapterSteps]
  /\ mdCancel \in Connects \cup {NoRequest}
  /\ pumps \subseteq Connects
  /\ ended \subseteq Connects
  /\ orderly \in BOOLEAN

RequestInit ==
  /\ status = "Disconnected"
  /\ pc = [r \in Requests |-> "idle"]
  /\ mdCancel = NoRequest
  /\ pumps = {}
  /\ ended = {}
  /\ orderly = TRUE

InFlight == {r \in Requests : pc[r] \notin {"idle", "done"}}
LivePumps == pumps \ ended

Goto(r, step) == pc' = [pc EXCEPT ![r] = step]

Arrive(r, expected) ==
  /\ pc[r] = "idle"
  /\ orderly' = (orderly /\ InFlight = {} /\ status = expected)

\* connectVenue: the credential is decrypted, or the request ends there.
ConnectArrives(r) ==
  /\ Arrive(r, "Disconnected")
  /\ \E step \in {"connect", "done"} : Goto(r, step)
  /\ UNCHANGED <<mdCancel, pumps, ended>>

\* connectVenue once the adapter has connected.
Connected(r) == Goto(r, IF Aggregating THEN "register" ELSE "done")

\* disconnectVenue: the subscription found in mdCancels is cancelled; the entry
\* is deleted by a later step, whoever owns it by then.
DisconnectArrives(r) ==
  /\ Arrive(r, "Connected")
  /\ ended' = ended \cup ({mdCancel} \ {NoRequest})
  /\ Goto(r, IF mdCancel = NoRequest THEN "disconnect" ELSE "forget")
  /\ UNCHANGED <<mdCancel, pumps>>

ForgetCancel(r) ==
  /\ pc[r] = "forget"
  /\ mdCancel' = NoRequest
  /\ Goto(r, "disconnect")
  /\ UNCHANGED <<pumps, ended, orderly>>

\* subscribeMarketData: the cancel function replaces the one that was there.
RegisterCancel(r) ==
  /\ pc[r] = "register"
  /\ mdCancel' = r
  /\ Goto(r, "subscribe")
  /\ UNCHANGED <<pumps, ended, orderly>>

\* What subscribeMarketData does when the adapter has answered.
Subscribed(r, ok) ==
  /\ IF ok THEN pumps' = pumps \cup {r} /\ UNCHANGED <<mdCancel, ended>>
           ELSE ended' = ended \cup {r} /\ mdCancel' = NoRequest /\ UNCHANGED pumps
  /\ Goto(r, "done")
  /\ UNCHANGED orderly

RequestStep ==
  \/ \E r \in Connects : ConnectArrives(r) \/ RegisterCancel(r)
  \/ \E r \in Disconnects : DisconnectArrives(r) \/ ForgetCancel(r)
=============================================================================
