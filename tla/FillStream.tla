----------------------------- MODULE FillStream -----------------------------
(***************************************************************************)
(* What FillFeed() of a venue adapter promises the fill collectors: every  *)
(* stream the adapter has open at the venue is told of each execution      *)
(* once, and each of these messages becomes at most one fill in the        *)
(* channel.  Nothing is promised about messages that a closing stream or a *)
(* full channel loses, so with one stream an execution is reported at most *)
(* once, and with several at most once per stream.                         *)
(***************************************************************************)
EXTENDS Naturals

CONSTANT Execs   \* the executions a venue may make

VARIABLES
  open,      \* how many streams the adapter has open
  due,       \* how many messages about an execution are under way
  copies     \* how many fills the channel was given for an execution

vars == <<open, due, copies>>

Init == open = 0 /\ due = [e \in Execs |-> 0] /\ copies = [e \in Execs |-> 0]

OpenStream == open' = open + 1 /\ UNCHANGED <<due, copies>>

\* Streams close or are replaced; messages they had not handed over are lost.
CloseStreams ==
  /\ open' \in 0 .. open
  /\ due' \in [Execs -> Nat]
  /\ \A e \in Execs : due'[e] <= due[e]
  /\ UNCHANGED copies

\* The venue executes and tells every stream.
Execute(e) ==
  /\ due[e] = 0 /\ copies[e] = 0
  /\ due' = [due EXCEPT ![e] = open]
  /\ UNCHANGED <<open, copies>>

Report(e) ==
  /\ due[e] > 0
  /\ due' = [due EXCEPT ![e] = @ - 1]
  /\ copies' = [copies EXCEPT ![e] = @ + 1]
  /\ UNCHANGED open

Drop(e) ==
  /\ due[e] > 0
  /\ due' = [due EXCEPT ![e] = @ - 1]
  /\ UNCHANGED <<open, copies>>

Next ==
  \/ OpenStream
  \/ CloseStreams
  \/ \E e \in Execs : Execute(e) \/ Report(e) \/ Drop(e)

Spec == Init /\ [][Next]_vars
=============================================================================
