--------------------------- MODULE RequestContract ---------------------------
(***************************************************************************)
(* What the server promises the client about requests, with nothing of how *)
(* it is done: a request is answered at most once, only after it was       *)
(* issued, and "cancelled" is an answer only to a client that asked for it.*)
(* ServerLoop implements this specification.                               *)
(***************************************************************************)
EXTENDS Sequences, Naturals

CONSTANT Requests

VARIABLES
  issued,     \* the requests the client has sent
  renounced,  \* the requests the client has asked to cancel
  answers     \* request -> the responses the server has sent for it

vars == <<issued, renounced, answers>>

Outcomes == {"result", "error", "cancelled"}

TypeOK ==
  /\ issued \in SUBSET Requests
  /\ renounced \in SUBSET Requests
  /\ answers \in [Requests -> Seq(Outcomes)]

Init ==
  /\ issued = {}
  /\ renounced = {}
  /\ answers = [r \in Requests |-> <<>>]

Issue(r) ==
  /\ r \notin issued
  /\ issued' = issued \cup {r}
  /\ UNCHANGED <<renounced, answers>>

Renounce(r) ==
  /\ r \in issued
  /\ renounced' = renounced \cup {r}
  /\ UNCHANGED <<issued, answers>>

Answer(r, outcome) ==
  /\ r \in issued
  /\ answers[r] = <<>>
  /\ outcome = "cancelled" => r \in renounced
  /\ answers' = [answers EXCEPT ![r] = <<outcome>>]
  /\ UNCHANGED <<issued, renounced>>

Next ==
  \E r \in Requests :
    \/ Issue(r)
    \/ Renounce(r)
    \/ \E outcome \in Outcomes : Answer(r, outcome)

Spec == Init /\ [][Next]_vars
=============================================================================
