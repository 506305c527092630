----------------------------- MODULE SyncCalls -----------------------------
(***************************************************************************)
(* What Node.SendRequestSync promises its callers: a call ends with an     *)
(* answer of the transfer node to this very request, or with an error,     *)
(* and an ended call stays as it is.                                       *)
(***************************************************************************)
CONSTANT Req       \* the requests, one per call

VARIABLES
    answered,      \* the requests the transfer node has answered
    outcome        \* outcome[r]: how the call of r ended, if it did

Init ==
    /\ answered = {}
    /\ outcome = [r \in Req |-> "pending"]

Answer(r) ==
    /\ answered' = answered \cup {r}
    /\ UNCHANGED outcome

ReturnAnswer(r) ==
    /\ outcome[r] = "pending" /\ r \in answered
    /\ outcome' = [outcome EXCEPT ![r] = "answer"]
    /\ UNCHANGED answered

ReturnError(r) ==
    /\ outcome[r] = "pending"
    /\ outcome' = [outcome EXCEPT ![r] = "error"]
    /\ UNCHANGED answered

Next == \E r \in Req : Answer(r) \/ ReturnAnswer(r) \/ ReturnError(r)

Spec == Init /\ [][Next]_<<answered, outcome>>
=============================================================================
