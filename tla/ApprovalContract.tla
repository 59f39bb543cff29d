------------------------- MODULE ApprovalContract -------------------------
(***************************************************************************)
(* What the approval of risky tool calls promises: a request is decided    *)
(* once, an approved request lets the call it describes run once, and no   *)
(* other call runs unless it needs no approval.                            *)
(***************************************************************************)
EXTENDS Naturals, Sequences

CONSTANTS
  Calls,
  Free     \* the calls that may run without an approval

VARIABLES
  requests,  \* the requests, by id: the call and the state of the decision
  ran        \* the calls that ran, in order, each with the id of its approval or 0

Init == requests = <<>> /\ ran = <<>>

Ask ==
  /\ \E c \in Calls : requests' = Append(requests, [call |-> c, state |-> "pending"])
  /\ UNCHANGED ran

Decide ==
  /\ \E i \in DOMAIN requests, decision \in {"approved", "rejected"} :
       /\ requests[i].state = "pending"
       /\ requests' = [requests EXCEPT ![i].state = decision]
  /\ UNCHANGED ran

RunFree ==
  /\ \E c \in Free : ran' = Append(ran, [call |-> c, id |-> 0])
  /\ UNCHANGED requests

Use ==
  /\ \E i \in DOMAIN requests :
       /\ requests[i].state = "approved"
       /\ \A n \in DOMAIN ran : ran[n].id # i
       /\ ran' = Append(ran, [call |-> requests[i].call, id |-> i])
  /\ UNCHANGED requests

Next == Ask \/ Decide \/ RunFree \/ Use

Spec == Init /\ [][Next]_<<requests, ran>>
=============================================================================
