---------------------------- MODULE RequestReply ----------------------------
(***************************************************************************)
(* What the message bus promises to a component that posts a request with  *)
(* a response callback: the request is open from the moment it is posted,  *)
(* and it is closed once, either by telling the poster one final answer or *)
(* by giving it up without telling it anything.                            *)
(***************************************************************************)
EXTENDS Naturals

CONSTANT Requests

VARIABLES
    status,     \* [Requests -> {"idle", "open", "answered", "abandoned"}]
    answers     \* how many final answers the poster of each request was told

vars == <<status, answers>>

Init ==
    /\ status = [r \in Requests |-> "idle"]
    /\ answers = [r \in Requests |-> 0]

Open(r) ==
    /\ status[r] = "idle"
    /\ status' = [status EXCEPT ![r] = "open"]
    /\ UNCHANGED answers

Answer(r) ==
    /\ status[r] = "open"
    /\ status' = [status EXCEPT ![r] = "answered"]
    /\ answers' = [answers EXCEPT ![r] = @ + 1]

Abandon(r) ==
    /\ status[r] = "open"
    /\ status' = [status EXCEPT ![r] = "abandoned"]
    /\ UNCHANGED answers

Next == \E r \in Requests : Open(r) \/ Answer(r) \/ Abandon(r)

Spec == Init /\ [][Next]_vars
=============================================================================
