------------------------------ MODULE RpcCall ------------------------------
(***************************************************************************)
(* What a caller of the App Server client may rely on: every request ends   *)
(* once, a result means that the App Server performed the request, which it *)
(* does at most once, and an error says nothing about that.                 *)
(***************************************************************************)
EXTENDS Naturals

CONSTANT Ids     \* requests

VARIABLES
  outcome,    \* outcome[i]: what the caller of request i has been told
  performed   \* the requests the App Server has acted on

vars == <<outcome, performed>>

Init ==
  /\ outcome = [i \in Ids |-> "unused"]
  /\ performed = {}

Ask(i) ==
  /\ outcome[i] = "unused"
  /\ outcome' = [outcome EXCEPT ![i] = "open"]
  /\ UNCHANGED performed

\* The App Server may get to a request after its caller has given up.
Perform(i) ==
  /\ outcome[i] # "unused" /\ i \notin performed
  /\ performed' = performed \cup {i}
  /\ UNCHANGED outcome

Finish(i) ==
  /\ outcome[i] = "open"
  /\ \/ i \in performed /\ outcome' = [outcome EXCEPT ![i] = "result"]
     \/ outcome' = [outcome EXCEPT ![i] = "error"]
  /\ UNCHANGED performed

Next == \E i \in Ids : Ask(i) \/ Perform(i) \/ Finish(i)

Spec == Init /\ [][Next]_vars /\ \A i \in Ids : WF_vars(Finish(i))
=============================================================================
