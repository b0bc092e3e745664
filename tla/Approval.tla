------------------------------ MODULE Approval ------------------------------
(***************************************************************************)
(* What the operator and the App Server may rely on when a request needs an *)
(* answer: only a request that was asked is shown, an answer is given by    *)
(* using one of its messages, it reaches the very request of that message,  *)
(* and it reaches it while it waits, hence once.  A message may be shown    *)
(* and used late; then its use comes to nothing.                            *)
(***************************************************************************)
EXTENDS Naturals

CONSTANTS
  Requests,  \* requests of the App Server, in every session it ever has
  Nobody     \* no message is being used

VARIABLES
  state,     \* state[r]: how far the App Server is with request r
  seen,      \* requests the operator may have seen a message of
  pressed,   \* the request whose message the operator has just used
  taken      \* taken[r]: answers the App Server took for r

vars == <<state, seen, pressed, taken>>

Init ==
  /\ state = [r \in Requests |-> "new"]
  /\ seen = {}
  /\ pressed = Nobody
  /\ taken = [r \in Requests |-> 0]

Ask(r) ==
  /\ state[r] = "new"
  /\ state' = [state EXCEPT ![r] = "waiting"]
  /\ UNCHANGED <<seen, pressed, taken>>

Show(r) ==
  /\ state[r] # "new"
  /\ seen' = seen \cup {r}
  /\ UNCHANGED <<state, pressed, taken>>

Press(r) ==
  /\ pressed = Nobody /\ r \in seen
  /\ pressed' = r
  /\ UNCHANGED <<state, seen, taken>>

Answer(r) ==
  /\ pressed = r /\ state[r] = "waiting"
  /\ state' = [state EXCEPT ![r] = "answered"]
  /\ taken' = [taken EXCEPT ![r] = @ + 1]
  /\ pressed' = Nobody
  /\ UNCHANGED seen

\* The message was too old, or the answer was lost on its way.
GiveUp ==
  /\ pressed # Nobody
  /\ pressed' = Nobody
  /\ UNCHANGED <<state, seen, taken>>

\* Requests are settled one by one, or go with the App Server that asked them; the
\* use of a message is forgotten when the daemon goes too.
Over(S) ==
  /\ state' = [r \in Requests |-> IF r \in S THEN "over" ELSE state[r]]
  /\ pressed' \in {pressed, Nobody}
  /\ UNCHANGED <<seen, taken>>

Next ==
  \/ \E r \in Requests : Ask(r) \/ Show(r) \/ Press(r) \/ Answer(r)
  \/ GiveUp
  \/ \E S \in SUBSET Requests : Over(S)

Spec == Init /\ [][Next]_vars
=============================================================================
