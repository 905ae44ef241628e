--------------------------- MODULE RequestContract ---------------------------
(***************************************************************************)
(* What the gateway promises about each unary request, with no queue, no   *)
(* handler and no worker in sight: a request is refused, or it is opened   *)
(* and then answered once or lost once, and the client is told one thing,  *)
(* which agrees with what became of its request.                           *)
(***************************************************************************)
CONSTANT Requests

VARIABLES state,   \* what has become of a request
          answer,  \* the answer it got
          reply    \* what its client has been told

vars == <<state, answer, reply>>

Answers == {"completed", "timeout"}

Init ==
  /\ state = [r \in Requests |-> "new"]
  /\ answer = [r \in Requests |-> "none"]
  /\ reply = [r \in Requests |-> "none"]

Become(r, from, to) ==
  /\ state[r] = from
  /\ state' = [state EXCEPT ![r] = to]

Open(r) == Become(r, "new", "open") /\ UNCHANGED <<answer, reply>>

Refuse(r) ==
  /\ Become(r, "new", "refused")
  /\ reply[r] = "none"
  /\ reply' = [reply EXCEPT ![r] = "busy"]
  /\ UNCHANGED answer

Answer(r, a) ==
  /\ Become(r, "open", "answered")
  /\ answer' = [answer EXCEPT ![r] = a]
  /\ UNCHANGED reply

Lose(r) == Become(r, "open", "lost") /\ UNCHANGED <<answer, reply>>

\* The client learns the id, that the gateway stopped waiting, or the answer.
Tell(r, said) ==
  /\ reply[r] = "none"
  /\ state[r] \in {"open", "answered", "lost"}
  /\ said \in Answers => state[r] = "answered" /\ said = answer[r]
  /\ reply' = [reply EXCEPT ![r] = said]
  /\ UNCHANGED <<state, answer>>

Next ==
  \E r \in Requests :
    \/ Open(r) \/ Refuse(r) \/ Lose(r)
    \/ \E a \in Answers : Answer(r, a)
    \/ \E said \in {"id", "gave_up"} \cup Answers : Tell(r, said)

Spec == Init /\ [][Next]_vars

=============================================================================
