------------------------------ MODULE Console ------------------------------
(***************************************************************************)
(* What every page of the web console (src/web/src) is made of: the state  *)
(* of the components on screen, the calls the page has made to the gateway *)
(* and not yet seen the end of, and the gateway's rows those calls read    *)
(* and write.  The page modules extend this one.                           *)
(*                                                                         *)
(* A call is sent, answered with a snapshot of the moment it is served, or *)
(* fails, and its continuation runs in a step of its own: replies overtake *)
(* each other.  Two equal calls on their way are one member of net.  React *)
(* runs effects and re-renders right after an event: they belong to the    *)
(* event's step.                                                           *)
(***************************************************************************)
CONSTANT None

VARIABLES ui,    \* the state of the components on screen; ui.route says which
          net,   \* calls whose continuation has not run
          gw     \* the gateway's rows

vars == <<ui, net, gw>>

\* gateway.ts request(): one fetch.  live: the component that made the call is
\* still mounted; a continuation of one that is gone only navigates.
Call(op, arg) == [op |-> op, arg |-> arg, at |-> "sent", val |-> None, live |-> TRUE]

CallsOf(op) == {c \in net : c.op = op /\ c.live}
Waiting(op) == CallsOf(op) # {}

\* request() returns the body of an ok response; the proxy passes it through.
Answered(c, v) == (net \ {c}) \cup {[c EXCEPT !.at = "ok", !.val = v]}

\* request() throws for any status that is not ok; the proxy turns a gateway
\* it cannot reach, or that does not answer, into a 502.
Failed(c) == (net \ {c}) \cup {[c EXCEPT !.at = "failed"]}

Done(c, op) == c \in net /\ c.op = op /\ c.at # "sent" /\ c.live

\* Components that unmount leave their calls behind.
Orphans(calls) == {[c EXCEPT !.live = FALSE] : c \in calls}
=============================================================================
