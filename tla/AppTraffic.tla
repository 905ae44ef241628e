------------------------------ MODULE AppTraffic ------------------------------
(***************************************************************************)
(* Unary and streamed requests of one app together: RequestDispatch and    *)
(* StreamRelay on one queue:{app_id} and one set of worker agents, each of *)
(* which runs one job at a time, of either kind (worker_agent/main.py,     *)
(* poll_loop).  A stream that does not end keeps the jobs behind it        *)
(* waiting, and the other way round.                                       *)
(***************************************************************************)
EXTENDS Naturals, Sequences

CONSTANTS Requests, Streams, Workers, MaxContainers, TasksPerContainer, MaxChunks, None

VARIABLES queue, up, job,                    \* shared
          handler, route, reply, result, row, stamped, reading, blob, served, lost, burst,
          relay, path, subscribed, inbox, relayed, finished, cancel, stage, chunk, made,
          outcome, published, late, gone     \* of the streams

unaryVars  == <<handler, route, reply, result, row, stamped, reading, blob, served, lost, burst>>
streamVars == <<relay, path, subscribed, inbox, relayed, finished, cancel, stage, chunk, made,
                outcome, published, late, gone>>
vars == <<queue, up, job, unaryVars, streamVars>>

Unary == INSTANCE RequestDispatch WITH Readers <- {}
Stream == INSTANCE StreamRelay
            WITH Cap <- MaxContainers * TasksPerContainer,
                 handler <- relay, route <- path, result <- outcome, lost <- gone

Init == Unary!Init /\ Stream!Init

\* The job says which it is: job.get("stream").
IsStream(j) == j \in Streams
Waits(w) == job[w] = None /\ stage[w] = "poll" /\ queue # <<>>

TakeUnary(w) == Waits(w) /\ ~IsStream(Head(queue)) /\ Unary!Take(w) /\ UNCHANGED streamVars
TakeStream(w) == Waits(w) /\ IsStream(Head(queue)) /\ Stream!Take(w) /\ UNCHANGED unaryVars

\* The agent runs the job in its hand to an answer.
RunUnary(w) ==
  /\ job[w] \in Requests
  /\ \E a \in Unary!Answers : Unary!Finish(w, a)
  /\ UNCHANGED streamVars

RunStream(w) ==
  /\ IsStream(job[w])
  /\ \/ Stream!CheckCancel(w) \/ Stream!Send(w) \/ Stream!Exhausted(w)
     \/ Stream!Deadline(w) \/ Stream!WriteResult(w)
  /\ UNCHANGED unaryVars

AgentStep(w) == TakeUnary(w) \/ TakeStream(w) \/ RunUnary(w) \/ RunStream(w)

Handlers ==
  \/ \E r \in Requests : Unary!HandlerStep(r) /\ UNCHANGED streamVars
  \/ \E r \in Streams : Stream!HandlerStep(r) /\ UNCHANGED unaryVars

\* What clients and backends do.  The TTLs of the keys and the crashes of a
\* replica, which excuse the requests they hit and touch no other, are left to
\* the two modules' own runs.
Outside ==
  /\ \/ \E r \in Streams : Stream!Abandon(r) \/ Stream!HangUp(r)
     \/ \E w \in Workers : Stream!Generate(w)
  /\ UNCHANGED unaryVars

\* The agent goes with whatever it has in hand.
Stop(w) == Unary!Stop(w) /\ Stream!Stop(w)

Faults ==
  \E w \in Workers :
    \/ job[w] \in Requests /\ Unary!Drop(w) /\ UNCHANGED streamVars
    \/ IsStream(job[w]) /\ Stream!Drop(w) /\ UNCHANGED unaryVars
    \/ Stop(w)

Next == Handlers \/ (\E w \in Workers : AgentStep(w)) \/ Outside \/ Faults

\* A started handler is run on, and an agent that is up polls, runs its job and
\* has its deadlines pass.  Nothing makes a backend produce chunks.
Fairness ==
  /\ \A r \in Requests :
       WF_vars(handler[r] # "idle" /\ Unary!HandlerStep(r) /\ UNCHANGED streamVars)
  /\ \A r \in Streams :
       WF_vars(relay[r] # "idle" /\ Stream!HandlerStep(r) /\ UNCHANGED unaryVars)
  /\ \A w \in Workers : WF_vars(AgentStep(w))

Spec == Init /\ [][Next]_vars /\ Fairness

-----------------------------------------------------------------------------

\* A queued job of either kind gets to an agent, whatever is before it in the
\* list: it is answered, or streamed to an end, or dropped, unless every agent
\* is gone.  One backend that hangs may not starve the other requests.
JobsGetServed ==
  /\ Unary!JobsGetServed
  /\ \A r \in Streams :
       (\E i \in 1..Len(queue) : queue[i] = r) ~> (outcome[r] \in Stream!Statuses \/ r \in gone \/ up = {})

\* docs/OPERATIONS.md: a stuck backend does not wedge the worker.  Every agent
\* gets back to its poll loop from every stream, or dies.
WorkersAreReleased == Stream!WorkersAreReleased

\* Each unary client is told something unless the replica serving it dies, and
\* a /stream client that stays on the line sees the end of its stream unless
\* the job or the replica is lost or no agent is left to run it.
ClientsAreAnswered == Unary!ClientsGetReplies /\ Stream!StreamsEnd

=============================================================================
