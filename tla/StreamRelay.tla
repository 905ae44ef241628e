----------------------------- MODULE StreamRelay -----------------------------
(***************************************************************************)
(* Streamed requests of one app: the handlers POST /stream/{app_id} and    *)
(* POST /v1/... with "stream": true (gateway/main.py), the Redis pub/sub   *)
(* channel stream:{request_id}, the key cancel:{request_id}, and the       *)
(* worker agent's _run_stream (worker_agent/main.py).                      *)
(*                                                                         *)
(* A message published while nobody subscribes is gone.  Chunks are their  *)
(* kind: "data", an "error" the backend sent in its stream, or one of the   *)
(* chunks that end a stream (the agent's own errors carry done and are a   *)
(* "done").  Deadlines and the 60 s TTL of the cancel key are steps that   *)
(* may be taken whenever their clock runs.                                 *)
(***************************************************************************)
EXTENDS Naturals, Sequences

CONSTANTS Streams,    \* the streamed requests
          Workers,    \* the worker agents polling the app's queue
          Cap,        \* max_containers * tasks_per_container
          MaxChunks,  \* bound: data chunks a backend produces for one request
          None

ASSUME StreamAssumption == None \notin Streams /\ Cap \in Nat /\ MaxChunks \in Nat

VARIABLES handler,    \* where the handler of a stream stands
          route,      \* "stream" or "openai"
          subscribed, \* the streams whose channel the gateway listens to
          inbox,      \* messages delivered to that subscription, not yet read
          relayed,    \* chunks sent on to the client
          finished,   \* handlers that saw a chunk that ends the stream
          cancel,     \* cancel:{id} keys
          queue,      \* queue:{app_id}
          up,         \* the agents that are alive
          job,        \* the request an agent streams
          stage,      \* where its _run_stream stands
          chunk,      \* the chunk in its hand
          made,       \* how many chunks but the last the backend made for it
          result,     \* result:{id}
          published,  \* history: all chunks published on a channel
          late,       \* history: backend chunks published despite a cancel key
          lost        \* history: streams dropped by a dying agent

clientVars == <<handler, route, subscribed, relayed, finished>>
workerVars == <<up, job, stage, chunk, made>>
historyVars == <<published, late, lost>>
vars == <<clientVars, inbox, cancel, queue, workerVars, result, historyVars>>

Ends == {"done", "cancelled", "timeout"}
Chunks == {"data", "error"} \cup Ends
Statuses == {"completed", "cancelled", "timeout"}
Stages == {"idle", "admitted", "subscribed", "recorded", "pushed", "marked", "touched",
           "opening", "relaying", "leaving", "closed", "crashed"}

Init ==
  /\ handler = [r \in Streams |-> "idle"]
  /\ route \in [Streams -> {"stream", "openai"}]
  /\ subscribed = {}
  /\ inbox = [r \in Streams |-> <<>>]
  /\ relayed = [r \in Streams |-> <<>>]
  /\ finished = {}
  /\ cancel = {}
  /\ queue = <<>>
  /\ up = Workers
  /\ job = [w \in Workers |-> None]
  /\ stage = [w \in Workers |-> "poll"]
  /\ chunk = [w \in Workers |-> "data"]
  /\ made = [w \in Workers |-> 0]
  /\ result = [r \in Streams |-> "none"]
  /\ published = [r \in Streams |-> <<>>]
  /\ late = [r \in Streams |-> 0]
  /\ lost = {}

-----------------------------------------------------------------------------
(* The gateway handlers.                                                   *)

Move(r, from, to) ==
  /\ handler[r] = from
  /\ handler' = [handler EXCEPT ![r] = to]

\* LLEN against the cap: on, or 429.
Admit(r) ==
  /\ Move(r, "idle", IF Len(queue) < Cap THEN "admitted" ELSE "closed")
  /\ UNCHANGED <<route, subscribed, inbox, relayed, finished, cancel, queue, workerVars,
                 result, historyVars>>

\* /v1 commits a request row first; /stream makes none.
Record(r) ==
  /\ route[r] = "openai"
  /\ Move(r, "admitted", "recorded")
  /\ UNCHANGED <<route, subscribed, inbox, relayed, finished, cancel, queue, workerVars,
                 result, historyVars>>

\* Mutant: /stream subscribes when it starts to relay.
SubscribeLast(r) ==
  /\ \/ route[r] = "stream" /\ Move(r, "admitted", "subscribed") /\ UNCHANGED subscribed
     \/ /\ Move(r, "touched", "opening")
        /\ subscribed' = subscribed \cup {r}
  /\ UNCHANGED <<route, inbox, relayed, finished, cancel, queue, workerVars, result,
                 historyVars>>

\* SUBSCRIBE: before the job is pushed in /stream, after all of
\* _admit_and_enqueue in /v1.
Subscribe(r) ==
  /\ \/ route[r] = "stream" /\ Move(r, "admitted", "subscribed")
     \/ route[r] = "openai" /\ Move(r, "touched", "opening")
  /\ subscribed' = subscribed \cup {r}
  /\ UNCHANGED <<route, inbox, relayed, finished, cancel, queue, workerVars, result,
                 historyVars>>

\* LPUSH the job.
Push(r) ==
  /\ Move(r, IF route[r] = "stream" THEN "subscribed" ELSE "recorded", "pushed")
  /\ queue' = Append(queue, r)
  /\ UNCHANGED <<route, subscribed, inbox, relayed, finished, cancel, workerVars, result,
                 historyVars>>

\* SET result:{id} to pending.
MarkPending(r) ==
  /\ Move(r, "pushed", "marked")
  /\ result' = [result EXCEPT ![r] = "pending"]
  /\ UNCHANGED <<route, subscribed, inbox, relayed, finished, cancel, queue, workerVars,
                 historyVars>>

\* SET last_request_ts; /stream returns its generator.
Touch(r) ==
  /\ Move(r, "marked", IF route[r] = "stream" THEN "opening" ELSE "touched")
  /\ UNCHANGED <<route, subscribed, inbox, relayed, finished, cancel, queue, workerVars,
                 result, historyVars>>

\* Unsubscribe and close the pubsub connection.
Unsubscribe(r) ==
  /\ subscribed' = subscribed \ {r}
  /\ inbox' = [inbox EXCEPT ![r] = <<>>]

\* The response starts; the generator gets into its try block.
Begin(r) ==
  /\ Move(r, "opening", "relaying")
  /\ UNCHANGED <<route, subscribed, inbox, relayed, finished, cancel, queue, workerVars,
                 result, historyVars>>

\* The client hangs up before that: no finally, nobody is told, and the
\* abandoned subscription is dropped with its connection.
Abandon(r) ==
  /\ Move(r, "opening", "closed")
  /\ Unsubscribe(r)
  /\ UNCHANGED <<route, relayed, finished, cancel, queue, workerVars, result, historyVars>>

\* Mutant: the finally block signals every stream.
RelayThenCancel(r) ==
  /\ handler[r] = "relaying" /\ inbox[r] # <<>>
  /\ relayed' = [relayed EXCEPT ![r] = Append(@, Head(inbox[r]))]
  /\ IF Head(inbox[r]) \in Ends \cup {"error"}
       THEN /\ handler' = [handler EXCEPT ![r] = "closed"]
            /\ finished' = finished \cup {r}
            /\ cancel' = cancel \cup {r}
            /\ Unsubscribe(r)
       ELSE /\ inbox' = [inbox EXCEPT ![r] = Tail(@)]
            /\ UNCHANGED <<handler, finished, subscribed, cancel>>
  /\ UNCHANGED <<route, queue, workerVars, result, historyVars>>

\* The generator sends the next message on; one with done or error ends it.
Relay(r) ==
  /\ handler[r] = "relaying" /\ inbox[r] # <<>>
  /\ relayed' = [relayed EXCEPT ![r] = Append(@, Head(inbox[r]))]
  /\ IF Head(inbox[r]) \in Ends \cup {"error"}
       THEN /\ handler' = [handler EXCEPT ![r] = "closed"]
            /\ finished' = finished \cup {r}
            /\ Unsubscribe(r)
       ELSE /\ inbox' = [inbox EXCEPT ![r] = Tail(@)]
            /\ UNCHANGED <<handler, finished, subscribed>>
  /\ UNCHANGED <<route, cancel, queue, workerVars, result, historyVars>>

\* The client hangs up: the generator is cancelled and runs its finally.
HangUp(r) ==
  /\ Move(r, "relaying", "leaving")
  /\ UNCHANGED <<route, subscribed, inbox, relayed, finished, cancel, queue, workerVars,
                 result, historyVars>>

\* finally, not finished: SET cancel:{id} for 60 s.
SignalCancel(r) ==
  /\ Move(r, "leaving", "closed")
  /\ cancel' = cancel \cup {r}
  /\ Unsubscribe(r)
  /\ UNCHANGED <<route, relayed, finished, queue, workerVars, result, historyVars>>

CancelExpires(r) ==
  /\ r \in cancel
  /\ cancel' = cancel \ {r}
  /\ UNCHANGED <<clientVars, inbox, queue, workerVars, result, historyVars>>

\* The replica dies: no finally, the subscription is gone.
Crash(r) ==
  /\ handler[r] \notin {"idle", "closed", "crashed"}
  /\ handler' = [handler EXCEPT ![r] = "crashed"]
  /\ Unsubscribe(r)
  /\ UNCHANGED <<route, relayed, finished, cancel, queue, workerVars, result, historyVars>>

-----------------------------------------------------------------------------
(* The worker agent.                                                       *)

Stage(w, from, to) ==
  /\ w \in up /\ stage[w] = from
  /\ stage' = [stage EXCEPT ![w] = to]

\* PUBLISH: only a listening gateway gets it.
Publish(r, c) ==
  /\ published' = [published EXCEPT ![r] = Append(@, c)]
  /\ inbox' = IF r \in subscribed THEN [inbox EXCEPT ![r] = Append(@, c)] ELSE inbox

Take(w) ==
  /\ Stage(w, "poll", "stream")
  /\ queue # <<>>
  /\ job' = [job EXCEPT ![w] = Head(queue)]
  /\ queue' = Tail(queue)
  /\ made' = [made EXCEPT ![w] = 0]
  /\ chunk' = [chunk EXCEPT ![w] = "data"]
  /\ UNCHANGED <<clientVars, inbox, cancel, up, result, historyVars>>

\* The backend yields a chunk before the deadline.
Generate(w) ==
  /\ Stage(w, "stream", "check")
  /\ chunk[w] # "done"
  /\ \E c \in {"data", "error", "done"} :
       /\ c # "done" => made[w] < MaxChunks
       /\ chunk' = [chunk EXCEPT ![w] = c]
       /\ made' = [made EXCEPT ![w] = IF c = "done" THEN @ ELSE @ + 1]
  /\ UNCHANGED <<clientVars, inbox, cancel, queue, up, job, result, historyVars>>

\* Mutant: the last chunk goes out without a look at the cancel key.
CheckCancelUnlessDone(w) ==
  /\ Stage(w, "check", "publish")
  /\ IF job[w] \in cancel /\ chunk[w] # "done"
       THEN chunk' = [chunk EXCEPT ![w] = "cancelled"]
       ELSE UNCHANGED chunk
  /\ UNCHANGED <<clientVars, inbox, cancel, queue, up, job, made, result, historyVars>>

\* EXISTS cancel:{id}: the chunk in hand is replaced by the cancelled one.
CheckCancel(w) ==
  /\ Stage(w, "check", "publish")
  /\ IF job[w] \in cancel
       THEN chunk' = [chunk EXCEPT ![w] = "cancelled"]
       ELSE UNCHANGED chunk
  /\ UNCHANGED <<clientVars, inbox, cancel, queue, up, job, made, result, historyVars>>

\* Mutant: a cancelled stream is published as cancelled but not left.
SendAndStay(w) ==
  /\ Stage(w, "publish", "stream")
  /\ Publish(job[w], chunk[w])
  /\ late' = IF job[w] \in cancel /\ chunk[w] # "cancelled"
               THEN [late EXCEPT ![job[w]] = @ + 1] ELSE late
  /\ UNCHANGED <<clientVars, cancel, queue, up, job, chunk, made, result, lost>>

\* PUBLISH the chunk; a cancelled stream is left, any other one goes on, even
\* after its last chunk, to find the generator exhausted.
Send(w) ==
  /\ Stage(w, "publish", IF chunk[w] = "cancelled" THEN "ending" ELSE "stream")
  /\ Publish(job[w], chunk[w])
  /\ late' = IF job[w] \in cancel /\ chunk[w] # "cancelled"
               THEN [late EXCEPT ![job[w]] = @ + 1] ELSE late
  /\ UNCHANGED <<clientVars, cancel, queue, up, job, chunk, made, result, lost>>

Exhausted(w) ==
  /\ Stage(w, "stream", "ending")
  /\ chunk[w] = "done"
  /\ UNCHANGED <<clientVars, inbox, cancel, queue, up, job, chunk, made, result, historyVars>>

\* Mutant: the deadline only guards the wait for the first chunk.
FirstChunkDeadline(w) ==
  /\ Stage(w, "stream", "ending")
  /\ made[w] = 0 /\ chunk[w] # "done"
  /\ chunk' = [chunk EXCEPT ![w] = "timeout"]
  /\ Publish(job[w], "timeout")
  /\ UNCHANGED <<clientVars, cancel, queue, up, job, made, result, late, lost>>

\* The request's deadline passes, before or while waiting for a chunk, and
\* also when the last chunk is out but the loop has not come round yet.
Deadline(w) ==
  /\ Stage(w, "stream", "ending")
  /\ chunk' = [chunk EXCEPT ![w] = "timeout"]
  /\ Publish(job[w], "timeout")
  /\ UNCHANGED <<clientVars, cancel, queue, up, job, made, result, late, lost>>

\* Mutant: every stream that was not cancelled is stored as completed.
WriteCompleted(w) ==
  /\ Stage(w, "ending", "poll")
  /\ result' = [result EXCEPT ![job[w]] =
                  IF chunk[w] = "cancelled" THEN "cancelled" ELSE "completed"]
  /\ job' = [job EXCEPT ![w] = None]
  /\ UNCHANGED <<clientVars, inbox, cancel, queue, up, chunk, made, historyVars>>

\* SET result:{id}, back to polling.
WriteResult(w) ==
  /\ Stage(w, "ending", "poll")
  /\ result' = [result EXCEPT ![job[w]] = IF chunk[w] \in {"cancelled", "timeout"} THEN chunk[w] ELSE "completed"]
  /\ job' = [job EXCEPT ![w] = None]
  /\ UNCHANGED <<clientVars, inbox, cancel, queue, up, chunk, made, historyVars>>

\* Mutant: the exception is caught inside the streaming loop.
DropInsideLoop(w) ==
  /\ \E from \in {"stream", "check", "publish", "ending"} : Stage(w, from, "stream")
  /\ lost' = lost \cup {job[w]}
  /\ job' = [job EXCEPT ![w] = None]
  /\ UNCHANGED <<clientVars, inbox, cancel, queue, up, chunk, made, result, published, late>>

\* An exception in the loop (a Redis error): the job is dropped unanswered.
Drop(w) ==
  /\ \E from \in {"stream", "check", "publish", "ending"} : Stage(w, from, "poll")
  /\ lost' = lost \cup {job[w]}
  /\ job' = [job EXCEPT ![w] = None]
  /\ UNCHANGED <<clientVars, inbox, cancel, queue, up, chunk, made, result, published, late>>

\* The agent's pod goes away (terminated or crashed), with or without a job.
Stop(w) ==
  /\ w \in up
  /\ up' = up \ {w}
  /\ lost' = lost \cup ({job[w]} \ {None})
  /\ job' = [job EXCEPT ![w] = None]
  /\ UNCHANGED <<clientVars, inbox, cancel, queue, stage, chunk, made, result, published, late>>

-----------------------------------------------------------------------------

HandlerStep(r) ==
  \/ Admit(r) \/ Record(r) \/ Subscribe(r) \/ Push(r) \/ MarkPending(r) \/ Touch(r)
  \/ Begin(r) \/ Relay(r) \/ SignalCancel(r)

WorkerStep(w) ==
  \/ Take(w) \/ CheckCancel(w) \/ Send(w) \/ Exhausted(w)
  \/ Deadline(w) \/ WriteResult(w)

Next ==
  \/ \E r \in Streams : HandlerStep(r) \/ Abandon(r) \/ HangUp(r) \/ CancelExpires(r) \/ Crash(r)
  \/ \E w \in Workers : WorkerStep(w) \/ Generate(w) \/ Drop(w) \/ Stop(w)

Spec == Init /\ [][Next]_vars

-----------------------------------------------------------------------------

\* Every variable holds values of its kind.
TypeOK ==
  /\ handler \in [Streams -> Stages]
  /\ route \in [Streams -> {"stream", "openai"}]
  /\ subscribed \in SUBSET Streams
  /\ inbox \in [Streams -> Seq(Chunks)]
  /\ relayed \in [Streams -> Seq(Chunks)]
  /\ finished \in SUBSET Streams
  /\ cancel \in SUBSET Streams
  /\ queue \in Seq(Streams)
  /\ up \in SUBSET Workers
  /\ job \in [Workers -> Streams \cup {None}]
  /\ stage \in [Workers -> {"poll", "stream", "check", "publish", "ending"}]
  /\ \A w \in up : stage[w] # "poll" => job[w] # None
  /\ chunk \in [Workers -> Chunks]
  /\ made \in [Workers -> 0..MaxChunks]
  /\ result \in [Streams -> {"none", "pending"} \cup Statuses]
  /\ published \in [Streams -> Seq(Chunks)]
  /\ late \in [Streams -> Nat]
  /\ lost \in SUBSET Streams

Missed(r) == handler[r] \in {"opening", "relaying"} /\ relayed[r] \o inbox[r] # published[r]

\* Subscribe-before-enqueue pays off in /stream: what its client has been sent
\* and what waits for it are exactly what the worker published, in order.
StreamMissesNothing == \A r \in Streams : route[r] = "stream" => ~Missed(r)

\* A cancel key stops the worker at its next chunk: while the key exists, at
\* most the one chunk already past the check goes out, be it the last one.
CancelStopsTheWorker == \A r \in Streams : late[r] <= 1

\* Only a client that hung up before the end of its stream is cancelled.
OnlyUnfinishedAreCancelled == cancel \cap finished = {}

\* A stream has one end, which is its last chunk, unless its deadline passes
\* right after its "done" is out: then a second end, the timeout, follows.
EndsAreLast ==
  \A r \in Streams : \A i \in 1..Len(published[r]) :
    published[r][i] \in Ends /\ i # Len(published[r])
      => /\ i = Len(published[r]) - 1
         /\ published[r][i] = "done" /\ published[r][i + 1] = "timeout"

\* The stored status is the one the last chunk told the listeners.
ResultTellsTheEnd ==
  \A r \in Streams : result[r] \in Statuses =>
    /\ published[r] # <<>>
    /\ LET last == published[r][Len(published[r])]
       IN  result[r] = IF last = "done" THEN "completed" ELSE last

\* docs/OPERATIONS.md: a stuck backend does not wedge the worker.  Every agent
\* that streams gets back to its poll loop, or dies.
WorkersAreReleased ==
  \A w \in Workers : stage[w] # "poll" ~> (stage[w] = "poll" \/ w \notin up)

\* A /stream client that stays on the line sees the end of its stream, unless
\* the job or the replica is lost or no agent is left to run it.
StreamsEnd ==
  \A r \in Streams :
    route[r] = "stream" /\ handler[r] = "relaying"
      ~> (handler[r] \in {"leaving", "closed", "crashed"} \/ r \in lost \/ up = {})

=============================================================================
