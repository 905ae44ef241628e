--------------------------- MODULE RequestDispatch ---------------------------
(***************************************************************************)
(* One app's unary request path: the gateway handlers POST /run/{app_id}   *)
(* and POST /v1/... (gateway/main.py), the Redis job list queue:{app_id},  *)
(* the worker agents that BRPOP it (worker_agent/main.py), the Redis key   *)
(* result:{request_id} and the Postgres row of the request.                *)
(*                                                                         *)
(* Every await on Redis or Postgres is a point where another handler,      *)
(* another gateway replica or a worker may run, so a handler is split into *)
(* one action per such call.  Payloads, outputs and clocks are abstracted: *)
(* a status stands for the (status, output) pair written with it, and a    *)
(* deadline is a step that may be taken whenever its timer is running.     *)
(***************************************************************************)
EXTENDS Naturals, Sequences, FiniteSets

CONSTANTS Requests,          \* the requests clients may submit
          Workers,           \* the worker agents polling this app's queue
          Readers,           \* concurrent GET /result and GET /apps/../requests handlers
          MaxContainers,     \* app.autoscaler["max_containers"]
          TasksPerContainer, \* app.autoscaler["tasks_per_container"]
          None               \* "no request"

ASSUME DispatchAssumption ==
  /\ IsFiniteSet(Requests)
  /\ None \notin Requests
  /\ MaxContainers \in Nat
  /\ TasksPerContainer \in Nat

VARIABLES handler,   \* where the handler that serves a request stands
          route,     \* "run" or "openai": the endpoint the request came in by
          reply,     \* what its client has been told
          queue,     \* queue:{app_id}, the next job to BRPOP first
          job,       \* the request each worker agent is running
          up,        \* the worker agents whose poll loop is running
          result,    \* result:{request_id}
          row,       \* the status (and output) of the Postgres row
          stamped,   \* the rows whose completed_at is set
          reading,   \* the request each reader is serving
          blob,      \* the result blob it has read
          served,    \* history: what a worker answered
          lost,      \* history: the jobs dropped by a worker without an answer
          burst      \* history: the most handlers ever between LLEN and LPUSH

gatewayVars == <<handler, route, reply, burst>>
workerVars  == <<job, up, served, lost>>
rowVars     == <<row, stamped>>
readerVars  == <<reading, blob>>
vars == <<gatewayVars, queue, workerVars, result, rowVars, readerVars>>

-----------------------------------------------------------------------------

Answers == {"completed", "timeout"}      \* what _run_unary may write
Blobs   == {"none", "pending"} \cup Answers
Rows    == {"absent", "pending", "gave_up"} \cup Answers
Stages  == {"idle", "admitted", "recorded", "pushed", "marked", "polling",
            "giving_up", "closed", "crashed"}

Cap == MaxContainers * TasksPerContainer

InQueue(r) == \E i \in 1..Len(queue) : queue[i] = r
Held(r)    == \E w \in Workers : job[w] = r

\* The handler has LPUSHed the job.
Pushed == {r \in Requests :
             handler[r] \in {"pushed", "marked", "polling", "giving_up", "closed"}
             /\ reply[r] # "busy"}

\* The handlers that have been let in and have not LPUSHed yet.
Window == {r \in Requests : handler[r] \in {"admitted", "recorded"}}

Init ==
  /\ handler = [r \in Requests |-> "idle"]
  /\ route \in [Requests -> {"run", "openai"}]
  /\ reply = [r \in Requests |-> "none"]
  /\ queue = <<>>
  /\ job = [w \in Workers |-> None]
  /\ up = Workers
  /\ result = [r \in Requests |-> "none"]
  /\ row = [r \in Requests |-> "absent"]
  /\ stamped = {}
  /\ reading = [d \in Readers |-> None]
  /\ blob = [d \in Readers |-> "none"]
  /\ served = [r \in Requests |-> "none"]
  /\ lost = {}
  /\ burst = 0

-----------------------------------------------------------------------------
(* The gateway handler: _admit_and_enqueue, then the caller's tail.        *)

Move(r, from, to) ==
  /\ handler[r] = from
  /\ handler' = [handler EXCEPT ![r] = to]

\* Mutant: off by one at the cap.
AdmitAtCap(r) ==
  /\ Move(r, "idle", "admitted")
  /\ Len(queue) <= Cap
  /\ burst' = IF Cardinality(Window) < burst THEN burst ELSE Cardinality(Window) + 1
  /\ UNCHANGED <<route, reply, queue, workerVars, result, rowVars, readerVars>>

\* LLEN below the cap: go on.
Admit(r) ==
  /\ Move(r, "idle", "admitted")
  /\ Len(queue) < Cap
  /\ burst' = IF Cardinality(Window) < burst THEN burst ELSE Cardinality(Window) + 1
  /\ UNCHANGED <<route, reply, queue, workerVars, result, rowVars, readerVars>>

\* LLEN at the cap: 429.
Refuse(r) ==
  /\ Move(r, "idle", "closed")
  /\ Len(queue) >= Cap
  /\ reply' = [reply EXCEPT ![r] = "busy"]
  /\ UNCHANGED <<burst, route, queue, workerVars, result, rowVars, readerVars>>

\* INSERT the request row, status "pending", and commit.
Record(r) ==
  /\ Move(r, "admitted", "recorded")
  /\ row' = [row EXCEPT ![r] = "pending"]
  /\ UNCHANGED <<burst, route, reply, queue, workerVars, result, stamped, readerVars>>

\* LPUSH the job.
Push(r) ==
  /\ Move(r, "recorded", "pushed")
  /\ queue' = Append(queue, r)
  /\ UNCHANGED <<burst, route, reply, workerVars, result, rowVars, readerVars>>

\* SET result:{id} to pending, whatever it holds by now.
MarkPending(r) ==
  /\ Move(r, "pushed", "marked")
  /\ result' = [result EXCEPT ![r] = "pending"]
  /\ UNCHANGED <<burst, route, reply, queue, workerVars, rowVars, readerVars>>

\* Mutant: "pending" is written last, when the id may already be polled.
TouchThenMark(r) ==
  /\ Move(r, "marked", IF route[r] = "run" THEN "closed" ELSE "polling")
  /\ reply' = IF route[r] = "run" THEN [reply EXCEPT ![r] = "id"] ELSE reply
  /\ result' = [result EXCEPT ![r] = "pending"]
  /\ UNCHANGED <<burst, route, queue, workerVars, rowVars, readerVars>>

\* SET last_request_ts (the fleet's clock, see WorkerFleet); /run answers
\* with the id, /v1 starts to poll.
Touch(r) ==
  /\ \/ /\ route[r] = "run"
        /\ Move(r, "marked", "closed")
        /\ reply' = [reply EXCEPT ![r] = "id"]
     \/ /\ route[r] = "openai"
        /\ Move(r, "marked", "polling")
        /\ UNCHANGED reply
  /\ UNCHANGED <<burst, route, queue, workerVars, result, rowVars, readerVars>>

\* Write a status over the row; completed_at is set once, for a terminal one.
WriteRow(r, status) ==
  /\ row' = [row EXCEPT ![r] = status]
  /\ stamped' = IF status = "pending" THEN stamped ELSE stamped \cup {r}

\* Mutant: any blob counts as the completion.
AnswerAnyBlob(r) ==
  /\ Move(r, "polling", "closed")
  /\ result[r] # "none"
  /\ WriteRow(r, "completed")
  /\ reply' = [reply EXCEPT ![r] = "completed"]
  /\ UNCHANGED <<burst, route, queue, workerVars, result, readerVars>>

\* /v1: the poll finds a terminal blob, mirrors it and answers 200 or 504.
AnswerClient(r) ==
  /\ Move(r, "polling", "closed")
  /\ result[r] \in Answers
  /\ WriteRow(r, result[r])
  /\ reply' = [reply EXCEPT ![r] = result[r]]
  /\ UNCHANGED <<burst, route, queue, workerVars, result, readerVars>>

\* /v1: sixty seconds are over and the last blob read was not terminal.
GiveUp(r) ==
  /\ Move(r, "polling", "giving_up")
  /\ result[r] \notin Answers
  /\ UNCHANGED <<burst, route, reply, queue, workerVars, result, rowVars, readerVars>>

\* /v1: mirror a timeout of the gateway's own, answer 504.
MirrorGiveUp(r) ==
  /\ Move(r, "giving_up", "closed")
  /\ WriteRow(r, "gave_up")
  /\ reply' = [reply EXCEPT ![r] = "gave_up"]
  /\ UNCHANGED <<burst, route, queue, workerVars, result, readerVars>>

\* The replica serving the request dies.
Crash(r) ==
  /\ handler[r] \notin {"idle", "closed", "crashed"}
  /\ handler' = [handler EXCEPT ![r] = "crashed"]
  /\ UNCHANGED <<burst, route, reply, queue, workerVars, result, rowVars, readerVars>>

-----------------------------------------------------------------------------
(* The worker agent: poll_loop and _run_unary.                             *)

\* Mutant: the job is read but left in the list.
TakeByPeek(w) ==
  /\ w \in up /\ job[w] = None
  /\ queue # <<>>
  /\ job' = [job EXCEPT ![w] = Head(queue)]
  /\ UNCHANGED <<gatewayVars, queue, up, served, lost, result, rowVars, readerVars>>

\* Mutant: the agent pops the next job while it still runs one.
TakeWhileBusy(w) ==
  /\ w \in up
  /\ queue # <<>>
  /\ job' = [job EXCEPT ![w] = Head(queue)]
  /\ queue' = Tail(queue)
  /\ UNCHANGED <<gatewayVars, up, served, lost, result, rowVars, readerVars>>

\* BRPOP: one atomic, destructive read.
Take(w) ==
  /\ w \in up /\ job[w] = None
  /\ queue # <<>>
  /\ job' = [job EXCEPT ![w] = Head(queue)]
  /\ queue' = Tail(queue)
  /\ UNCHANGED <<gatewayVars, up, served, lost, result, rowVars, readerVars>>

\* Mutant: the agent does not go back to its poll loop after an answer.
FinishKeepsJob(w, answer) ==
  /\ w \in up /\ job[w] # None
  /\ result' = [result EXCEPT ![job[w]] = answer]
  /\ served' = [served EXCEPT ![job[w]] = answer]
  /\ UNCHANGED <<gatewayVars, queue, job, up, lost, rowVars, readerVars>>

\* The backend answers, or wait_for times out; either is written.
Finish(w, answer) ==
  /\ w \in up /\ job[w] # None
  /\ result' = [result EXCEPT ![job[w]] = answer]
  /\ served' = [served EXCEPT ![job[w]] = answer]
  /\ job' = [job EXCEPT ![w] = None]
  /\ UNCHANGED <<gatewayVars, queue, up, lost, rowVars, readerVars>>

\* An exception in _run_unary (Redis unreachable): poll_loop logs it, goes on.
Drop(w) ==
  /\ w \in up /\ job[w] # None
  /\ lost' = lost \cup {job[w]}
  /\ job' = [job EXCEPT ![w] = None]
  /\ UNCHANGED <<gatewayVars, queue, up, served, result, rowVars, readerVars>>

\* The agent ends: drained between two jobs, or its pod is terminated (by the
\* autoscaler, a delete or a restart) or crashes with the job in hand.
Stop(w) ==
  /\ w \in up
  /\ up' = up \ {w}
  /\ lost' = lost \cup ({job[w]} \ {None})
  /\ job' = [job EXCEPT ![w] = None]
  /\ UNCHANGED <<gatewayVars, queue, served, result, rowVars, readerVars>>

-----------------------------------------------------------------------------
(* The readers: get_result and list_app_requests.                          *)

\* Mutant: a missing blob is mirrored like any other.
ReadMissingBlob(d, r) ==
  /\ reading[d] = None
  /\ row[r] # "absent"
  /\ reading' = [reading EXCEPT ![d] = r]
  /\ blob' = [blob EXCEPT ![d] = result[r]]
  /\ UNCHANGED <<gatewayVars, queue, workerVars, result, rowVars>>

\* GET /result: read the blob (the request id is known once its row exists).
ReadBlob(d, r) ==
  /\ reading[d] = None
  /\ row[r] # "absent" /\ result[r] # "none"
  /\ reading' = [reading EXCEPT ![d] = r]
  /\ blob' = [blob EXCEPT ![d] = result[r]]
  /\ UNCHANGED <<gatewayVars, queue, workerVars, result, rowVars>>

\* GET /apps/{id}/requests: only rows still pending whose blob is terminal.
ListBlob(d, r) ==
  /\ row[r] = "pending" /\ result[r] \in Answers
  /\ ReadBlob(d, r)

\* Mirror the blob read earlier into the row, unless the row says so already.
Mirror(d) ==
  /\ reading[d] # None
  /\ IF row[reading[d]] = blob[d] THEN UNCHANGED rowVars
                                  ELSE WriteRow(reading[d], blob[d])
  /\ reading' = [reading EXCEPT ![d] = None]
  /\ blob' = [blob EXCEPT ![d] = "none"]
  /\ UNCHANGED <<gatewayVars, queue, workerVars, result>>

\* ex=3600: an hour outlives every handler of the request.
Expire(r) ==
  /\ handler[r] \in {"closed", "crashed"}
  /\ \A d \in Readers : reading[d] # r
  /\ result[r] # "none"
  /\ result' = [result EXCEPT ![r] = "none"]
  /\ UNCHANGED <<gatewayVars, queue, workerVars, rowVars, readerVars>>

-----------------------------------------------------------------------------

HandlerStep(r) ==
  \/ Admit(r) \/ Refuse(r) \/ Record(r) \/ Push(r) \/ MarkPending(r) \/ Touch(r)
  \/ AnswerClient(r) \/ GiveUp(r) \/ MirrorGiveUp(r)

WorkerStep(w) ==
  \/ Take(w)
  \/ \E a \in Answers : Finish(w, a)

Fault ==
  \/ \E r \in Requests : Crash(r)
  \/ \E w \in Workers : Drop(w) \/ Stop(w)

ReaderStep(d) ==
  \/ \E r \in Requests : ReadBlob(d, r) \/ ListBlob(d, r)
  \/ Mirror(d)

Next ==
  \/ \E r \in Requests : HandlerStep(r)
  \/ \E w \in Workers : WorkerStep(w)
  \/ Fault
  \/ \E d \in Readers : ReaderStep(d)
  \/ \E r \in Requests : Expire(r)

Spec == Init /\ [][Next]_vars

-----------------------------------------------------------------------------
(* Invariants.                                                             *)

\* Every variable holds values of its kind.
TypeOK ==
  /\ handler \in [Requests -> Stages]
  /\ route \in [Requests -> {"run", "openai"}]
  /\ reply \in [Requests -> {"none", "id", "busy", "gave_up"} \cup Answers]
  /\ queue \in Seq(Requests)
  /\ job \in [Workers -> Requests \cup {None}]
  /\ up \in SUBSET Workers
  /\ result \in [Requests -> Blobs]
  /\ row \in [Requests -> Rows]
  /\ stamped \in SUBSET Requests
  /\ reading \in [Readers -> Requests \cup {None}]
  /\ blob \in [Readers -> Blobs]
  /\ \A d \in Readers : reading[d] # None => blob[d] # "none"
  /\ served \in [Requests -> {"none"} \cup Answers]
  /\ lost \in SUBSET Requests
  /\ burst \in Nat

\* A job that was pushed is in one place: once in the list, or with one
\* worker, or answered, or dropped.  Never run twice, never run after it was
\* answered or dropped (LPUSH once, BRPOP destructive).
SingleCustody ==
  /\ \A i, j \in 1..Len(queue) : queue[i] = queue[j] => i = j
  /\ \A v, w \in Workers : job[v] = job[w] /\ job[v] # None => v = w
  /\ \A r \in Requests :
       /\ InQueue(r) => ~Held(r)
       /\ InQueue(r) \/ Held(r) => served[r] = "none" /\ r \notin lost
       /\ served[r] # "none" => r \notin lost

\* A job whose handler got past LPUSH without dying is never mislaid: it is
\* waiting, running, answered, or was dropped by a worker that failed.
NothingVanishes ==
  \A r \in Pushed : InQueue(r) \/ Held(r) \/ served[r] # "none" \/ r \in lost

\* No terminal status is ever shown that a worker did not produce for that
\* request: not in Redis, in the row, in a reader's hand, or to the client.
AnswersAreTheWorkers ==
  /\ \A r \in Requests :
       /\ result[r] \in Answers => result[r] = served[r]
       /\ row[r] \in Answers => row[r] = served[r]
       /\ reply[r] \in Answers => reply[r] = served[r]
  /\ \A d \in Readers :
       reading[d] # None /\ blob[d] \in Answers => blob[d] = served[reading[d]]

\* A row that shows a terminal status has its completed_at, and a row exists
\* for every job a worker can see.
RowsAreComplete ==
  \A r \in Requests :
    /\ row[r] \in Answers \cup {"gave_up"} => r \in stamped
    /\ InQueue(r) \/ Held(r) \/ served[r] # "none" => row[r] # "absent"

\* The cap is checked and the job pushed in two steps, so the list may grow
\* past max_containers * tasks_per_container, but by no more than the handlers
\* that were ever in between at the same time, less one.
OvershootIsTheBurst == burst > 0 => Len(queue) + Cardinality(Window) + 1 <= Cap + burst

Untouched(r) ==
  ~InQueue(r) /\ ~Held(r) /\ served[r] = "none" /\ r \notin lost

\* A request whose job was not pushed (or was refused) has left no trace in the
\* queue or with a worker, a client that was told something has a handler that
\* is over, and a request being recorded, or read, has its row.
HandlersAndJobsAgree ==
  /\ \A r \in Requests :
       /\ handler[r] \in {"idle", "admitted", "recorded"} \/ reply[r] = "busy"
            => Untouched(r)
       /\ reply[r] # "none" => handler[r] = "closed"
       /\ handler[r] = "closed" => reply[r] # "none"
       /\ handler[r] = "recorded" => row[r] # "absent"
  /\ \A d \in Readers : reading[d] # None => row[reading[d]] # "absent"

(* Action and liveness properties.                                         *)

\* Once its handler has marked a request pending, a stored answer is stable:
\* until its TTL, nothing replaces or removes it.  (Before that, see
\* PollGetsTheAnswer.)
MarkedAnswerIsStable ==
  [][\A r \in Requests :
       result[r] \in Answers /\ handler[r] # "pushed" /\ result'[r] # result[r]
         => result'[r] = "none" /\ handler[r] \in {"closed", "crashed"}]_vars

\* A queued job is answered or dropped unless every agent is gone.
JobsGetServed ==
  \A r \in Requests :
    InQueue(r) ~> (served[r] # "none" \/ r \in lost \/ up = {})

\* Each client is told something (an id, 429, an answer or 504) unless the
\* replica serving it dies.
ClientsGetReplies ==
  \A r \in Requests :
    handler[r] # "idle" ~> (reply[r] # "none" \/ handler[r] = "crashed")

\* docs/ARCHITECTURE.md (hot path): the worker SETEXes the result, the client
\* polls and gets it.  So a client that has its id and polls after the worker
\* has answered does not read "pending".
PollGetsTheAnswer ==
  \A r \in Requests :
    handler[r] = "closed" /\ served[r] # "none" => result[r] # "pending"

-----------------------------------------------------------------------------
(* The dispatch path implements RequestContract.                           *)

Fate(r) ==
  IF served[r] # "none" THEN "answered"
  ELSE IF r \in lost THEN "lost"
  ELSE IF InQueue(r) \/ Held(r) THEN "open"
  ELSE IF reply[r] = "busy" THEN "refused"
  ELSE "new"

Contract == INSTANCE RequestContract
              WITH state <- [r \in Requests |-> Fate(r)], answer <- served

\* Every behaviour of handlers, queue and workers is one of the contract: a
\* request is opened by LPUSH, answered or lost at most once, and its client
\* is told one thing that agrees with it.
ImplementsContract == Contract!Spec

=============================================================================
