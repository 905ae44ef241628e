---------------------------- MODULE EndpointTabs ----------------------------
(***************************************************************************)
(* What the page of an endpoint polls: the banner of the overview tab      *)
(* (overview.tsx), the queue tab (queue.tsx, api/cluster/queue), the       *)
(* workers tab, which remembers workers in the browser's storage           *)
(* (workers.tsx, api/runpod/pods), and the logs under a worker's row,      *)
(* which share no state with the table above and are a view of their own.  *)
(* None of them orders its answers: a slow one overwrites a newer one.     *)
(***************************************************************************)
EXTENDS Console, Integers, FiniteSets

CONSTANTS Jobs, Pods,    \* requests of the endpoint, pods of its workers
          MaxPolls,      \* bounds: polls on their way at a time,
          MaxChanges,    \* changes behind the page's back,
          MaxTurns       \* and turns of the user to another view or log

ConstantsOK == MaxChanges \in Nat /\ MaxTurns \in Nat

Views == {"banner", "queue", "workers", "logs"}
Logs == {"gateway", "container"}

-----------------------------------------------------------------------------
(* What is polled: gw has the requests, the pods, whether a worker could not *)
(* be started, how long each log is, and the browser's storage of workers.   *)

JobStatus == {"none", "pending", "completed", "timeout", "cancelled"}
PodStatus == {"none", "CREATED", "RUNNING", "EXITED", "gone"}

\* api/cluster/queue.  A request a worker has in hand is still pending.
bucketFor(st) == CASE st \in {"completed", "ready"} -> "completed"
                   [] st \in {"timeout", "cancelled", "error"} -> "failed"
                   [] st = "pending" -> "in queue"
                   [] st = "none" -> "none"
                   [] OTHER -> "in progress"
\* api/runpod/pods: the pods whose names have the endpoint's prefix.
mapStatus(st) == CASE st = "RUNNING" -> "running"
                   [] st \in {"TERMINATED", "EXITED"} -> "terminated"
                   [] st = "CREATED" -> "initializing"
                   [] OTHER -> "none"

Queue == [j \in Jobs |-> bucketFor(gw.job[j])]
Workers == [p \in Pods |-> mapStatus(gw.pod[p])]
Fault == [fault |-> gw.fault]
Log(s) == [log |-> gw.log[s]]

-----------------------------------------------------------------------------
(* The views *)

\* data is None until the first answer.
View(v) == [of |-> v, data |-> None, err |-> FALSE, loading |-> TRUE]
Nothing == [p \in Pods |-> "none"]
Open(v) == CASE v = "workers" -> [route |-> "tabs", view |-> View(v), remembered |-> gw.stored]
             [] v = "logs" -> [route |-> "tabs", view |-> View(v), source |-> "gateway", tail |-> TRUE]
             [] OTHER -> [route |-> "tabs", view |-> View(v)]
On(v) == ui.route = "tabs" /\ ui.view.of = v

\* Polls are of the source chosen, where there is one to choose.
Poll(u) == Call(u.view.of, IF u.view.of = "logs" THEN u.source ELSE None)
Begin(u) == IF u.view.of \in {"queue", "workers"} THEN [u EXCEPT !.view.loading = TRUE] ELSE u
\* The effect runs on mount, and again when the source or tail changes.
Turn(u, calls) == /\ gw.turns > 0 /\ gw' = [gw EXCEPT !.turns = @ - 1]
                  /\ ui' = Begin(u) /\ net' = calls \cup {Poll(u)}

Init == /\ gw = [job |-> [j \in Jobs |-> "none"], pod |-> [p \in Pods |-> "none"], fault |-> FALSE,
                 log |-> [s \in Logs |-> 0], stored |-> Nothing, left |-> MaxChanges, turns |-> MaxTurns]
        /\ ui = Open("banner") /\ net = {Poll(ui)}

\* A tab that unmounts leaves its polls; only those of the workers tab may still
\* do something: their answer may reach the storage.
ShowView(v) == /\ ~On(v)
               /\ Turn(Open(v), Orphans({c \in net : c.op = "workers"}))

-----------------------------------------------------------------------------
(* Polling *)

Timer == On("logs") => ui.tail
Room == Cardinality(net) < MaxPolls
Ask == /\ ui' = IF On("workers") THEN [Begin(ui) EXCEPT !.view.err = FALSE] ELSE Begin(ui)
       /\ net' = net \cup {Poll(ui)}
       /\ UNCHANGED gw
Tick == Timer /\ Room /\ Ask
RefreshButton == (~ui.view.loading \/ On("logs")) /\ ~On("banner") /\ Room /\ Ask

Shows(d) == [ui EXCEPT !.view.data = d, !.view.err = FALSE, !.view.loading = FALSE]
Fails == [ui EXCEPT !.view.err = TRUE, !.view.loading = FALSE]

\* The banner: best-effort, a failure leaves what is shown.
BannerReply(c) == /\ Done(c, "banner")
                  /\ ui' = IF c.at = "ok" THEN [ui EXCEPT !.view.data = c.val] ELSE ui
                  /\ net' = net \ {c}
                  /\ UNCHANGED gw
QueueReply(c) == /\ Done(c, "queue")
                 /\ ui' = IF c.at = "ok" THEN Shows(c.val) ELSE Fails
                 /\ net' = net \ {c}
                 /\ UNCHANGED gw

\* Live workers are added to those remembered, or replace what was; what is
\* remembered goes to the storage.
Merge(old, workers) == [p \in Pods |-> IF workers[p] = "none" THEN old[p] ELSE workers[p]]
WorkersReply(c) ==
  /\ Done(c, "workers")
  /\ IF c.at = "ok"
     THEN LET merged == Merge(ui.remembered, c.val)
          IN  /\ ui' = [ui EXCEPT !.view.data = c.val, !.view.loading = FALSE, !.remembered = merged]
              /\ gw' = [gw EXCEPT !.stored = merged]
     ELSE ui' = Fails /\ gw' = gw
  /\ net' = net \ {c}
\* The updater of a component that is gone may have been run: React's choice.
LateWorkers(c) == /\ c \in net /\ ~c.live /\ c.at # "sent"
                  /\ gw' \in {gw} \cup (IF c.at = "ok" THEN {[gw EXCEPT !.stored = Merge(@, c.val)]} ELSE {})
                  /\ net' = net \ {c}
                  /\ UNCHANGED ui
\* A worker that is remembered and not listed is terminated; until the first
\* answer the workers show as they were last seen.
rows(u) == IF u.view.data = None THEN u.remembered
           ELSE [p \in Pods |-> IF u.view.data[p] # "none" THEN u.view.data[p]
                                ELSE IF u.remembered[p] # "none" THEN "terminated" ELSE "none"]
ClearHistory == /\ On("workers") /\ \E p \in Pods : rows(ui)[p] = "terminated"
                /\ ui' = [ui EXCEPT !.remembered = Nothing]
                /\ gw' = [gw EXCEPT !.stored = Nothing]
                /\ UNCHANGED net

\* Each log has its own list; another source empties both.  A late failure of
\* the other source is shown all the same.
LogsReply(c) == /\ Done(c, "logs")
                /\ ui' = CASE c.at = "failed" -> Fails
                           [] c.at = "ok" /\ c.arg = ui.source -> Shows(c.val)
                           [] OTHER -> [ui EXCEPT !.view.err = FALSE, !.view.loading = FALSE]
                /\ net' = net \ {c}
                /\ UNCHANGED gw
ChooseSource(s) == On("logs") /\ s # ui.source /\ Room /\ Turn([ui EXCEPT !.source = s, !.view = View("logs")], net)
ToggleTail == On("logs") /\ Room /\ Turn([ui EXCEPT !.tail = ~@], net)

-----------------------------------------------------------------------------
(* The servers behind the page *)

Snapshot(c) == CASE c.op = "banner" -> Fault
                 [] c.op = "queue" -> Queue
                 [] c.op = "workers" -> Workers
                 [] c.op = "logs" -> Log(c.arg)
Serve(c) == c \in net /\ c.at = "sent" /\ net' = Answered(c, Snapshot(c)) /\ UNCHANGED <<ui, gw>>
Fail(c) == c \in net /\ c.at = "sent" /\ net' = Failed(c) /\ UNCHANGED <<ui, gw>>

Change(g) == gw.left > 0 /\ gw' = [g EXCEPT !.left = @ - 1] /\ UNCHANGED <<ui, net>>
JobMoves(j) == \/ gw.job[j] = "none" /\ Change([gw EXCEPT !.job[j] = "pending"])
               \/ gw.job[j] = "pending" /\ \E st \in {"completed", "timeout", "cancelled"} : Change([gw EXCEPT !.job[j] = st])
NextStatus(st) == CASE st = "none" -> {"CREATED"}
                    [] st = "CREATED" -> {"RUNNING", "gone"}
                    [] st = "RUNNING" -> {"EXITED", "gone"}
                    [] st = "EXITED" -> {"gone"}
                    [] OTHER -> {}
PodMoves(p) == \E st \in NextStatus(gw.pod[p]) : Change([gw EXCEPT !.pod[p] = st])
FaultMoves == Change([gw EXCEPT !.fault = ~@])
LogGrows(s) == Change([gw EXCEPT !.log[s] = @ + 1])

-----------------------------------------------------------------------------
Reply(c) == BannerReply(c) \/ QueueReply(c) \/ WorkersReply(c) \/ LateWorkers(c) \/ LogsReply(c)
UserStep == \/ RefreshButton \/ ClearHistory \/ ToggleTail
            \/ \E v \in Views : ShowView(v)
            \/ \E s \in Logs : ChooseSource(s)
PageStep == \/ Tick
            \/ \E c \in net : Reply(c)
ServerStep == \/ \E c \in net : Serve(c) \/ Fail(c)
              \/ FaultMoves
              \/ \E j \in Jobs : JobMoves(j)
              \/ \E p \in Pods : PodMoves(p)
              \/ \E s \in Logs : LogGrows(s)
Next == UserStep \/ PageStep \/ ServerStep
Spec == Init /\ [][Next]_vars

\* Timers fire and continuations run; a server that is asked again and again
\* answers in the end.
Ticks == Tick
Answers == \E c \in net : c.live /\ Serve(c)
Replies == \E c \in net : c.at = "ok" /\ Reply(c)
OtherReplies == \E c \in net : c.at = "failed" /\ Reply(c)

-----------------------------------------------------------------------------
(* Properties *)

Bucket == {"none", "in queue", "in progress", "completed", "failed"}
WorkerStatus == {"none", "running", "initializing", "terminated"}
Data == [banner |-> [fault: BOOLEAN], queue |-> [Jobs -> Bucket],
         workers |-> [Pods -> WorkerStatus], logs |-> [log: 0 .. MaxChanges]]
TypeOK ==
  /\ ui.view.of \in Views /\ ui.view \in [of: Views, data: {None} \cup Data[ui.view.of], err: BOOLEAN, loading: BOOLEAN]
  /\ On("workers") => ui.remembered \in [Pods -> WorkerStatus]
  /\ On("logs") => ui.source \in Logs /\ ui.tail \in BOOLEAN
  /\ \A c \in net : /\ c.op \in Views
                    /\ c \in [op: Views, arg: {None} \cup Logs, at: {"sent", "ok", "failed"},
                              val: {None} \cup Data[c.op], live: BOOLEAN]
  /\ gw \in [job: [Jobs -> JobStatus], pod: [Pods -> PodStatus], fault: BOOLEAN,
             log: [Logs -> 0 .. MaxChanges], stored: [Pods -> WorkerStatus], left: 0 .. MaxChanges, turns: 0 .. MaxTurns]

\* What a view shows is so: no worker that is gone runs on the screen, none
\* that is there is missing or shown as terminated.
WorkersTrue == \A p \in Pods : CASE mapStatus(gw.pod[p]) # "none" -> rows(ui)[p] = mapStatus(gw.pod[p])
                                 [] OTHER -> rows(ui)[p] \in {"none", "terminated"}
Truth == /\ On("banner") => ui.view.data = Fault
         /\ On("queue") => ui.view.data = Queue /\ ~ui.view.err
         /\ On("workers") => ui.view.data # None /\ WorkersTrue /\ ~ui.view.err
         /\ On("logs") => ui.view.data = Log(ui.source) /\ ~ui.view.err

\* Once nothing changes any more, a view that polls comes to show the truth,
\* whatever was answered late or not at all, unless the user turns the polling off.
Behind == ui.route = "tabs" /\ Timer /\ gw.left = 0 /\ ~Truth
TabsCatchUp == Behind ~> ~Behind
=============================================================================
