-------------------------- MODULE StreamRelayProofs --------------------------
(***************************************************************************)
(* Proofs about StreamRelay, for any streams, workers, cap and number of   *)
(* chunks.                                                                 *)
(***************************************************************************)
EXTENDS StreamRelay, TLAPS

-----------------------------------------------------------------------------
(* Types.                                                                  *)

LEMMA TypeInit == Init => TypeOK
BY StreamAssumption DEF Init, TypeOK, Stages, Chunks, Ends

LEMMA TypeHandler ==
  ASSUME TypeOK, NEW r \in Streams,
         HandlerStep(r) \/ Abandon(r) \/ HangUp(r) \/ CancelExpires(r) \/ Crash(r)
  PROVE  TypeOK'
<1> USE DEF TypeOK, clientVars, workerVars, historyVars, Stages, Move, Unsubscribe
<1>0. ASSUME NEW s \in Seq(Chunks), inbox' = [inbox EXCEPT ![r] = s] PROVE inbox' \in [Streams -> Seq(Chunks)]
  BY <1>0
<1>1. CASE Admit(r) \/ Record(r) \/ Subscribe(r) \/ Touch(r) \/ Begin(r) \/ HangUp(r)
  BY <1>1, ZenonT(60) DEF Admit, Record, Subscribe, Touch, Begin, HangUp
<1>2. CASE Push(r)
  BY <1>2 DEF Push
<1>3. CASE MarkPending(r)
  BY <1>3 DEF MarkPending
<1>4. CASE Abandon(r) \/ SignalCancel(r) \/ CancelExpires(r) \/ Crash(r)
  <2>1. inbox' \in [Streams -> Seq(Chunks)]
    <3>1. inbox' = [inbox EXCEPT ![r] = <<>>] \/ inbox' = inbox
      BY <1>4 DEF Abandon, SignalCancel, CancelExpires, Crash
    <3>2. <<>> \in Seq(Chunks)
      OBVIOUS
    <3> QED BY <1>0, <3>1, <3>2
  <2> QED BY <1>4, <2>1, ZenonT(60) DEF Abandon, SignalCancel, CancelExpires, Crash
<1>5. CASE Relay(r)
  <2>1. Head(inbox[r]) \in Chunks /\ Tail(inbox[r]) \in Seq(Chunks)
    BY <1>5 DEF Relay
  <2>2. inbox' \in [Streams -> Seq(Chunks)]
    <3>1. inbox' = [inbox EXCEPT ![r] = <<>>] \/ inbox' = [inbox EXCEPT ![r] = Tail(inbox[r])]
      BY <1>5 DEF Relay
    <3>2. <<>> \in Seq(Chunks)
      OBVIOUS
    <3> QED BY <1>0, <2>1, <3>1, <3>2
  <2>3. relayed' \in [Streams -> Seq(Chunks)]
    <3>1. Append(relayed[r], Head(inbox[r])) \in Seq(Chunks)
      BY <2>1
    <3> QED BY <1>5, <3>1 DEF Relay
  <2>4. handler' \in [Streams -> Stages] /\ finished' \subseteq Streams /\ subscribed' \subseteq Streams
    <3>1. /\ handler' = [handler EXCEPT ![r] = "closed"] \/ handler' = handler
          /\ finished' = finished \cup {r} \/ finished' = finished
          /\ subscribed' = subscribed \ {r} \/ subscribed' = subscribed
      BY <1>5 DEF Relay
    <3>2. handler' \in [Streams -> Stages]
      BY <3>1
    <3>3. finished' \subseteq Streams /\ subscribed' \subseteq Streams
      BY <3>1
    <3> QED BY <3>2, <3>3
  <2>5. UNCHANGED <<route, cancel, queue, workerVars, result, historyVars>>
    BY <1>5 DEF Relay
  <2> QED BY <2>2, <2>3, <2>4, <2>5
<1> QED BY <1>1, <1>2, <1>3, <1>4, <1>5 DEF HandlerStep

LEMMA TypeWorker ==
  ASSUME TypeOK, NEW w \in Workers,
         WorkerStep(w) \/ Generate(w) \/ Drop(w) \/ Stop(w)
  PROVE  TypeOK'
<1> USE StreamAssumption DEF TypeOK, clientVars, workerVars, historyVars, Stage, Chunks, Ends
<1>1. CASE Take(w)
  <2>1. Head(queue) \in Streams /\ Tail(queue) \in Seq(Streams)
    BY <1>1 DEF Take
  <2>2. /\ job' \in [Workers -> Streams \cup {None}] /\ job'[w] # None
        /\ \A v \in Workers \ {w} : job'[v] = job[v] /\ stage'[v] = stage[v]
    BY <1>1, <2>1 DEF Take
  <2> QED BY <1>1, <2>1, <2>2, SMTT(60) DEF Take
<1>2. CASE Generate(w)
  BY <1>2 DEF Generate
<1>3. CASE CheckCancel(w) \/ Exhausted(w)
  BY <1>3 DEF CheckCancel, Exhausted
<1>4. CASE Send(w)
  BY <1>4, SMTT(60) DEF Send, Publish
<1>5. CASE Deadline(w)
  BY <1>5, SMTT(60) DEF Deadline, Publish
<1>6. CASE WriteResult(w)
  BY <1>6 DEF WriteResult, Statuses
<1>7. CASE Drop(w)
  BY <1>7 DEF Drop
<1>8. CASE Stop(w)
  BY <1>8 DEF Stop
<1> QED BY <1>1, <1>2, <1>3, <1>4, <1>5, <1>6, <1>7, <1>8 DEF WorkerStep

LEMMA TypeStep == ASSUME TypeOK, [Next]_vars PROVE TypeOK'
<1>1. CASE Next
  BY <1>1, TypeHandler, TypeWorker DEF Next
<1>2. CASE UNCHANGED vars
  BY <1>2 DEF TypeOK, vars, clientVars, workerVars, historyVars
<1> QED BY <1>1, <1>2

\* The relay is type correct for any streams, workers, cap and chunks; an agent
\* that is up and not polling has a stream in hand.
THEOREM TypeCorrect == Spec => []TypeOK
BY TypeInit, TypeStep, PTL DEF Spec

-----------------------------------------------------------------------------
(* Hang-ups.                                                               *)

\* The cancel key is set once, by a handler that leaves for good without having
\* seen the end; whoever sees the end leaves for good too.
HangUps == /\ \A r \in cancel : handler[r] = "closed" /\ r \notin finished
           /\ \A r \in finished : handler[r] = "closed"

LEMMA HangUpsStep == ASSUME TypeOK, HangUps, [Next]_vars PROVE HangUps'
<1> USE DEF TypeOK, HangUps, clientVars, workerVars, historyVars, Move, Unsubscribe
<1>1. ASSUME NEW r \in Streams, HandlerStep(r) \/ Abandon(r) \/ HangUp(r) \/ CancelExpires(r) \/ Crash(r)
      PROVE  HangUps'
  <2>1. CASE Admit(r) \/ Record(r) \/ Subscribe(r) \/ Push(r) \/ MarkPending(r) \/ Touch(r) \/ Begin(r)
    BY <2>1 DEF Admit, Record, Subscribe, Push, MarkPending, Touch, Begin
  <2>2. CASE Relay(r)
    BY <2>2 DEF Relay
  <2>3. CASE SignalCancel(r) \/ Abandon(r) \/ HangUp(r) \/ CancelExpires(r) \/ Crash(r)
    BY <2>3 DEF SignalCancel, Abandon, HangUp, CancelExpires, Crash
  <2> QED BY <1>1, <2>1, <2>2, <2>3 DEF HandlerStep
<1>2. ASSUME NEW w \in Workers, WorkerStep(w) \/ Generate(w) \/ Drop(w) \/ Stop(w) PROVE HangUps'
  BY <1>2 DEF WorkerStep, Take, Generate, CheckCancel, Send, Exhausted, Deadline, WriteResult, Drop, Stop
<1>3. CASE UNCHANGED vars
  BY <1>3 DEF vars
<1> QED BY <1>1, <1>2, <1>3 DEF Next

\* No stream whose end was relayed is cancelled.
THEOREM TheFinishedAreNotCancelled == Spec => []OnlyUnfinishedAreCancelled
<1>1. Init => HangUps
  BY DEF Init, HangUps
<1>2. HangUps => OnlyUnfinishedAreCancelled
  BY DEF HangUps, OnlyUnfinishedAreCancelled
<1> QED BY <1>1, <1>2, TypeInit, TypeStep, HangUpsStep, PTL DEF Spec

-----------------------------------------------------------------------------
(* Custody.                                                                *)

Early(r) == handler[r] \in {"idle", "admitted", "subscribed", "recorded"}
Queued(r) == \E i \in 1..Len(queue) : queue[i] = r
Untaken(r) == published[r] = <<>> /\ late[r] = 0 /\ result[r] \notin Statuses /\ \A w \in Workers : job[w] # r

\* A stream is pushed once, taken once and in one hand: nothing is published or
\* stored of one that no agent has taken.
Custody == /\ \A r \in Streams : Early(r) => ~Queued(r)
           /\ \A r \in Streams : Early(r) \/ Queued(r) => Untaken(r)
           /\ \A i, j \in 1..Len(queue) : queue[i] = queue[j] => i = j
           /\ \A w \in Workers : job[w] # None => w \in up /\ stage[w] # "poll"
           /\ \A v, w \in Workers : job[v] # None /\ job[v] = job[w] => v = w

\* A handler that takes a step takes none of the agents'.
LEMMA HandlerFrame ==
  ASSUME TypeOK, NEW r \in Streams, HandlerStep(r) \/ Abandon(r) \/ HangUp(r) \/ CancelExpires(r) \/ Crash(r)
  PROVE  /\ UNCHANGED <<workerVars, historyVars, route>>
         /\ result' = result \/ (result' = [result EXCEPT ![r] = "pending"])
         /\ \A s \in Streams : Early(s)' => Early(s)
         /\ queue' = queue \/ (queue' = Append(queue, r) /\ Early(r) /\ ~Early(r)')
<1> USE DEF TypeOK, clientVars, workerVars, historyVars, Move, Unsubscribe, Early
<1>1. CASE Admit(r) \/ Record(r) \/ Subscribe(r) \/ Touch(r) \/ Begin(r) \/ HangUp(r)
  BY <1>1 DEF Admit, Record, Subscribe, Touch, Begin, HangUp
<1>2. CASE Push(r)
  BY <1>2 DEF Push
<1>3. CASE MarkPending(r)
  BY <1>3 DEF MarkPending
<1>4. CASE Abandon(r) \/ SignalCancel(r) \/ CancelExpires(r) \/ Crash(r)
  BY <1>4 DEF Abandon, SignalCancel, CancelExpires, Crash
<1>5. CASE Relay(r)
  <2>1. handler' = [handler EXCEPT ![r] = "closed"] \/ handler' = handler
    BY <1>5 DEF Relay
  <2>2. UNCHANGED <<workerVars, historyVars, route, result, queue>>
    BY <1>5 DEF Relay
  <2> QED BY <2>1, <2>2
<1> QED BY <1>1, <1>2, <1>3, <1>4, <1>5 DEF HandlerStep

LEMMA CustodyHandler ==
  ASSUME TypeOK, Custody, NEW r \in Streams,
         HandlerStep(r) \/ Abandon(r) \/ HangUp(r) \/ CancelExpires(r) \/ Crash(r)
  PROVE  Custody'
<1>1. UNCHANGED <<up, job, stage, published, late>> /\ \A s \in Streams : Early(s)' => Early(s)
  BY HandlerFrame DEF workerVars, historyVars
<1>2. \A s \in Streams : result[s] \notin Statuses => result'[s] \notin Statuses
  BY HandlerFrame DEF Statuses, TypeOK
<1>3. \A s \in Streams : Untaken(s) => Untaken(s)'
  BY <1>1, <1>2 DEF Untaken
<1>4. CASE queue' = queue
  BY <1>1, <1>3, <1>4 DEF Custody, Queued
<1>5. CASE queue' = Append(queue, r) /\ Early(r) /\ ~Early(r)'
  <2>1. /\ Len(queue') = Len(queue) + 1 /\ queue'[Len(queue) + 1] = r
        /\ \A i \in 1..Len(queue) : queue'[i] = queue[i] /\ queue[i] # r
    BY <1>5, SMTT(60) DEF TypeOK, Custody, Queued
  <2>2. Len(queue) \in Nat
    BY DEF TypeOK
  <2>3. \A s \in Streams : Queued(s)' => Queued(s) \/ s = r
    BY <2>1, <2>2 DEF Queued
  <2>4. \A i, j \in 1..Len(queue') : queue'[i] = queue'[j] => i = j
    BY <2>1, <2>2 DEF Custody
  <2> QED BY <1>1, <1>3, <1>5, <2>3, <2>4 DEF Custody
<1> QED BY <1>4, <1>5, HandlerFrame

\* An agent that takes a step works on the stream in its hand, or takes one.
LEMMA WorkerFrame ==
  ASSUME TypeOK, NEW w \in Workers, WorkerStep(w) \/ Generate(w) \/ Drop(w) \/ Stop(w), ~Take(w)
  PROVE  /\ UNCHANGED <<clientVars, queue>>
         /\ w \in up /\ (job'[w] = job[w] \/ job'[w] = None)
         /\ \A v \in Workers \ {w} : /\ job'[v] = job[v] /\ stage'[v] = stage[v] /\ chunk'[v] = chunk[v]
                                     /\ v \in up => v \in up'
         /\ job'[w] # None => w \in up' /\ stage'[w] # "poll" /\ stage[w] # "poll"
         /\ \A r \in Streams \ {job[w]} :
              published'[r] = published[r] /\ late'[r] = late[r] /\ result'[r] = result[r] /\ inbox'[r] = inbox[r]
<1> USE DEF TypeOK, clientVars, workerVars, historyVars, Stage
<1>1. CASE Generate(w) \/ CheckCancel(w) \/ Exhausted(w)
  BY <1>1 DEF Generate, CheckCancel, Exhausted
<1>2. CASE Send(w)
  BY <1>2 DEF Send, Publish
<1>3. CASE Deadline(w)
  BY <1>3 DEF Deadline, Publish
<1>4. CASE WriteResult(w)
  BY <1>4 DEF WriteResult
<1>5. CASE Drop(w) \/ Stop(w)
  BY <1>5 DEF Drop, Stop
<1> QED BY <1>1, <1>2, <1>3, <1>4, <1>5 DEF WorkerStep

LEMMA CustodyTake ==
  ASSUME TypeOK, Custody, NEW w \in Workers, Take(w)
  PROVE  Custody' /\ \A r \in Streams : job'[w] = r => Untaken(r)
<1>1. /\ queue # <<>> /\ queue' = Tail(queue) /\ queue \in Seq(Streams)
      /\ job' = [job EXCEPT ![w] = Head(queue)] /\ w \in up /\ up' = up
      /\ stage' = [stage EXCEPT ![w] = "stream"] /\ stage[w] = "poll"
      /\ UNCHANGED <<handler, published, late, result>>
  BY DEF Take, Stage, TypeOK, clientVars, historyVars
<1>2. /\ Head(queue) = queue[1] /\ Len(queue) \in Nat \ {0} /\ Len(queue') = Len(queue) - 1
      /\ \A i \in 1..Len(queue') : queue'[i] = queue[i + 1]
  BY <1>1
<1>3. queue[1] \in Streams /\ Queued(queue[1]) /\ queue[1] # None
  BY <1>1, <1>2, StreamAssumption DEF Queued
<1>4. \A r \in Streams : Queued(r)' => Queued(r) /\ r # queue[1]
  BY <1>2 DEF Queued, Custody
<1>5. \A r \in Streams : Untaken(r) /\ r # queue[1] => Untaken(r)'
  BY <1>1, <1>2 DEF Untaken, TypeOK
<1>6. Untaken(queue[1]) /\ ~Early(queue[1])
  BY <1>3 DEF Custody
<1>7. \A v \in Workers : job[v] # queue[1]
  BY <1>6 DEF Untaken
<1>8. \A i, j \in 1..Len(queue') : queue'[i] = queue'[j] => i = j
  BY <1>2 DEF Custody
<1>9. /\ \A v \in Workers : job'[v] # None => v \in up' /\ stage'[v] # "poll"
      /\ \A u, v \in Workers : job'[u] # None /\ job'[u] = job'[v] => u = v
  BY <1>1, <1>2, <1>7 DEF Custody, TypeOK
<1>10. \A r \in Streams : Early(r)' => Early(r)
  BY <1>1 DEF Early
<1> QED BY <1>1, <1>2, <1>3, <1>4, <1>5, <1>6, <1>8, <1>9, <1>10, SMTT(60) DEF Custody, TypeOK

LEMMA CustodyStep == ASSUME TypeOK, Custody, [Next]_vars PROVE Custody'
<1>1. ASSUME NEW w \in Workers, WorkerStep(w) \/ Generate(w) \/ Drop(w) \/ Stop(w), ~Take(w) PROVE Custody'
  <2>1. UNCHANGED <<handler, queue>>
    BY <1>1, WorkerFrame DEF clientVars
  <2>2. \A r \in Streams : Untaken(r) => Untaken(r)'
    <3> SUFFICES ASSUME NEW r \in Streams, Untaken(r) PROVE Untaken(r)'
      OBVIOUS
    <3>1. r # job[w] /\ r # None
      BY StreamAssumption DEF Untaken
    <3> QED BY <1>1, <3>1, WorkerFrame DEF Untaken
  <2>3. /\ \A v \in Workers : job'[v] # None => v \in up' /\ stage'[v] # "poll"
        /\ \A u, v \in Workers : job'[u] # None /\ job'[u] = job'[v] => u = v
    BY <1>1, WorkerFrame DEF Custody
  <2> QED BY <2>1, <2>2, <2>3 DEF Custody, Early, Queued
<1>2. CASE UNCHANGED vars
  BY <1>2 DEF Custody, Early, Queued, Untaken, vars, clientVars, workerVars, historyVars
<1> QED BY <1>1, <1>2, CustodyHandler, CustodyTake DEF Next

-----------------------------------------------------------------------------
(* Ends.                                                                   *)

Open(r) == \A i \in 1..Len(published[r]) : published[r][i] \notin Ends
EndedBy(r, c) == published[r] # <<>> /\ published[r][Len(published[r])] = c
OpenBefore(r) == \A i \in 1..Len(published[r]) : i # Len(published[r]) => published[r][i] \notin Ends

\* Where an agent stands says what it has published.
Tells(w, r) == /\ stage[w] = "stream" => \/ chunk[w] \in {"data", "error"} /\ Open(r)
                                         \/ chunk[w] = "done" /\ EndedBy(r, "done") /\ OpenBefore(r)
               /\ stage[w] = "check" => Open(r) /\ chunk[w] \in {"data", "error", "done"}
               /\ stage[w] = "publish" => Open(r) /\ chunk[w] \in {"data", "error", "done", "cancelled"}
               /\ stage[w] = "ending" => EndedBy(r, chunk[w]) /\ chunk[w] \in Ends
               /\ result[r] \notin Statuses

EndsInv == /\ \A w \in Workers, r \in Streams : job[w] = r => Tells(w, r)
           /\ EndsAreLast
           /\ ResultTellsTheEnd

\* What one more chunk does to what was published.
LEMMA OneMore ==
  ASSUME TypeOK, NEW r \in Streams, NEW c \in Chunks, published' = [published EXCEPT ![r] = Append(@, c)]
  PROVE  /\ EndedBy(r, c)'
         /\ Open(r) => OpenBefore(r)'
         /\ Open(r) /\ c \notin Ends => Open(r)'
         /\ Len(published'[r]) = Len(published[r]) + 1 /\ Len(published[r]) \in Nat
         /\ \A i \in 1..Len(published[r]) : published'[r][i] = published[r][i]
<1>1. published[r] \in Seq(Chunks) /\ published'[r] = Append(published[r], c)
  BY DEF TypeOK
<1>2. /\ Len(published'[r]) = Len(published[r]) + 1 /\ Len(published[r]) \in Nat
      /\ \A i \in 1..Len(published[r]) : published'[r][i] = published[r][i]
      /\ published'[r][Len(published[r]) + 1] = c
  BY <1>1
<1>3. published'[r] # <<>>
  BY <1>2, <1>1
<1>4. EndedBy(r, c)'
  BY <1>2, <1>3 DEF EndedBy
<1>5. Open(r) => OpenBefore(r)'
  BY <1>2 DEF Open, OpenBefore
<1>6. Open(r) /\ c \notin Ends => Open(r)'
  BY <1>2 DEF Open
<1> QED BY <1>2, <1>4, <1>5, <1>6

\* Nothing is told anew where nothing is published.
LEMMA TellsStays ==
  ASSUME NEW v, NEW s, Tells(v, s), published'[s] = published[s], stage'[v] = stage[v], chunk'[v] = chunk[v],
         result'[s] \in Statuses => result'[s] = result[s]
  PROVE  Tells(v, s)'
BY DEF Tells, Open, EndedBy, OpenBefore

LEMMA EndsStay ==
  ASSUME EndsInv, \A s \in Streams : published'[s] = published[s],
         \A s \in Streams : result'[s] \in Statuses => result'[s] = result[s]
  PROVE  EndsAreLast' /\ ResultTellsTheEnd'
<1>1. EndsAreLast'
  BY DEF EndsInv, EndsAreLast
<1>2. ResultTellsTheEnd'
  BY DEF EndsInv, ResultTellsTheEnd
<1> QED BY <1>1, <1>2

\* The stream whose agent works on it is the one whose chunks and status change.
LEMMA OthersTell ==
  ASSUME TypeOK, Custody, EndsInv, NEW w \in Workers, NEW r \in Streams, job[w] = r,
         WorkerStep(w) \/ Generate(w) \/ Drop(w) \/ Stop(w), ~Take(w),
         job'[w] = r => Tells(w, r)',
         \A i \in 1..Len(published'[r]) : published'[r][i] \in Ends /\ i # Len(published'[r])
           => i = Len(published'[r]) - 1 /\ published'[r][i] = "done" /\ published'[r][i + 1] = "timeout",
         result'[r] \in Statuses =>
           /\ published'[r] # <<>>
           /\ result'[r] = IF published'[r][Len(published'[r])] = "done" THEN "completed"
                           ELSE published'[r][Len(published'[r])]
  PROVE  EndsInv'
<1>1. \A s \in Streams \ {r} : published'[s] = published[s] /\ result'[s] = result[s]
  BY WorkerFrame
<1>2. ASSUME NEW v \in Workers, NEW s \in Streams, job'[v] = s PROVE Tells(v, s)'
  <2>1. CASE v = w
    <3>1. s = r
      BY <1>2, <2>1, WorkerFrame, StreamAssumption
    <3> QED BY <1>2, <2>1, <3>1
  <2>2. CASE v # w
    <3>1. job[v] = s /\ s # r /\ stage'[v] = stage[v] /\ chunk'[v] = chunk[v]
      BY <1>2, <2>2, WorkerFrame, StreamAssumption DEF Custody
    <3>2. Tells(v, s)
      BY <3>1 DEF EndsInv
    <3> QED BY <1>1, <3>1, <3>2, TellsStays
  <2> QED BY <2>1, <2>2
<1>3. EndsAreLast'
  BY <1>1, SMTT(60) DEF EndsAreLast, EndsInv
<1>4. ResultTellsTheEnd'
  BY <1>1 DEF ResultTellsTheEnd, EndsInv
<1> QED BY <1>2, <1>3, <1>4 DEF EndsInv

LEMMA EndsWorker ==
  ASSUME TypeOK, Custody, EndsInv, NEW w \in Workers,
         WorkerStep(w) \/ Generate(w) \/ Drop(w) \/ Stop(w), ~Take(w)
  PROVE  EndsInv'
<1>1. CASE job[w] = None
  <2>1. \A s \in Streams : published'[s] = published[s] /\ result'[s] = result[s]
    BY <1>1, WorkerFrame, StreamAssumption
  <2>2. \A v \in Workers, s \in Streams : job'[v] = s => v # w /\ job[v] = s /\ stage'[v] = stage[v] /\ chunk'[v] = chunk[v]
    BY <1>1, WorkerFrame, StreamAssumption
  <2>3. \A v \in Workers, s \in Streams : job'[v] = s => Tells(v, s)'
    BY <2>1, <2>2, TellsStays DEF EndsInv
  <2> QED BY <2>1, <2>3, EndsStay DEF EndsInv
<1>2. CASE job[w] # None
  <2>1. PICK r \in Streams : job[w] = r
    BY <1>2 DEF TypeOK
  <2>2. /\ Tells(w, r) /\ result[r] \notin Statuses /\ chunk[w] \in Chunks
        /\ \A i \in 1..Len(published[r]) : published[r][i] \in Ends /\ i # Len(published[r])
             => i = Len(published[r]) - 1 /\ published[r][i] = "done" /\ published[r][i + 1] = "timeout"
    BY <2>1 DEF EndsInv, EndsAreLast, Tells, TypeOK
  <2>3. CASE Generate(w) \/ CheckCancel(w) \/ Exhausted(w)
    <3>1. /\ UNCHANGED <<published, result>> /\ job' = job /\ stage'[w] \in {"check", "publish", "ending"}
          /\ stage'[w] = "check" => stage[w] = "stream" /\ chunk[w] # "done" /\ chunk'[w] \in {"data", "error", "done"}
          /\ stage'[w] = "publish" => stage[w] = "check" /\ chunk'[w] \in {chunk[w], "cancelled"}
          /\ stage'[w] = "ending" => stage[w] = "stream" /\ chunk[w] = "done" /\ chunk'[w] = "done"
      BY <2>3 DEF Generate, CheckCancel, Exhausted, Stage, TypeOK, historyVars
    <3>2. Tells(w, r)'
      BY <2>2, <3>1 DEF Tells, Open, EndedBy, OpenBefore, Ends
    <3> QED BY <2>1, <2>2, <2>3, <3>1, <3>2, OthersTell
  <2>4. CASE Send(w)
    <3>1. /\ published' = [published EXCEPT ![r] = Append(@, chunk[w])] /\ UNCHANGED <<job, chunk, result>>
          /\ stage[w] = "publish" /\ stage'[w] = IF chunk[w] = "cancelled" THEN "ending" ELSE "stream"
      BY <2>1, <2>4 DEF Send, Publish, Stage, TypeOK
    <3>2. Open(r) /\ chunk[w] \in {"data", "error", "done", "cancelled"}
      BY <2>2, <3>1 DEF Tells
    <3>3. EndedBy(r, chunk[w])' /\ OpenBefore(r)' /\ (chunk[w] \notin Ends => Open(r)')
      BY <2>2, <3>1, <3>2, OneMore
    <3>4. Tells(w, r)'
      BY <2>2, <3>1, <3>2, <3>3 DEF Tells, Ends, EndedBy
    <3> QED BY <2>1, <2>2, <2>4, <3>1, <3>3, <3>4, OthersTell DEF OpenBefore
  <2>5. CASE Deadline(w)
    <3>1. /\ published' = [published EXCEPT ![r] = Append(@, "timeout")] /\ UNCHANGED <<job, result>>
          /\ stage[w] = "stream" /\ stage'[w] = "ending" /\ chunk'[w] = "timeout"
      BY <2>1, <2>5 DEF Deadline, Publish, Stage, TypeOK
    <3>2. Open(r) \/ (EndedBy(r, "done") /\ OpenBefore(r))
      BY <2>2, <3>1 DEF Tells
    <3>3. "timeout" \in Chunks /\ "timeout" \in Ends
      BY DEF Chunks, Ends
    <3>4. /\ EndedBy(r, "timeout")'
          /\ Len(published'[r]) = Len(published[r]) + 1 /\ Len(published[r]) \in Nat
          /\ \A i \in 1..Len(published[r]) : published'[r][i] = published[r][i]
      BY <3>1, <3>3, OneMore
    <3>5. Tells(w, r)'
      BY <2>2, <3>1, <3>3, <3>4 DEF Tells, EndedBy
    <3>6. \A i \in 1..Len(published'[r]) : published'[r][i] \in Ends /\ i # Len(published'[r])
             => i = Len(published'[r]) - 1 /\ published'[r][i] = "done" /\ published'[r][i + 1] = "timeout"
      BY <3>2, <3>4, SMTT(60) DEF Open, EndedBy, OpenBefore
    <3> QED BY <2>1, <2>2, <2>5, <3>1, <3>5, <3>6, OthersTell
  <2>6. CASE WriteResult(w)
    <3>1. /\ stage[w] = "ending" /\ job'[w] = None /\ published' = published
          /\ result'[r] = IF chunk[w] \in {"cancelled", "timeout"} THEN chunk[w] ELSE "completed"
      BY <2>1, <2>6 DEF WriteResult, Stage, TypeOK, historyVars
    <3>2. EndedBy(r, chunk[w]) /\ chunk[w] \in Ends
      BY <2>2, <3>1 DEF Tells
    <3> QED BY <2>1, <2>2, <2>6, <3>1, <3>2, StreamAssumption, OthersTell DEF EndedBy, Ends
  <2>7. CASE Drop(w) \/ Stop(w)
    <3>1. job'[w] = None /\ UNCHANGED <<published, result>>
      BY <2>7 DEF Drop, Stop, TypeOK
    <3> QED BY <2>1, <2>2, <2>7, <3>1, StreamAssumption, OthersTell
  <2> QED BY <2>3, <2>4, <2>5, <2>6, <2>7 DEF WorkerStep
<1> QED BY <1>1, <1>2

LEMMA EndsStep == ASSUME TypeOK, Custody, EndsInv, [Next]_vars PROVE EndsInv'
<1>1. ASSUME NEW r \in Streams, HandlerStep(r) \/ Abandon(r) \/ HangUp(r) \/ CancelExpires(r) \/ Crash(r)
      PROVE  EndsInv'
  <2>1. UNCHANGED <<job, stage, chunk, published>>
    BY <1>1, HandlerFrame DEF workerVars, historyVars
  <2>2. \A s \in Streams : result'[s] \in Statuses => result'[s] = result[s]
    BY <1>1, HandlerFrame DEF Statuses, TypeOK
  <2>3. \A v \in Workers, s \in Streams : job'[v] = s => Tells(v, s)'
    BY <2>1, <2>2, TellsStays DEF EndsInv
  <2> QED BY <2>1, <2>2, <2>3, EndsStay DEF EndsInv
<1>2. ASSUME NEW w \in Workers, Take(w) PROVE EndsInv'
  <2>1. /\ UNCHANGED <<published, result>> /\ stage'[w] = "stream" /\ chunk'[w] = "data"
        /\ \A v \in Workers \ {w} : job'[v] = job[v] /\ stage'[v] = stage[v] /\ chunk'[v] = chunk[v]
    BY <1>2 DEF Take, Stage, TypeOK, historyVars
  <2>2. \A r \in Streams : job'[w] = r => Tells(w, r)'
    <3> SUFFICES ASSUME NEW r \in Streams, job'[w] = r PROVE Tells(w, r)'
      OBVIOUS
    <3>1. published[r] = <<>> /\ result[r] \notin Statuses
      BY <1>2, CustodyTake DEF Untaken
    <3> QED BY <2>1, <3>1 DEF Tells, Open
  <2>3. \A v \in Workers, r \in Streams : job'[v] = r => Tells(v, r)'
    BY <2>1, <2>2, TellsStays DEF EndsInv
  <2> QED BY <2>1, <2>3, EndsStay DEF EndsInv
<1>3. CASE UNCHANGED vars
  BY <1>3, TellsStays, EndsStay DEF EndsInv, vars, workerVars, historyVars
<1> QED BY <1>1, <1>2, <1>3, EndsWorker DEF Next

LEMMA CustodyInit == Init => Custody
BY StreamAssumption DEF Init, Custody, Early, Queued, Untaken, Statuses

LEMMA EndsInit == Init => EndsInv
BY StreamAssumption DEF Init, EndsInv, EndsAreLast, ResultTellsTheEnd, Statuses

\* A listener is told of one end, and nothing after it but a deadline that
\* passes right behind the "done".
THEOREM EndsComeLast == Spec => []EndsAreLast
<1>1. EndsInv => EndsAreLast
  BY DEF EndsInv
<1> QED BY <1>1, TypeInit, TypeStep, CustodyInit, CustodyStep, EndsInit, EndsStep, PTL DEF Spec

\* The status an agent stores is the one the last chunk told.
THEOREM ResultsTellTheEnd == Spec => []ResultTellsTheEnd
<1>1. EndsInv => ResultTellsTheEnd
  BY DEF EndsInv
<1> QED BY <1>1, TypeInit, TypeStep, CustodyInit, CustodyStep, EndsInit, EndsStep, PTL DEF Spec

-----------------------------------------------------------------------------
(* Late chunks.                                                            *)

\* Before the handler has left there is no key.  After a late chunk, the next
\* one past the check is the cancelled one for as long as there is a key, and a
\* key that has expired is not set again.
LateInv == \A r \in Streams :
  /\ late[r] <= 1
  /\ handler[r] # "closed" => late[r] = 0
  /\ \A w \in Workers : job[w] = r /\ stage[w] = "publish" /\ late[r] = 1 /\ r \in cancel => chunk[w] = "cancelled"

\* Keys are set by handlers, which leave.
LEMMA KeyFrame ==
  ASSUME TypeOK, Next, NEW r \in Streams
  PROVE  /\ handler[r] = "closed" => handler'[r] = "closed"
         /\ r \in cancel' => r \in cancel \/ (handler[r] = "leaving" /\ UNCHANGED workerVars)
<1> USE DEF TypeOK, clientVars, workerVars, historyVars, Move
<1>1. ASSUME NEW s \in Streams, HandlerStep(s) \/ Abandon(s) \/ HangUp(s) \/ CancelExpires(s) \/ Crash(s)
      PROVE  /\ handler[r] = "closed" => handler'[r] = "closed"
             /\ r \in cancel' => r \in cancel \/ (handler[r] = "leaving" /\ UNCHANGED workerVars)
  <2>1. CASE Admit(s) \/ Record(s) \/ Subscribe(s) \/ Push(s) \/ MarkPending(s) \/ Touch(s) \/ Begin(s)
    BY <2>1 DEF Admit, Record, Subscribe, Push, MarkPending, Touch, Begin
  <2>2. CASE Relay(s)
    BY <2>2 DEF Relay
  <2>3. CASE SignalCancel(s) \/ Abandon(s) \/ HangUp(s) \/ CancelExpires(s) \/ Crash(s)
    BY <2>3 DEF SignalCancel, Abandon, HangUp, CancelExpires, Crash
  <2> QED BY <1>1, <2>1, <2>2, <2>3 DEF HandlerStep
<1>2. ASSUME NEW w \in Workers, WorkerStep(w) \/ Generate(w) \/ Drop(w) \/ Stop(w)
      PROVE  handler' = handler /\ cancel' = cancel
  BY <1>2 DEF WorkerStep, Take, Generate, CheckCancel, Send, Exhausted, Deadline, WriteResult, Drop, Stop
<1> QED BY <1>1, <1>2 DEF Next

\* A chunk is late when it goes out past a key.
LEMMA LateFrame ==
  ASSUME TypeOK, Next, NEW r \in Streams, late'[r] # late[r]
  PROVE  /\ r \in cancel /\ late'[r] = late[r] + 1 /\ handler' = handler
         /\ \E w \in Workers : /\ job[w] = r /\ stage[w] = "publish" /\ chunk[w] # "cancelled"
                               /\ stage'[w] # "publish" /\ job' = job
<1>1. ASSUME NEW s \in Streams, HandlerStep(s) \/ Abandon(s) \/ HangUp(s) \/ CancelExpires(s) \/ Crash(s)
      PROVE  late' = late
  BY <1>1, HandlerFrame DEF historyVars
<1>2. ASSUME NEW w \in Workers, WorkerStep(w) \/ Generate(w) \/ Drop(w) \/ Stop(w), ~Send(w)
      PROVE  late' = late
  BY <1>2 DEF WorkerStep, Take, Generate, CheckCancel, Exhausted, Deadline, WriteResult, Drop, Stop, historyVars
<1>3. PICK w \in Workers : Send(w)
  BY <1>1, <1>2 DEF Next, WorkerStep
<1> QED BY <1>3 DEF Send, Stage, TypeOK, clientVars

\* Who has a chunk to publish had it at the check, or has just been there.
LEMMA PublishFrame ==
  ASSUME TypeOK, Next, NEW w \in Workers, NEW r \in Streams, job'[w] = r, stage'[w] = "publish"
  PROVE  job[w] = r /\ \/ stage[w] = "publish" /\ chunk'[w] = chunk[w]
                       \/ late' = late /\ cancel' = cancel /\ (r \in cancel => chunk'[w] = "cancelled")
<1>1. ASSUME NEW s \in Streams, HandlerStep(s) \/ Abandon(s) \/ HangUp(s) \/ CancelExpires(s) \/ Crash(s)
      PROVE  UNCHANGED workerVars
  BY <1>1, HandlerFrame
<1>2. ASSUME NEW v \in Workers, WorkerStep(v) \/ Generate(v) \/ Drop(v) \/ Stop(v), ~CheckCancel(v)
      PROVE  job[w] = r /\ stage[w] = "publish" /\ chunk'[w] = chunk[w]
  <2>1. CASE Take(v)
    BY <2>1 DEF Take, Stage, TypeOK
  <2>2. CASE Generate(v) \/ Exhausted(v) \/ Deadline(v) \/ Send(v)
    BY <2>2 DEF Generate, Exhausted, Deadline, Send, Stage, TypeOK
  <2>3. CASE WriteResult(v) \/ Drop(v) \/ Stop(v)
    BY <2>3, StreamAssumption DEF WriteResult, Drop, Stop, Stage, TypeOK
  <2> QED BY <1>2, <2>1, <2>2, <2>3 DEF WorkerStep
<1>3. ASSUME NEW v \in Workers, CheckCancel(v)
      PROVE  job[w] = r /\ \/ stage[w] = "publish" /\ chunk'[w] = chunk[w]
                           \/ late' = late /\ cancel' = cancel /\ (r \in cancel => chunk'[w] = "cancelled")
  BY <1>3 DEF CheckCancel, Stage, TypeOK, historyVars
<1> QED BY <1>1, <1>2, <1>3 DEF Next, WorkerStep, workerVars

LEMMA LateStep == ASSUME TypeOK, HangUps, Custody, LateInv, [Next]_vars PROVE LateInv'
<1>1. ASSUME Next, NEW r \in Streams
      PROVE  /\ late'[r] <= 1
             /\ handler'[r] # "closed" => late'[r] = 0
             /\ \A w \in Workers : job'[w] = r /\ stage'[w] = "publish" /\ late'[r] = 1 /\ r \in cancel'
                                     => chunk'[w] = "cancelled"
  <2>1. CASE late'[r] # late[r]
    <3>1. PICK w \in Workers : /\ job[w] = r /\ stage[w] = "publish" /\ chunk[w] # "cancelled"
                               /\ stage'[w] # "publish" /\ job' = job
      BY <1>1, <2>1, LateFrame
    <3>2. late[r] = 0 /\ r \in cancel /\ late'[r] = late[r] + 1 /\ handler'[r] = "closed"
      BY <1>1, <2>1, <3>1, LateFrame DEF LateInv, HangUps, TypeOK
    <3>3. \A v \in Workers : job'[v] = r => v = w
      BY <3>1, StreamAssumption DEF Custody
    <3> QED BY <3>1, <3>2, <3>3
  <2>2. CASE late'[r] = late[r]
    <3>1. late'[r] <= 1 /\ (handler'[r] # "closed" => late'[r] = 0)
      BY <1>1, <2>2, KeyFrame DEF LateInv
    <3>2. ASSUME NEW w \in Workers, job'[w] = r, stage'[w] = "publish", late'[r] = 1, r \in cancel'
          PROVE  chunk'[w] = "cancelled"
      <4>1. handler[r] # "leaving"
        <5>1. late[r] # 0
          BY <2>2, <3>2
        <5>2. handler[r] = "closed"
          BY <5>1 DEF LateInv
        <5> QED BY <5>2
      <4>2. r \in cancel
        BY <1>1, <3>2, <4>1, KeyFrame
      <4> QED BY <1>1, <2>2, <3>2, <4>2, PublishFrame DEF LateInv
    <3> QED BY <3>1, <3>2
  <2> QED BY <2>1, <2>2
<1>2. CASE UNCHANGED vars
  BY <1>2 DEF LateInv, vars, clientVars, workerVars, historyVars
<1> QED BY <1>1, <1>2 DEF LateInv

\* Past the moment the cancel key is set, at most one chunk of the backend goes
\* out, however the key's TTL, the chunks and the other agents are timed.
THEOREM CancelStops == Spec => []CancelStopsTheWorker
<1>1. Init => HangUps /\ LateInv
  BY DEF Init, HangUps, LateInv
<1>2. LateInv => CancelStopsTheWorker
  BY DEF LateInv, CancelStopsTheWorker
<1> QED BY <1>1, <1>2, TypeInit, TypeStep, HangUpsStep, CustodyInit, CustodyStep, LateStep, PTL DEF Spec

-----------------------------------------------------------------------------
(* Listening.                                                              *)

\* The handler of /stream listens from before its push to the end.
Listens(r) == /\ handler[r] \in {"idle", "admitted"} => inbox[r] = <<>> /\ relayed[r] = <<>>
              /\ handler[r] \in {"subscribed", "pushed", "marked", "opening", "relaying"}
                   => r \in subscribed /\ relayed[r] \o inbox[r] = published[r]
ListenInv == \A r \in Streams : route[r] = "stream" => Listens(r)

LEMMA HeadPasses ==
  ASSUME NEW S, NEW s \in Seq(S), NEW t \in Seq(S), t # <<>>
  PROVE  Append(s, Head(t)) \o Tail(t) = s \o t
<1>1. Head(t) \in S /\ Tail(t) \in Seq(S) /\ Append(s, Head(t)) \in Seq(S)
  OBVIOUS
<1>2. Len(Append(s, Head(t)) \o Tail(t)) = Len(s \o t)
  BY <1>1
<1>3. ASSUME NEW i \in 1..Len(s \o t) PROVE (Append(s, Head(t)) \o Tail(t))[i] = (s \o t)[i]
  BY <1>1, <1>3
<1>4. s \o t \in Seq(S) /\ Append(s, Head(t)) \o Tail(t) \in Seq(S)
  BY <1>1
<1> QED BY <1>2, <1>3, <1>4

LEMMA AppendPasses ==
  ASSUME NEW s \in Seq(Chunks), NEW t \in Seq(Chunks), NEW e \in Chunks
  PROVE  s \o Append(t, e) = Append(s \o t, e)
<1>1. s \o t \in Seq(Chunks) /\ Append(t, e) \in Seq(Chunks) /\ s \o Append(t, e) \in Seq(Chunks) /\ Append(s \o t, e) \in Seq(Chunks)
  OBVIOUS
<1>2. Len(s \o Append(t, e)) = Len(Append(s \o t, e))
  BY <1>1
<1>3. ASSUME NEW i \in 1..Len(s \o Append(t, e)) PROVE (s \o Append(t, e))[i] = Append(s \o t, e)[i]
  BY <1>1, <1>3
<1> QED BY <1>1, <1>2, <1>3

LEMMA ListenHandler ==
  ASSUME TypeOK, Custody, ListenInv, NEW s \in Streams,
         HandlerStep(s) \/ Abandon(s) \/ HangUp(s) \/ CancelExpires(s) \/ Crash(s)
  PROVE  ListenInv'
<1>1. UNCHANGED <<published, route>>
  BY HandlerFrame DEF historyVars
<1> SUFFICES ASSUME NEW r \in Streams, route[r] = "stream" PROVE Listens(r)'
  BY <1>1 DEF ListenInv
<1>2. Listens(r) /\ inbox[r] \in Seq(Chunks) /\ relayed[r] \in Seq(Chunks) /\ published[r] \in Seq(Chunks)
  BY DEF ListenInv, TypeOK
<1>3. CASE r # s
  <2>1. /\ handler'[r] = handler[r] /\ inbox'[r] = inbox[r] /\ relayed'[r] = relayed[r]
        /\ r \in subscribed => r \in subscribed'
    <3>1. CASE Admit(s) \/ Record(s) \/ Subscribe(s) \/ Push(s) \/ MarkPending(s) \/ Touch(s) \/ Begin(s)
      BY <1>3, <3>1 DEF Admit, Record, Subscribe, Push, MarkPending, Touch, Begin, Move, TypeOK
    <3>2. CASE Relay(s)
      BY <1>3, <3>2 DEF Relay, Unsubscribe, TypeOK
    <3>3. CASE SignalCancel(s) \/ Abandon(s) \/ HangUp(s) \/ CancelExpires(s) \/ Crash(s)
      BY <1>3, <3>3 DEF SignalCancel, Abandon, HangUp, CancelExpires, Crash, Move, Unsubscribe, TypeOK, clientVars
    <3> QED BY <3>1, <3>2, <3>3 DEF HandlerStep
  <2> QED BY <1>1, <1>2, <2>1 DEF Listens
<1>4. CASE r = s
  <2>1. CASE Admit(s) \/ Push(s) \/ MarkPending(s) \/ Touch(s) \/ Begin(s) \/ Record(s)
    <3>1. /\ UNCHANGED <<subscribed, inbox, relayed>>
          /\ handler'[r] \in {"idle", "admitted"} => handler[r] \in {"idle", "admitted"}
          /\ handler'[r] \in {"pushed", "marked", "opening", "relaying"}
               => handler[r] \in {"subscribed", "pushed", "marked", "opening"}
          /\ handler'[r] # "subscribed"
      BY <1>4, <2>1 DEF Admit, Push, MarkPending, Touch, Begin, Record, Move, TypeOK
    <3> QED BY <1>1, <1>2, <3>1 DEF Listens
  <2>2. CASE Subscribe(s)
    <3>1. /\ handler[r] = "admitted" /\ handler'[r] = "subscribed" /\ r \in subscribed' /\ UNCHANGED <<inbox, relayed>>
      BY <1>4, <2>2 DEF Subscribe, Move, TypeOK
    <3>2. published[r] = <<>>
      BY <3>1 DEF Custody, Early, Untaken
    <3>3. relayed[r] \o inbox[r] = <<>>
      BY <1>2, <3>1 DEF Listens
    <3> QED BY <1>1, <3>1, <3>2, <3>3 DEF Listens
  <2>3. CASE Relay(s)
    <3>1. CASE Head(inbox[s]) \in Ends \cup {"error"}
      BY <1>4, <2>3, <3>1 DEF Relay, Listens, TypeOK
    <3>2. CASE Head(inbox[s]) \notin Ends \cup {"error"}
      <4>1. /\ handler[r] = "relaying" /\ inbox[r] # <<>> /\ UNCHANGED <<handler, subscribed>>
            /\ relayed'[r] = Append(relayed[r], Head(inbox[r])) /\ inbox'[r] = Tail(inbox[r])
        BY <1>4, <2>3, <3>2 DEF Relay, TypeOK
      <4>2. relayed'[r] \o inbox'[r] = relayed[r] \o inbox[r]
        BY <1>2, <4>1, HeadPasses
      <4> QED BY <1>1, <1>2, <4>1, <4>2 DEF Listens
    <3> QED BY <3>1, <3>2
  <2>4. CASE Abandon(s) \/ HangUp(s) \/ SignalCancel(s) \/ Crash(s)
    <3>1. handler'[r] \in {"closed", "leaving", "crashed"}
      BY <1>4, <2>4 DEF Abandon, HangUp, SignalCancel, Crash, Move, TypeOK
    <3> QED BY <3>1 DEF Listens
  <2>5. CASE CancelExpires(s)
    BY <1>1, <1>2, <2>5 DEF CancelExpires, Listens, clientVars
  <2> QED BY <2>1, <2>2, <2>3, <2>4, <2>5 DEF HandlerStep
<1> QED BY <1>3, <1>4

LEMMA ListenWorker ==
  ASSUME TypeOK, Custody, ListenInv, NEW w \in Workers, WorkerStep(w) \/ Generate(w) \/ Drop(w) \/ Stop(w)
  PROVE  ListenInv'
<1>1. UNCHANGED clientVars
  BY WorkerFrame DEF Take
<1>2. CASE Send(w) \/ Deadline(w)
  <2>1. PICK c \in Chunks : Publish(job[w], c)
    BY <1>2 DEF Send, Deadline, TypeOK, Chunks, Ends
  <2>2. job[w] \in Streams
    BY <1>2 DEF Send, Deadline, Stage, TypeOK
  <2> SUFFICES ASSUME NEW r \in Streams, route[r] = "stream" PROVE Listens(r)'
    BY <1>1 DEF ListenInv, clientVars
  <2>3. Listens(r) /\ inbox[r] \in Seq(Chunks) /\ relayed[r] \in Seq(Chunks) /\ published[r] \in Seq(Chunks)
    BY DEF ListenInv, TypeOK
  <2>4. CASE r # job[w]
    <3>1. inbox'[r] = inbox[r] /\ published'[r] = published[r]
      BY <2>1, <2>4 DEF Publish, TypeOK
    <3> QED BY <1>1, <2>3, <3>1 DEF Listens, clientVars
  <2>5. CASE r = job[w]
    <3>1. ~Early(r)
      BY <2>5 DEF Custody, Untaken
    <3>2. published'[r] = Append(published[r], c) /\ (r \in subscribed => inbox'[r] = Append(inbox[r], c))
      BY <2>1, <2>5 DEF Publish, TypeOK
    <3>3. relayed[r] \o Append(inbox[r], c) = Append(relayed[r] \o inbox[r], c)
      BY <2>3, AppendPasses
    <3> QED BY <1>1, <2>3, <3>1, <3>2, <3>3 DEF Listens, Early, clientVars
  <2> QED BY <2>4, <2>5
<1>3. CASE ~(Send(w) \/ Deadline(w))
  <2>1. UNCHANGED <<inbox, published>>
    BY <1>3 DEF WorkerStep, Take, Generate, CheckCancel, Exhausted, WriteResult, Drop, Stop, historyVars
  <2> QED BY <1>1, <2>1 DEF ListenInv, Listens, clientVars
<1> QED BY <1>2, <1>3

LEMMA ListenStep == ASSUME TypeOK, Custody, ListenInv, [Next]_vars PROVE ListenInv'
<1>1. CASE UNCHANGED vars
  BY <1>1 DEF ListenInv, Listens, vars, clientVars, historyVars
<1> QED BY <1>1, ListenHandler, ListenWorker DEF Next

\* A /stream client is sent, or has waiting for it, all that was published of
\* its request, in order, as long as it stays.
THEOREM NothingIsMissed == Spec => []StreamMissesNothing
<1>1. Init => ListenInv
  BY DEF Init, ListenInv, Listens
<1>2. ListenInv => StreamMissesNothing
  BY DEF ListenInv, Listens, StreamMissesNothing, Missed
<1> QED BY <1>1, <1>2, TypeInit, TypeStep, CustodyInit, CustodyStep, ListenStep, PTL DEF Spec

=============================================================================
