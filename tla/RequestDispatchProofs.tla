------------------------ MODULE RequestDispatchProofs ------------------------
(***************************************************************************)
(* Proofs about RequestDispatch, for any sets of requests, workers and     *)
(* readers and any cap: its invariants, and that it implements             *)
(* RequestContract.                                                        *)
(***************************************************************************)
EXTENDS RequestDispatch, FiniteSetTheorems, TLAPS

-----------------------------------------------------------------------------
(* The job list.                                                           *)

\* LPUSH adds its element behind the others and disturbs none of them.
LEMMA AppendElements ==
  ASSUME NEW S, NEW q \in Seq(S), NEW e \in S
  PROVE  /\ Append(q, e) \in Seq(S)
         /\ Len(Append(q, e)) = Len(q) + 1
         /\ \A i \in 1..Len(q) : Append(q, e)[i] = q[i]
         /\ Append(q, e)[Len(q) + 1] = e
  OBVIOUS

\* BRPOP removes the first element and shifts the others.
LEMMA TailElements ==
  ASSUME NEW S, NEW q \in Seq(S), q # <<>>
  PROVE  /\ Tail(q) \in Seq(S)
         /\ Len(q) \in Nat /\ Len(q) > 0
         /\ Len(Tail(q)) = Len(q) - 1
         /\ Head(q) = q[1] /\ q[1] \in S
         /\ \A i \in 1..Len(Tail(q)) : Tail(q)[i] = q[i + 1]
  OBVIOUS

-----------------------------------------------------------------------------
(* Types.                                                                  *)

\* Every action keeps every variable in its domain.
LEMMA TypeStep == TypeOK /\ [Next]_vars => TypeOK'
<1> SUFFICES ASSUME TypeOK, [Next]_vars PROVE TypeOK'
  OBVIOUS
<1> USE DEF TypeOK, Stages, Blobs, Rows, Answers, Move, WriteRow,
            gatewayVars, workerVars, rowVars, readerVars
<1>1. CASE UNCHANGED vars
  BY <1>1 DEF vars
<1>2. ASSUME NEW r \in Requests, HandlerStep(r) PROVE TypeOK'
  <2>1. CASE Admit(r)
    <3>1. Cardinality(Window) \in Nat
      BY DispatchAssumption, FS_Subset, FS_CardinalityType DEF Window
    <3> QED BY <2>1, <3>1 DEF Admit
  <2>2. CASE Refuse(r)
    BY <2>2 DEF Refuse
  <2>3. CASE Record(r)
    BY <2>3 DEF Record
  <2>4. CASE Push(r)
    BY <2>4, AppendElements DEF Push
  <2>5. CASE MarkPending(r)
    BY <2>5 DEF MarkPending
  <2>6. CASE Touch(r)
    BY <2>6 DEF Touch
  <2>7. CASE AnswerClient(r)
    BY <2>7 DEF AnswerClient
  <2>8. CASE GiveUp(r)
    BY <2>8 DEF GiveUp
  <2>9. CASE MirrorGiveUp(r)
    BY <2>9 DEF MirrorGiveUp
  <2> QED BY <1>2, <2>1, <2>2, <2>3, <2>4, <2>5, <2>6, <2>7, <2>8, <2>9 DEF HandlerStep
<1>3. ASSUME NEW w \in Workers, WorkerStep(w) PROVE TypeOK'
  <2>1. CASE Take(w)
    BY <2>1, TailElements DEF Take
  <2>2. ASSUME NEW a \in Answers, Finish(w, a) PROVE TypeOK'
    BY <2>2 DEF Finish
  <2> QED BY <1>3, <2>1, <2>2 DEF WorkerStep
<1>4. CASE Fault
  BY <1>4 DEF Fault, Crash, Drop, Stop
<1>5. ASSUME NEW d \in Readers, ReaderStep(d) PROVE TypeOK'
  <2>1. ASSUME NEW r \in Requests, ReadBlob(d, r) PROVE TypeOK'
    BY <2>1 DEF ReadBlob
  <2>2. CASE Mirror(d)
    <3>1. reading[d] \in Requests
      BY <2>2 DEF Mirror
    <3>2. blob[d] \in Rows
      BY <2>2 DEF Mirror
    <3>3. row' \in [Requests -> Rows] /\ stamped' \in SUBSET Requests
      BY <3>1, <3>2, <2>2 DEF Mirror
    <3>4. /\ reading' \in [Readers -> Requests \cup {None}]
          /\ blob' \in [Readers -> Blobs]
          /\ \A e \in Readers : reading'[e] # None => blob'[e] # "none"
      BY <2>2 DEF Mirror
    <3> QED BY <3>3, <3>4, <2>2 DEF Mirror
  <2> QED BY <1>5, <2>1, <2>2 DEF ReaderStep, ListBlob
<1>6. ASSUME NEW r \in Requests, Expire(r) PROVE TypeOK'
  BY <1>6 DEF Expire
<1> HIDE DEF TypeOK, Stages, Blobs, Rows, Answers, Move, WriteRow,
             gatewayVars, workerVars, rowVars, readerVars
<1> QED BY <1>1, <1>2, <1>3, <1>4, <1>5, <1>6 DEF Next

\* TypeOK holds in every reachable state.
THEOREM TypeCorrect == Spec => []TypeOK
<1>1. Init => TypeOK
  BY DEF Init, TypeOK, Stages, Blobs, Rows, Answers
<1> QED BY <1>1, TypeStep, PTL DEF Spec

-----------------------------------------------------------------------------
(* How the actions change who has a job.                                   *)

\* Steps that touch neither the list nor a worker's hand leave custody alone.
LEMMA CustodyUnchanged ==
  ASSUME UNCHANGED <<queue, job>>
  PROVE  \A r \in Requests : (InQueue(r)' <=> InQueue(r)) /\ (Held(r)' <=> Held(r))
  BY DEF InQueue, Held

\* LPUSH puts one more request in the list.
LEMMA PushCustody ==
  ASSUME TypeOK, NEW r \in Requests, queue' = Append(queue, r)
  PROVE  \A x \in Requests : InQueue(x)' <=> InQueue(x) \/ x = r
<1>1. /\ Len(queue) \in Nat
      /\ Len(queue') = Len(queue) + 1
      /\ \A i \in 1..Len(queue) : queue'[i] = queue[i]
      /\ queue'[Len(queue) + 1] = r
  BY AppendElements DEF TypeOK
<1>2. 1..Len(queue') = 1..Len(queue) \cup {Len(queue) + 1}
  BY <1>1
<1> QED BY <1>1, <1>2 DEF InQueue

\* BRPOP moves the oldest request, and only it, from the list to the worker.
LEMMA TakeCustody ==
  ASSUME TypeOK, SingleCustody, NEW w \in Workers, Take(w)
  PROVE  /\ Head(queue) \in Requests
         /\ InQueue(Head(queue))
         /\ \A x \in Requests :
              /\ InQueue(x)' <=> InQueue(x) /\ x # Head(queue)
              /\ Held(x)' <=> Held(x) \/ x = Head(queue)
         /\ \A i, j \in 1..Len(queue') : queue'[i] = queue'[j] => i = j
<1> DEFINE h == Head(queue)
<1>1. /\ queue # <<>> /\ queue' = Tail(queue)
      /\ job[w] = None /\ job' = [job EXCEPT ![w] = h]
  BY DEF Take
<1>2. /\ Len(queue) \in Nat /\ Len(queue) > 0
      /\ Len(queue') = Len(queue) - 1
      /\ h = queue[1] /\ h \in Requests
      /\ \A i \in 1..Len(queue') : queue'[i] = queue[i + 1]
  BY <1>1, TailElements DEF TypeOK
<1>3. \A i \in 1..Len(queue') : i + 1 \in 1..Len(queue) /\ i + 1 # 1
  BY <1>2
<1>4. \A i \in 1..Len(queue) : i # 1 => i - 1 \in 1..Len(queue') /\ (i - 1) + 1 = i
  BY <1>2
<1>5. 1 \in 1..Len(queue)
  BY <1>2
<1>6. ASSUME NEW x \in Requests PROVE InQueue(x)' <=> InQueue(x) /\ x # h
  <2>1. ASSUME NEW i \in 1..Len(queue'), queue'[i] = x PROVE InQueue(x) /\ x # h
    BY <2>1, <1>2, <1>3, <1>5 DEF SingleCustody, InQueue
  <2>2. ASSUME NEW i \in 1..Len(queue), queue[i] = x, x # h
        PROVE \E k \in 1..Len(queue') : queue'[k] = x
    <3>1. i # 1
      BY <2>2, <1>2
    <3>2. i - 1 \in 1..Len(queue') /\ queue'[i - 1] = x
      BY <2>2, <3>1, <1>2, <1>4
    <3> QED BY <3>2
  <2> QED BY <2>1, <2>2 DEF InQueue
<1>7. ASSUME NEW x \in Requests PROVE Held(x)' <=> Held(x) \/ x = h
  BY <1>1, <1>2, DispatchAssumption DEF Held, TypeOK
<1>8. ASSUME NEW i \in 1..Len(queue'), NEW j \in 1..Len(queue'), queue'[i] = queue'[j]
      PROVE i = j
  <2>1. i + 1 = j + 1
    BY <1>8, <1>2, <1>3 DEF SingleCustody
  <2> QED BY <2>1, <1>2
<1>9. InQueue(h)
  BY <1>2, <1>5 DEF InQueue
<1> QED BY <1>2, <1>6, <1>7, <1>8, <1>9

\* A worker that lets go of its job (done, dropped or dead) frees that job
\* from every hand.
LEMMA ReleaseCustody ==
  ASSUME TypeOK, SingleCustody, NEW w \in Workers, job[w] # None,
         job' = [job EXCEPT ![w] = None]
  PROVE  /\ job[w] \in Requests
         /\ Held(job[w])
         /\ \A x \in Requests : Held(x)' <=> Held(x) /\ x # job[w]
  BY DispatchAssumption DEF TypeOK, SingleCustody, Held

-----------------------------------------------------------------------------
(* The safety invariants, which only together are inductive: an answer is  *)
(* the worker's because the job was in one place when it was answered, and *)
(* it was in one place because its handler had not touched the queue       *)
(* before it pushed.                                                       *)

DispatchInv ==
  /\ SingleCustody
  /\ NothingVanishes
  /\ AnswersAreTheWorkers
  /\ RowsAreComplete
  /\ HandlersAndJobsAgree

\* A handler step that leaves jobs, answers and losses alone.
LEMMA QuietHandlerStep ==
  ASSUME TypeOK, DispatchInv, NEW r \in Requests,
         \/ Admit(r) \/ Refuse(r) \/ Record(r) \/ MarkPending(r) \/ Touch(r)
         \/ AnswerClient(r) \/ GiveUp(r) \/ MirrorGiveUp(r) \/ Crash(r)
  PROVE  DispatchInv'
<1>1. UNCHANGED <<queue, job, served, lost, reading, blob>>
  BY DEF Admit, Refuse, Record, MarkPending, Touch, AnswerClient, GiveUp,
         MirrorGiveUp, Crash, workerVars, readerVars
<1>2. \A x \in Requests : (InQueue(x)' <=> InQueue(x)) /\ (Held(x)' <=> Held(x))
  BY <1>1, CustodyUnchanged
<1>3. SingleCustody'
  BY <1>1, <1>2 DEF DispatchInv, SingleCustody
<1>4. \A x \in Requests : Untouched(x)' <=> Untouched(x)
  BY <1>1, <1>2 DEF Untouched
<1> USE DEF TypeOK, Move, Stages, Blobs, Rows, Answers, WriteRow
<1>5. NothingVanishes'
  <2>1. Pushed' \subseteq Pushed /\ Pushed \subseteq Requests
    BY DEF DispatchInv, HandlersAndJobsAgree, Admit, Refuse, Record, MarkPending, Touch,
           AnswerClient, GiveUp, MirrorGiveUp, Crash, Pushed, gatewayVars
  <2> QED BY <1>1, <1>2, <2>1 DEF DispatchInv, NothingVanishes
<1>6. AnswersAreTheWorkers'
  BY <1>1 DEF DispatchInv, AnswersAreTheWorkers, Admit, Refuse, Record, MarkPending,
     Touch, AnswerClient, GiveUp, MirrorGiveUp, Crash, gatewayVars, rowVars
<1>7. RowsAreComplete'
  BY <1>1, <1>2 DEF DispatchInv, RowsAreComplete, Admit, Refuse, Record, MarkPending,
     Touch, AnswerClient, GiveUp, MirrorGiveUp, Crash, gatewayVars, rowVars
<1>8. HandlersAndJobsAgree'
  BY <1>1, <1>4 DEF DispatchInv, HandlersAndJobsAgree, Admit, Refuse, Record,
     MarkPending, Touch, AnswerClient, GiveUp, MirrorGiveUp, Crash, gatewayVars, rowVars
<1> QED BY <1>3, <1>5, <1>6, <1>7, <1>8 DEF DispatchInv

\* LPUSH: a request that had left no trace enters the list.
LEMMA PushStep ==
  ASSUME TypeOK, DispatchInv, NEW r \in Requests, Push(r)
  PROVE  DispatchInv'
<1>1. /\ handler[r] = "recorded"
      /\ handler' = [handler EXCEPT ![r] = "pushed"]
      /\ queue' = Append(queue, r)
      /\ UNCHANGED <<route, reply, burst, workerVars, result, rowVars, readerVars>>
  BY DEF Push, Move
<1>2. UNCHANGED <<job, served, lost, result, row, stamped, reading, blob, reply>>
  BY <1>1 DEF workerVars, rowVars, readerVars
<1>3. \A x \in Requests : InQueue(x)' <=> InQueue(x) \/ x = r
  BY <1>1, PushCustody
<1>4. \A x \in Requests : Held(x)' <=> Held(x)
  BY <1>2 DEF Held
<1>5. Untouched(r) /\ reply[r] # "busy" /\ row[r] # "absent"
  BY <1>1 DEF DispatchInv, HandlersAndJobsAgree
<1>6. \A i, j \in 1..Len(queue') : queue'[i] = queue'[j] => i = j
  <2>1. /\ Len(queue) \in Nat
        /\ Len(queue') = Len(queue) + 1
        /\ \A i \in 1..Len(queue) : queue'[i] = queue[i]
        /\ queue'[Len(queue) + 1] = r
    BY <1>1, AppendElements DEF TypeOK
  <2>2. \A i \in 1..Len(queue) : queue[i] # r
    BY <1>5 DEF Untouched, InQueue
  <2>3. \A i \in 1..Len(queue') : i \in 1..Len(queue) \/ i = Len(queue) + 1
    BY <2>1
  <2> QED BY <2>1, <2>2, <2>3 DEF DispatchInv, SingleCustody
<1>7. SingleCustody'
  BY <1>2, <1>3, <1>4, <1>5, <1>6 DEF DispatchInv, SingleCustody, Untouched
<1>8. NothingVanishes'
  BY <1>1, <1>2, <1>3, <1>4 DEF DispatchInv, NothingVanishes, Pushed, TypeOK
<1>9. AnswersAreTheWorkers'
  BY <1>2 DEF DispatchInv, AnswersAreTheWorkers
<1>10. RowsAreComplete'
  BY <1>2, <1>3, <1>4, <1>5 DEF DispatchInv, RowsAreComplete
<1>11. HandlersAndJobsAgree'
  BY <1>1, <1>2, <1>3, <1>4, <1>5 DEF DispatchInv, HandlersAndJobsAgree, Untouched, TypeOK
<1> QED BY <1>7, <1>8, <1>9, <1>10, <1>11 DEF DispatchInv

\* BRPOP: the oldest request passes from the list to the worker.
LEMMA TakeStep ==
  ASSUME TypeOK, DispatchInv, NEW w \in Workers, Take(w)
  PROVE  DispatchInv'
<1> DEFINE h == Head(queue)
<1>1. /\ job[w] = None /\ job' = [job EXCEPT ![w] = h]
      /\ UNCHANGED <<handler, reply, served, lost, result, row, stamped, reading, blob>>
  BY DEF Take, gatewayVars, rowVars, readerVars
<1>2. /\ h \in Requests /\ InQueue(h)
      /\ \A x \in Requests :
           /\ InQueue(x)' <=> InQueue(x) /\ x # h
           /\ Held(x)' <=> Held(x) \/ x = h
      /\ \A i, j \in 1..Len(queue') : queue'[i] = queue'[j] => i = j
  BY TakeCustody DEF DispatchInv
<1>3. \A x \in Requests : (InQueue(x) \/ Held(x))' <=> (InQueue(x) \/ Held(x))
  BY <1>2
<1>4. \A u, v \in Workers : job'[u] = job'[v] /\ job'[u] # None => u = v
  <2>1. ~Held(h)
    BY <1>2 DEF DispatchInv, SingleCustody
  <2> QED BY <1>1, <2>1 DEF DispatchInv, SingleCustody, Held, TypeOK
<1>5. SingleCustody'
  BY <1>1, <1>2, <1>4 DEF DispatchInv, SingleCustody
<1>6. NothingVanishes'
  BY <1>1, <1>3 DEF DispatchInv, NothingVanishes, Pushed
<1>7. AnswersAreTheWorkers' /\ RowsAreComplete'
  BY <1>1, <1>3 DEF DispatchInv, AnswersAreTheWorkers, RowsAreComplete
<1>8. HandlersAndJobsAgree'
  BY <1>1, <1>3 DEF DispatchInv, HandlersAndJobsAgree, Untouched
<1> QED BY <1>5, <1>6, <1>7, <1>8 DEF DispatchInv

\* A worker answers its job: nobody can have shown an answer to it before.
LEMMA FinishStep ==
  ASSUME TypeOK, DispatchInv, NEW w \in Workers, NEW a \in Answers, Finish(w, a)
  PROVE  DispatchInv'
<1> DEFINE r == job[w]
<1>1. /\ job[w] # None /\ job' = [job EXCEPT ![w] = None]
      /\ result' = [result EXCEPT ![r] = a]
      /\ served' = [served EXCEPT ![r] = a]
      /\ UNCHANGED <<handler, reply, queue, lost, row, stamped, reading, blob>>
  BY DEF Finish, gatewayVars, rowVars, readerVars
<1>2. /\ r \in Requests /\ Held(r)
      /\ \A x \in Requests : Held(x)' <=> Held(x) /\ x # r
  BY <1>1, ReleaseCustody DEF DispatchInv
<1>3. \A x \in Requests : InQueue(x)' <=> InQueue(x)
  BY <1>1 DEF InQueue
<1>4. ~InQueue(r) /\ served[r] = "none" /\ r \notin lost /\ row[r] # "absent"
  BY <1>2 DEF DispatchInv, SingleCustody, RowsAreComplete
<1>5. /\ a # "none" /\ served'[r] = a /\ result'[r] = a
      /\ \A x \in Requests : x # r => served'[x] = served[x] /\ result'[x] = result[x]
  BY <1>1, <1>2 DEF TypeOK, Answers
<1>6. SingleCustody'
  <2>1. \A u, v \in Workers : job'[u] = job'[v] /\ job'[u] # None => u = v
    BY <1>1 DEF DispatchInv, SingleCustody, TypeOK
  <2> QED BY <1>1, <1>2, <1>3, <1>4, <1>5, <2>1 DEF DispatchInv, SingleCustody
<1>7. NothingVanishes'
  BY <1>1, <1>2, <1>3, <1>5 DEF DispatchInv, NothingVanishes, Pushed
<1>8. AnswersAreTheWorkers'
  BY <1>1, <1>4, <1>5 DEF DispatchInv, AnswersAreTheWorkers, TypeOK, Answers
<1>9. RowsAreComplete'
  BY <1>1, <1>2, <1>3, <1>4, <1>5 DEF DispatchInv, RowsAreComplete
<1>10. HandlersAndJobsAgree'
  BY <1>1, <1>2, <1>3, <1>5 DEF DispatchInv, HandlersAndJobsAgree, Untouched
<1> QED BY <1>6, <1>7, <1>8, <1>9, <1>10 DEF DispatchInv

\* A worker loses its job, or stops with or without one.
LEMMA LossStep ==
  ASSUME TypeOK, DispatchInv, NEW w \in Workers, Drop(w) \/ Stop(w)
  PROVE  DispatchInv'
<1>1. /\ job' = [job EXCEPT ![w] = None]
      /\ lost' = lost \cup ({job[w]} \ {None})
      /\ UNCHANGED <<handler, reply, queue, served, result, row, stamped, reading, blob>>
  BY DEF Drop, Stop, gatewayVars, rowVars, readerVars
<1>2. \A x \in Requests : InQueue(x)' <=> InQueue(x)
  BY <1>1 DEF InQueue
<1>3. CASE job[w] = None
  <2>1. job' = job /\ lost' = lost
    BY <1>1, <1>3 DEF TypeOK
  <2>2. \A x \in Requests : Held(x)' <=> Held(x)
    BY <2>1 DEF Held
  <2> QED BY <1>1, <1>2, <2>1, <2>2 DEF DispatchInv, SingleCustody, NothingVanishes,
          AnswersAreTheWorkers, RowsAreComplete, HandlersAndJobsAgree, Untouched, Pushed
<1>4. CASE job[w] # None
  <2> DEFINE r == job[w]
  <2>1. /\ r \in Requests /\ Held(r) /\ lost' = lost \cup {r}
        /\ \A x \in Requests : Held(x)' <=> Held(x) /\ x # r
    BY <1>1, <1>4, ReleaseCustody DEF DispatchInv
  <2>2. ~InQueue(r) /\ served[r] = "none"
    BY <2>1 DEF DispatchInv, SingleCustody
  <2>3. SingleCustody'
    <3>1. \A u, v \in Workers : job'[u] = job'[v] /\ job'[u] # None => u = v
      BY <1>1 DEF DispatchInv, SingleCustody, TypeOK
    <3> QED BY <1>1, <1>2, <2>1, <2>2, <3>1 DEF DispatchInv, SingleCustody
  <2>4. NothingVanishes'
    BY <1>1, <1>2, <2>1 DEF DispatchInv, NothingVanishes, Pushed
  <2>5. AnswersAreTheWorkers' /\ RowsAreComplete'
    BY <1>1, <1>2, <2>1 DEF DispatchInv, AnswersAreTheWorkers, RowsAreComplete
  <2>6. HandlersAndJobsAgree'
    BY <1>1, <1>2, <2>1 DEF DispatchInv, HandlersAndJobsAgree, Untouched
  <2> QED BY <2>3, <2>4, <2>5, <2>6 DEF DispatchInv
<1> QED BY <1>3, <1>4

\* Readers and the TTL: they move answers about, they invent none.
LEMMA ReaderAndTtlStep ==
  ASSUME TypeOK, DispatchInv,
         (\E d \in Readers : ReaderStep(d)) \/ (\E r \in Requests : Expire(r))
  PROVE  DispatchInv'
<1>1. UNCHANGED <<handler, reply, queue, job, served, lost>>
  BY DEF ReaderStep, ReadBlob, ListBlob, Mirror, Expire, gatewayVars, workerVars
<1>2. \A x \in Requests : (InQueue(x)' <=> InQueue(x)) /\ (Held(x)' <=> Held(x))
  BY <1>1, CustodyUnchanged
<1>3. SingleCustody' /\ NothingVanishes'
  BY <1>1, <1>2 DEF DispatchInv, SingleCustody, NothingVanishes, Pushed
<1>4. \A x \in Requests : Untouched(x)' <=> Untouched(x)
  BY <1>1, <1>2 DEF Untouched
<1> SUFFICES AnswersAreTheWorkers' /\ RowsAreComplete' /\ HandlersAndJobsAgree'
  BY <1>3 DEF DispatchInv
<1>5. ASSUME NEW d \in Readers, NEW r \in Requests, ReadBlob(d, r)
      PROVE  AnswersAreTheWorkers' /\ RowsAreComplete' /\ HandlersAndJobsAgree'
  <2>1. /\ reading' = [reading EXCEPT ![d] = r]
        /\ blob' = [blob EXCEPT ![d] = result[r]]
        /\ UNCHANGED <<result, row, stamped>>
        /\ row[r] # "absent"
    BY <1>5 DEF ReadBlob, rowVars
  <2> QED BY <1>1, <1>2, <1>4, <2>1 DEF DispatchInv, AnswersAreTheWorkers, RowsAreComplete,
          HandlersAndJobsAgree, TypeOK
<1>6. ASSUME NEW d \in Readers, Mirror(d)
      PROVE  AnswersAreTheWorkers' /\ RowsAreComplete' /\ HandlersAndJobsAgree'
  <2> DEFINE r == reading[d]
  <2>1. /\ r \in Requests /\ r # None
        /\ reading' = [reading EXCEPT ![d] = None]
        /\ blob' = [blob EXCEPT ![d] = "none"]
        /\ result' = result
        /\ blob[d] \in {"pending"} \cup Answers
        /\ blob[d] \in Answers => blob[d] = served[r]
    BY <1>6 DEF Mirror, TypeOK, Blobs, DispatchInv, AnswersAreTheWorkers
  <2>2. /\ row' = [row EXCEPT ![r] = blob[d]]
        /\ stamped \subseteq stamped'
        /\ blob[d] \in Answers => r \in stamped'
    <3>1. CASE row[r] = blob[d]
      BY <1>6, <2>1, <3>1 DEF Mirror, rowVars, TypeOK, DispatchInv, RowsAreComplete
    <3>2. CASE row[r] # blob[d]
      BY <1>6, <2>1, <3>2 DEF Mirror, WriteRow, Answers
    <3> QED BY <3>1, <3>2
  <2>3. AnswersAreTheWorkers'
    BY <1>1, <2>1, <2>2 DEF DispatchInv, AnswersAreTheWorkers, TypeOK, Answers
  <2>4. RowsAreComplete'
    BY <1>1, <1>2, <2>1, <2>2 DEF DispatchInv, RowsAreComplete, TypeOK, Answers
  <2>5. HandlersAndJobsAgree'
    BY <1>1, <1>4, <2>1, <2>2 DEF DispatchInv, HandlersAndJobsAgree, TypeOK, Answers
  <2> QED BY <2>3, <2>4, <2>5
<1>7. ASSUME NEW r \in Requests, Expire(r)
      PROVE  AnswersAreTheWorkers' /\ RowsAreComplete' /\ HandlersAndJobsAgree'
  <2>1. /\ result' = [result EXCEPT ![r] = "none"]
        /\ UNCHANGED <<row, stamped, reading, blob>>
    BY <1>7 DEF Expire, rowVars, readerVars
  <2> QED BY <1>1, <1>2, <1>4, <2>1 DEF DispatchInv, AnswersAreTheWorkers, RowsAreComplete,
          HandlersAndJobsAgree, TypeOK, Answers
<1> QED BY <1>5, <1>6, <1>7 DEF ReaderStep, ListBlob

\* Every step preserves the invariant.
LEMMA InvStep == TypeOK /\ DispatchInv /\ [Next]_vars => DispatchInv'
<1> SUFFICES ASSUME TypeOK, DispatchInv, [Next]_vars PROVE DispatchInv'
  OBVIOUS
<1>1. CASE UNCHANGED vars
  <2>1. UNCHANGED <<handler, reply, queue, job, served, lost, result, row, stamped,
                    reading, blob>>
    BY <1>1 DEF vars, gatewayVars, workerVars, rowVars, readerVars
  <2> QED BY <2>1 DEF DispatchInv, SingleCustody, NothingVanishes, AnswersAreTheWorkers,
          RowsAreComplete, HandlersAndJobsAgree, Untouched, Pushed, InQueue, Held
<1>2. ASSUME NEW r \in Requests, HandlerStep(r) PROVE DispatchInv'
  BY <1>2, QuietHandlerStep, PushStep DEF HandlerStep
<1>3. ASSUME NEW w \in Workers, WorkerStep(w) PROVE DispatchInv'
  BY <1>3, TakeStep, FinishStep DEF WorkerStep
<1>4. CASE Fault
  BY <1>4, QuietHandlerStep, LossStep DEF Fault
<1>5. CASE (\E d \in Readers : ReaderStep(d)) \/ (\E r \in Requests : Expire(r))
  BY <1>5, ReaderAndTtlStep
<1> QED BY <1>1, <1>2, <1>3, <1>4, <1>5 DEF Next

\* The invariant holds in every reachable state.
LEMMA Inductive == Spec => [](TypeOK /\ DispatchInv)
<1>1. Init => TypeOK /\ DispatchInv
  <2>1. Init => TypeOK
    BY DEF Init, TypeOK, Stages, Blobs, Rows, Answers
  <2>2. Init => DispatchInv
    <3> SUFFICES ASSUME Init PROVE DispatchInv
      OBVIOUS
    <3>1. \A r \in Requests : ~InQueue(r) /\ ~Held(r)
      BY DispatchAssumption DEF Init, InQueue, Held
    <3>2. SingleCustody /\ HandlersAndJobsAgree
      BY <3>1 DEF Init, SingleCustody, HandlersAndJobsAgree, Untouched
    <3>3. NothingVanishes /\ AnswersAreTheWorkers /\ RowsAreComplete
      BY <3>1 DEF Init, NothingVanishes, AnswersAreTheWorkers, RowsAreComplete, Pushed, Answers
    <3> QED BY <3>2, <3>3 DEF DispatchInv
  <2> QED BY <2>1, <2>2
<1>2. TypeOK /\ DispatchInv /\ [Next]_vars => (TypeOK /\ DispatchInv)'
  BY TypeStep, InvStep
<1> QED BY <1>1, <1>2, PTL DEF Spec

\* No job is ever in two places, nor run again once answered or dropped.
THEOREM Custody == Spec => []SingleCustody
<1>1. DispatchInv => SingleCustody
  BY DEF DispatchInv
<1> QED BY <1>1, Inductive, PTL

\* A pushed job is waiting, running, answered or known to be dropped.
THEOREM Conservation == Spec => []NothingVanishes
<1>1. DispatchInv => NothingVanishes
  BY DEF DispatchInv
<1> QED BY <1>1, Inductive, PTL

\* Redis, the table, readers and clients only ever show a worker's answer.
THEOREM TruthfulAnswers == Spec => []AnswersAreTheWorkers
<1>1. DispatchInv => AnswersAreTheWorkers
  BY DEF DispatchInv
<1> QED BY <1>1, Inductive, PTL

\* Terminal rows are stamped, and no job outruns the commit of its row.
THEOREM CompleteRows == Spec => []RowsAreComplete
<1>1. DispatchInv => RowsAreComplete
  BY DEF DispatchInv
<1> QED BY <1>1, Inductive, PTL

\* Where a handler stands and where its job is agree.
THEOREM Agreement == Spec => []HandlersAndJobsAgree
<1>1. DispatchInv => HandlersAndJobsAgree
  BY DEF DispatchInv
<1> QED BY <1>1, Inductive, PTL

-----------------------------------------------------------------------------
(* The overshoot of the cap.                                               *)

\* Whatever only moves handlers out of the window, and puts nothing on the
\* list, keeps the bound.
LEMMA WindowShrinks ==
  ASSUME TypeOK, OvershootIsTheBurst, burst' = burst,
         Window' \subseteq Window, Len(queue') \in Nat, Len(queue') <= Len(queue)
  PROVE  OvershootIsTheBurst'
<1>1. IsFiniteSet(Window) /\ Cardinality(Window) \in Nat
  BY DispatchAssumption, FS_Subset, FS_CardinalityType DEF Window
<1>2. Cardinality(Window') \in Nat /\ Cardinality(Window') <= Cardinality(Window)
  BY <1>1, FS_Subset, FS_CardinalityType
<1>3. Len(queue) \in Nat /\ burst \in Nat /\ Cap \in Nat /\ Cap' = Cap
  BY DispatchAssumption DEF TypeOK, Cap
<1> QED BY <1>1, <1>2, <1>3 DEF OvershootIsTheBurst

\* LLEN is the moment the bound is made: the list is below the cap then, and
\* burst covers the handlers that have not pushed yet.
LEMMA OvershootStep == TypeOK /\ OvershootIsTheBurst /\ [Next]_vars => OvershootIsTheBurst'
<1> SUFFICES ASSUME TypeOK, OvershootIsTheBurst, [Next]_vars PROVE OvershootIsTheBurst'
  OBVIOUS
<1>0. /\ IsFiniteSet(Window) /\ Cardinality(Window) \in Nat
      /\ Len(queue) \in Nat /\ burst \in Nat /\ Cap \in Nat /\ Cap' = Cap
  BY DispatchAssumption, FS_Subset, FS_CardinalityType DEF Window, TypeOK, Cap
<1>1. ASSUME NEW r \in Requests, Admit(r) PROVE OvershootIsTheBurst'
  <2>1. /\ handler[r] = "idle" /\ handler' = [handler EXCEPT ![r] = "admitted"]
        /\ Len(queue) < Cap /\ queue' = queue
        /\ burst' = IF Cardinality(Window) < burst THEN burst ELSE Cardinality(Window) + 1
    BY <1>1 DEF Admit, Move
  <2>2. r \notin Window /\ Window' = Window \cup {r}
    BY <2>1 DEF Window, TypeOK
  <2>3. Cardinality(Window') = Cardinality(Window) + 1
    BY <1>0, <2>2, FS_AddElement
  <2> QED BY <1>0, <2>1, <2>3 DEF OvershootIsTheBurst
<1>2. ASSUME NEW r \in Requests, Push(r) PROVE OvershootIsTheBurst'
  <2>1. /\ handler[r] = "recorded" /\ handler' = [handler EXCEPT ![r] = "pushed"]
        /\ queue' = Append(queue, r) /\ burst' = burst
    BY <1>2 DEF Push, Move
  <2>2. r \in Window /\ Window' = Window \ {r}
    BY <2>1 DEF Window, TypeOK
  <2>3. Cardinality(Window') = Cardinality(Window) - 1
    BY <1>0, <2>2, FS_RemoveElement
  <2>4. Len(queue') = Len(queue) + 1
    BY <2>1, AppendElements DEF TypeOK
  <2> QED BY <1>0, <2>1, <2>3, <2>4 DEF OvershootIsTheBurst
<1>3. ASSUME NEW r \in Requests,
             \/ Refuse(r) \/ Record(r) \/ MarkPending(r) \/ Touch(r)
             \/ AnswerClient(r) \/ GiveUp(r) \/ MirrorGiveUp(r) \/ Crash(r)
      PROVE  OvershootIsTheBurst'
  <2>1. queue' = queue /\ burst' = burst
    BY <1>3 DEF Refuse, Record, MarkPending, Touch, AnswerClient, GiveUp, MirrorGiveUp, Crash
  <2>2. Window' \subseteq Window
    BY <1>3 DEF Refuse, Record, MarkPending, Touch, AnswerClient, GiveUp, MirrorGiveUp,
       Crash, Move, Window, TypeOK, gatewayVars
  <2> QED BY <1>0, <2>1, <2>2, WindowShrinks
<1>4. ASSUME NEW w \in Workers, Take(w) PROVE OvershootIsTheBurst'
  <2>1. queue # <<>> /\ queue' = Tail(queue) /\ UNCHANGED <<handler, burst>>
    BY <1>4 DEF Take, gatewayVars
  <2>2. Len(queue') \in Nat /\ Len(queue') <= Len(queue)
    BY <1>0, <2>1, TailElements DEF TypeOK
  <2>3. Window' = Window
    BY <2>1 DEF Window
  <2> QED BY <2>1, <2>2, <2>3, WindowShrinks
<1>5. CASE UNCHANGED <<handler, queue, burst>>
  <2>1. Window' = Window
    BY <1>5 DEF Window
  <2> QED BY <1>0, <1>5, <2>1, WindowShrinks
<1>6. CASE UNCHANGED vars
  BY <1>5, <1>6 DEF vars, gatewayVars
<1>7. ASSUME NEW w \in Workers,
             (\E a \in Answers : Finish(w, a)) \/ Drop(w) \/ Stop(w)
      PROVE  OvershootIsTheBurst'
  BY <1>5, <1>7 DEF Finish, Drop, Stop, gatewayVars
<1>8. CASE (\E d \in Readers : ReaderStep(d)) \/ (\E r \in Requests : Expire(r))
  BY <1>5, <1>8 DEF ReaderStep, ReadBlob, ListBlob, Mirror, Expire, gatewayVars
<1> QED BY <1>1, <1>2, <1>3, <1>4, <1>6, <1>7, <1>8
        DEF Next, HandlerStep, WorkerStep, Fault

\* However many handlers race between LLEN and LPUSH, the list exceeds the cap
\* by less than the most that ever did so at once.
THEOREM Overshoot == Spec => []OvershootIsTheBurst
<1>1. Init => TypeOK
  BY DEF Init, TypeOK, Stages, Blobs, Rows, Answers
<1>2. Init => OvershootIsTheBurst
  BY DEF Init, OvershootIsTheBurst
<1> QED BY <1>1, <1>2, TypeStep, OvershootStep, PTL DEF Spec

-----------------------------------------------------------------------------
(* The stability of stored answers.                                        *)

\* A step that changes a stored answer: only the handler that pushed the job,
\* the one worker that holds it, and the TTL write the key; and who holds a job
\* has not answered it.
LEMMA StableStep ==
  ASSUME TypeOK, DispatchInv, [Next]_vars, NEW r \in Requests,
         result[r] \in Answers, handler[r] # "pushed", result'[r] # result[r]
  PROVE  result'[r] = "none" /\ handler[r] \in {"closed", "crashed"}
<1>1. CASE UNCHANGED result
  BY <1>1
<1>2. ASSUME NEW x \in Requests, MarkPending(x) PROVE FALSE
  BY <1>2 DEF MarkPending, Move, TypeOK
<1>3. ASSUME NEW w \in Workers, NEW a \in Answers, Finish(w, a) PROVE FALSE
  <2>1. job[w] # None /\ result' = [result EXCEPT ![job[w]] = a]
    BY <1>3 DEF Finish
  <2>2. job[w] = r
    BY <2>1 DEF TypeOK
  <2>3. served[r] = "none"
    BY <2>2 DEF Held, DispatchInv, SingleCustody
  <2>4. result[r] = served[r]
    BY DEF DispatchInv, AnswersAreTheWorkers
  <2> QED BY <2>3, <2>4 DEF Answers
<1>4. ASSUME NEW x \in Requests, Expire(x)
      PROVE  result'[r] = "none" /\ handler[r] \in {"closed", "crashed"}
  BY <1>4 DEF Expire, TypeOK
<1>5. ASSUME NEW x \in Requests, HandlerStep(x), ~MarkPending(x) PROVE UNCHANGED result
  BY <1>5 DEF HandlerStep, Admit, Refuse, Record, Push, Touch, AnswerClient, GiveUp, MirrorGiveUp
<1>6. ASSUME NEW w \in Workers, Take(w) PROVE UNCHANGED result
  BY <1>6 DEF Take
<1>7. ASSUME Fault PROVE UNCHANGED result
  BY <1>7 DEF Fault, Crash, Drop, Stop
<1>8. ASSUME NEW d \in Readers, ReaderStep(d) PROVE UNCHANGED result
  BY <1>8 DEF ReaderStep, ReadBlob, ListBlob, Mirror
<1>9. CASE UNCHANGED vars
  BY <1>1, <1>9 DEF vars
<1> QED BY <1>1, <1>2, <1>3, <1>4, <1>5, <1>6, <1>7, <1>8, <1>9 DEF Next, WorkerStep

\* Once its handler has marked a request, what a worker stored stays until its
\* TTL: no second worker, no late handler and no reader replaces it.
THEOREM MarkedAnswersStay == Spec => MarkedAnswerIsStable
<1>1. TypeOK /\ DispatchInv /\ [Next]_vars
        => [\A r \in Requests :
              result[r] \in Answers /\ handler[r] # "pushed" /\ result'[r] # result[r]
                => result'[r] = "none" /\ handler[r] \in {"closed", "crashed"}]_vars
  BY StableStep
<1> QED BY <1>1, Inductive, PTL DEF Spec, MarkedAnswerIsStable

-----------------------------------------------------------------------------
(* Refinement: the dispatch path implements RequestContract.               *)

\* The fate of a request depends only on custody, answers, losses and replies.
LEMMA FateUnchanged ==
  ASSUME NEW r \in Requests,
         (InQueue(r) \/ Held(r))' <=> (InQueue(r) \/ Held(r)),
         served'[r] = served[r], (r \in lost)' <=> (r \in lost),
         reply'[r] = reply[r]
  PROVE  Fate(r)' = Fate(r)
  BY DEF Fate

\* If only one request's fate changes, the abstract state changes there.
LEMMA FateChange ==
  ASSUME NEW r \in Requests, \A x \in Requests \ {r} : Fate(x)' = Fate(x)
  PROVE  [x \in Requests |-> Fate(x)]' = [[x \in Requests |-> Fate(x)] EXCEPT ![r] = Fate(r)']
  OBVIOUS

\* A handler that says something keeps every fate: it tells the client.
LEMMA TellStep ==
  ASSUME TypeOK, DispatchInv, NEW r \in Requests,
         NEW said \in {"id", "gave_up"} \cup Answers,
         handler[r] \in {"marked", "polling", "giving_up"},
         said \in Answers => said = served[r],
         reply' = [reply EXCEPT ![r] = said],
         UNCHANGED <<queue, job, served, lost>>
  PROVE  Contract!Next
<1>1. reply[r] = "none"
  BY DEF DispatchInv, HandlersAndJobsAgree
<1>2. r \in Pushed
  BY <1>1 DEF Pushed
<1>3. Fate(r) \in {"open", "answered", "lost"}
  BY <1>2 DEF DispatchInv, NothingVanishes, Fate
<1>4. said \in Answers => Fate(r) = "answered"
  BY DEF Fate, Answers
<1>5. \A x \in Requests : (InQueue(x)' <=> InQueue(x)) /\ (Held(x)' <=> Held(x))
  BY CustodyUnchanged
<1>6. said # "busy"
  BY DEF Answers
<1>7. \A x \in Requests : Fate(x)' = Fate(x)
  <2>1. Fate(r)' = Fate(r)
    BY <1>3, <1>5, <1>6 DEF Fate, TypeOK
  <2>2. ASSUME NEW x \in Requests, x # r PROVE Fate(x)' = Fate(x)
    <3>1. reply'[x] = reply[x]
      BY <2>2 DEF TypeOK
    <3> QED BY <1>5, <3>1, FateUnchanged
  <2> QED BY <2>1, <2>2
<1>8. Contract!Tell(r, said)
  BY <1>1, <1>3, <1>4, <1>7 DEF Contract!Tell, Contract!Answers, Answers
<1> QED BY <1>8 DEF Contract!Next, Contract!Answers, Answers

\* Steps that change no fate and no reply stutter.
LEMMA StutterStep ==
  ASSUME UNCHANGED <<served, lost, reply>>,
         \A x \in Requests : (InQueue(x) \/ Held(x))' <=> (InQueue(x) \/ Held(x))
  PROVE  UNCHANGED Contract!vars
<1>1. \A x \in Requests : Fate(x)' = Fate(x)
  BY FateUnchanged
<1> QED BY <1>1 DEF Contract!vars

\* Every step is a step of the contract, or none.
LEMMA ContractStep ==
  TypeOK /\ DispatchInv /\ [Next]_vars => [Contract!Next]_(Contract!vars)
<1> SUFFICES ASSUME TypeOK, DispatchInv, [Next]_vars
             PROVE  Contract!Next \/ UNCHANGED Contract!vars
  OBVIOUS
<1>1. CASE UNCHANGED <<queue, job, served, lost, reply>>
  BY <1>1, CustodyUnchanged, StutterStep
<1>2. ASSUME NEW r \in Requests, HandlerStep(r)
      PROVE  Contract!Next \/ UNCHANGED Contract!vars
  <2>1. CASE Admit(r) \/ Record(r) \/ MarkPending(r) \/ GiveUp(r)
    BY <1>1, <2>1 DEF Admit, Record, MarkPending, GiveUp, workerVars
  <2>2. CASE Refuse(r)
    <3>1. /\ handler[r] = "idle" /\ reply' = [reply EXCEPT ![r] = "busy"]
          /\ UNCHANGED <<queue, job, served, lost>>
      BY <2>2 DEF Refuse, Move, workerVars
    <3>2. Untouched(r) /\ reply[r] = "none"
      BY <3>1 DEF DispatchInv, HandlersAndJobsAgree
    <3>3. \A x \in Requests : (InQueue(x)' <=> InQueue(x)) /\ (Held(x)' <=> Held(x))
      BY <3>1, CustodyUnchanged
    <3>4. Fate(r) = "new" /\ Fate(r)' = "refused"
      BY <3>1, <3>2, <3>3 DEF Untouched, Fate, TypeOK
    <3>5. ASSUME NEW x \in Requests \ {r} PROVE Fate(x)' = Fate(x)
      <4>1. reply'[x] = reply[x]
        BY <3>1 DEF TypeOK
      <4> QED BY <3>1, <3>3, <4>1, FateUnchanged
    <3>6. Contract!Refuse(r)
      BY <3>1, <3>2, <3>4, <3>5, FateChange DEF Contract!Refuse, Contract!Become
    <3> QED BY <3>6 DEF Contract!Next
  <2>3. CASE Push(r)
    <3>1. /\ handler[r] = "recorded" /\ queue' = Append(queue, r)
          /\ UNCHANGED <<reply, job, served, lost>>
      BY <2>3 DEF Push, Move, workerVars
    <3>2. Untouched(r) /\ reply[r] = "none"
      BY <3>1 DEF DispatchInv, HandlersAndJobsAgree
    <3>3. \A x \in Requests : (InQueue(x)' <=> InQueue(x) \/ x = r) /\ (Held(x)' <=> Held(x))
      BY <3>1, PushCustody DEF Held
    <3>4. Fate(r) = "new" /\ Fate(r)' = "open"
      BY <3>1, <3>2, <3>3 DEF Untouched, Fate
    <3>5. \A x \in Requests \ {r} : Fate(x)' = Fate(x)
      BY <3>1, <3>3, FateUnchanged
    <3>6. Contract!Open(r)
      BY <3>1, <3>4, <3>5, FateChange DEF Contract!Open, Contract!Become
    <3> QED BY <3>6 DEF Contract!Next
  <2>4. CASE Touch(r)
    <3>1. CASE route[r] = "run"
      BY <2>4, <3>1, TellStep DEF Touch, Move, workerVars, Answers
    <3>2. CASE route[r] # "run"
      BY <1>1, <2>4, <3>2 DEF Touch, workerVars
    <3> QED BY <3>1, <3>2
  <2>5. CASE AnswerClient(r)
    <3>1. result[r] \in Answers /\ result[r] = served[r]
      BY <2>5 DEF AnswerClient, DispatchInv, AnswersAreTheWorkers
    <3> QED BY <2>5, <3>1, TellStep DEF AnswerClient, Move, workerVars
  <2>6. CASE MirrorGiveUp(r)
    BY <2>6, TellStep DEF MirrorGiveUp, Move, workerVars, Answers
  <2> QED BY <1>2, <2>1, <2>2, <2>3, <2>4, <2>5, <2>6 DEF HandlerStep
<1>3. ASSUME NEW w \in Workers, Take(w)
      PROVE  Contract!Next \/ UNCHANGED Contract!vars
  <2>1. \A x \in Requests : (InQueue(x) \/ Held(x))' <=> (InQueue(x) \/ Held(x))
    BY <1>3, TakeCustody DEF DispatchInv
  <2>2. UNCHANGED <<served, lost, reply>>
    BY <1>3 DEF Take, gatewayVars
  <2> QED BY <2>1, <2>2, StutterStep
<1>4. ASSUME NEW w \in Workers, NEW a \in Answers, Finish(w, a) PROVE Contract!Next
  <2>0. PICK r \in Requests : r = job[w]
    BY <1>4 DEF Finish, TypeOK
  <2>1. /\ job[w] # None /\ job' = [job EXCEPT ![w] = None]
        /\ served' = [served EXCEPT ![r] = a]
        /\ UNCHANGED <<reply, queue, lost>>
    BY <1>4, <2>0 DEF Finish, gatewayVars
  <2>2. /\ Held(r)
        /\ \A x \in Requests : Held(x)' <=> Held(x) /\ x # r
    BY <2>0, <2>1, ReleaseCustody DEF DispatchInv
  <2>3. \A x \in Requests : InQueue(x)' <=> InQueue(x)
    BY <2>1 DEF InQueue
  <2>4. served[r] = "none" /\ r \notin lost
    BY <2>2 DEF DispatchInv, SingleCustody
  <2>5. Fate(r) = "open" /\ Fate(r)' = "answered"
    BY <2>1, <2>2, <2>4 DEF Fate, TypeOK, Answers
  <2>6. ASSUME NEW x \in Requests \ {r} PROVE Fate(x)' = Fate(x)
    <3>1. served'[x] = served[x]
      BY <2>1 DEF TypeOK
    <3> QED BY <2>1, <2>2, <2>3, <3>1, FateUnchanged
  <2>7. Contract!Answer(r, a)
    BY <2>1, <2>2, <2>5, <2>6, FateChange DEF Contract!Answer, Contract!Become
  <2> QED BY <2>2, <2>7 DEF Contract!Next, Contract!Answers, Answers
<1>5. ASSUME NEW w \in Workers, Drop(w) \/ Stop(w)
      PROVE  Contract!Next \/ UNCHANGED Contract!vars
  <2>1. /\ job' = [job EXCEPT ![w] = None]
        /\ lost' = lost \cup ({job[w]} \ {None})
        /\ UNCHANGED <<reply, queue, served>>
    BY <1>5 DEF Drop, Stop, gatewayVars
  <2>2. CASE job[w] = None
    BY <1>1, <2>1, <2>2 DEF TypeOK
  <2>3. CASE job[w] # None
    <3>0. PICK r \in Requests : r = job[w]
      BY <2>3 DEF TypeOK
    <3>1. lost' = lost \cup {r}
      BY <3>0, <2>1, <2>3
    <3>2. /\ Held(r)
          /\ \A x \in Requests : Held(x)' <=> Held(x) /\ x # r
      BY <3>0, <2>1, <2>3, ReleaseCustody DEF DispatchInv
    <3>3. \A x \in Requests : InQueue(x)' <=> InQueue(x)
      BY <2>1 DEF InQueue
    <3>4. served[r] = "none" /\ r \notin lost
      BY <3>2 DEF DispatchInv, SingleCustody
    <3>5. Fate(r) = "open" /\ Fate(r)' = "lost"
      BY <2>1, <3>1, <3>2, <3>4 DEF Fate
    <3>6. \A x \in Requests \ {r} : Fate(x)' = Fate(x)
      BY <2>1, <3>1, <3>2, <3>3, FateUnchanged
    <3>7. Contract!Lose(r)
      BY <2>1, <3>1, <3>2, <3>5, <3>6, FateChange DEF Contract!Lose, Contract!Become
    <3> QED BY <3>1, <3>2, <3>7 DEF Contract!Next
  <2> QED BY <2>2, <2>3
<1>6. CASE \E r \in Requests : Crash(r)
  BY <1>1, <1>6 DEF Crash, workerVars
<1>7. CASE (\E d \in Readers : ReaderStep(d)) \/ (\E r \in Requests : Expire(r))
  BY <1>1, <1>7 DEF ReaderStep, ReadBlob, ListBlob, Mirror, Expire, gatewayVars, workerVars
<1>8. CASE UNCHANGED vars
  BY <1>1, <1>8 DEF vars, gatewayVars, workerVars
<1> QED BY <1>2, <1>3, <1>4, <1>5, <1>6, <1>7, <1>8 DEF Next, WorkerStep, Fault

\* The handlers, queue and workers of an app implement the request contract.
THEOREM Refinement == Spec => ImplementsContract
<1>1. Init => Contract!Init
  <2> SUFFICES ASSUME Init PROVE Contract!Init
    OBVIOUS
  <2>1. \A r \in Requests : ~InQueue(r) /\ ~Held(r)
    BY DispatchAssumption DEF Init, InQueue, Held
  <2>2. \A r \in Requests : Fate(r) = "new"
    BY <2>1 DEF Init, Fate
  <2> QED BY <2>2 DEF Init, Contract!Init
<1> QED BY <1>1, Inductive, ContractStep, PTL DEF Spec, ImplementsContract, Contract!Spec

=============================================================================
