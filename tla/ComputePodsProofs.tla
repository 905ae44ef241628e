-------------------------- MODULE ComputePodsProofs --------------------------
(***************************************************************************)
(* Proofs about ComputePods, for any sets of rows, pods, tasks and calls,  *)
(* any number of restarts and any faults.                                  *)
(***************************************************************************)
EXTENDS ComputePods, FiniteSetTheorems, TLAPS

-----------------------------------------------------------------------------
(* Types.                                                                  *)

\* What a task may become keeps its type.
LEMMA TaskSteps ==
  ASSUME TypeOK, NEW t \in Tasks, TaskStep(t) \/ PollTimesOut(t)
  PROVE  TasksOK'
<1>1. task \in [Tasks -> TaskRecords]
  BY DEF TypeOK, TasksOK
<1>2. \A u \in Tasks : IF task[u].at = "none" THEN task[u] = NoTask ELSE task[u].row # None
  BY DEF TypeOK, TasksOK
<1>3. /\ NoTask \in TaskRecords /\ NoTask.at = "none"
      /\ 1 \in 0..Attempts /\ Attempts \in 0..Attempts
  BY ComputeAssumption DEF NoTask, TaskRecords
<1>4. ASSUME NEW x \in TaskRecords, task' = [task EXCEPT ![t] = x],
             x = NoTask \/ (x.at # "none" /\ x.row # None)
      PROVE  TasksOK'
  <2>1. task' \in [Tasks -> TaskRecords]
    BY <1>1, <1>4
  <2>2. ASSUME NEW u \in Tasks PROVE IF task[u]'.at = "none" THEN task[u]' = NoTask ELSE task[u]'.row # None
    <3>1. CASE u = t
      BY <1>1, <1>3, <1>4, <3>1
    <3>2. CASE u # t
      BY <1>1, <1>2, <1>4, <3>2
    <3> QED BY <3>1, <3>2
  <2> QED BY <2>1, <2>2 DEF TasksOK
<1>5. CASE End(t)
  BY <1>3, <1>4, <1>5 DEF End
<1>6. task[t].at # "none" => task[t].row \in Rows
  BY <1>1, <1>2 DEF TaskRecords
<1>7. ASSUME NEW s \in {"load", "post", "save", "poll", "get", "look", "run", "mark"},
             NEW n \in {"poll", "get", "look", "run", "mark", "fail"}, Go(t, s, n)
      PROVE  TasksOK'
  <2> DEFINE x == [task[t] EXCEPT !.at = n]
  <2>1. x \in TaskRecords /\ x.at # "none" /\ x.row # None
    BY <1>1, <1>2, <1>6, <1>7 DEF Go, TaskRecords
  <2> QED BY <1>4, <1>7, <2>1 DEF Go
<1>8. CASE Load(t)
  <2>1. upid[task[t].row] \in Pods \cup {None}
    BY <1>6, <1>8 DEF Load, Go, TypeOK, RowsOK
  <2>2. CASE task' = [task EXCEPT ![t].at = "poll", ![t].pod = upid[task[t].row]]
    <3> DEFINE x == [task[t] EXCEPT !.at = "poll", !.pod = upid[task[t].row]]
    <3>1. x \in TaskRecords /\ x.at # "none" /\ x.row # None
      BY <1>1, <1>2, <1>8, <2>1 DEF Load, Go, TaskRecords
    <3>2. task' = [task EXCEPT ![t] = x]
      BY <2>2, <1>1 DEF TaskRecords
    <3> QED BY <1>4, <3>1, <3>2
  <2>3. CASE task' = [task EXCEPT ![t].at = "post",
                                  ![t].left = IF task[t].row \in Primes THEN Attempts ELSE 1]
    <3> DEFINE x == [task[t] EXCEPT !.at = "post",
                                    !.left = IF task[t].row \in Primes THEN Attempts ELSE 1]
    <3>1. x \in TaskRecords /\ x.at # "none" /\ x.row # None
      BY <1>1, <1>2, <1>3, <1>8 DEF Load, Go, TaskRecords
    <3>2. task' = [task EXCEPT ![t] = x]
      BY <2>3, <1>1 DEF TaskRecords
    <3> QED BY <1>4, <3>1, <3>2
  <2> QED BY <1>7, <1>8, <2>2, <2>3 DEF Load
<1>9. CASE Post(t)
  <2>1. ASSUME NEW p \in Pods, task[t].at = "post", task' = [task EXCEPT ![t].at = "save", ![t].pod = p]
        PROVE  TasksOK'
    <3> DEFINE x == [task[t] EXCEPT !.at = "save", !.pod = p]
    <3>1. x \in TaskRecords /\ x.at # "none" /\ x.row # None
      BY <1>1, <1>2, <2>1 DEF TaskRecords
    <3>2. task' = [task EXCEPT ![t] = x]
      BY <2>1, <1>1 DEF TaskRecords
    <3> QED BY <1>4, <3>1, <3>2
  <2>2. ASSUME task[t].at = "post", task[t].left > 1, task' = [task EXCEPT ![t].left = @ - 1]
        PROVE  TasksOK'
    <3> DEFINE x == [task[t] EXCEPT !.left = @ - 1]
    <3>1. x \in TaskRecords /\ x.at # "none" /\ x.row # None
      BY ComputeAssumption, <1>1, <1>2, <2>2 DEF TaskRecords
    <3> QED BY <1>4, <2>2, <3>1
  <2> QED BY <1>7, <1>9, <2>1, <2>2 DEF Post, NextCandidate
<1>10. CASE Look(t)
  <2>1. ASSUME task[t].at = "look",
               task' = [task EXCEPT ![t].at = "run", ![t].same = status[task[t].row] = "running"]
        PROVE  TasksOK'
    <3> DEFINE x == [task[t] EXCEPT !.at = "run", !.same = status[task[t].row] = "running"]
    <3>1. x \in TaskRecords /\ x.at # "none" /\ x.row # None
      BY <1>1, <1>2, <2>1 DEF TaskRecords
    <3>2. task' = [task EXCEPT ![t] = x]
      BY <2>1, <1>1 DEF TaskRecords
    <3> QED BY <1>4, <3>1, <3>2
  <2> QED BY <1>5, <1>10, <2>1 DEF Look
<1> QED BY <1>5, <1>7, <1>8, <1>9, <1>10
        DEF TaskStep, Save, Poll, PollTimesOut, Get, SetRunning, MarkFailed, SetFailed

\* A task changes at most a status, an upstream id, the cloud and the count of
\* pods made.
LEMMA TaskEffects ==
  ASSUME TypeOK, NEW t \in Tasks, TaskStep(t) \/ PollTimesOut(t), excused' \subseteq Pods
  PROVE  CallsOK' /\ RowsOK' /\ CloudOK' /\ BootOK' /\ CountsOK'
<1>1. task[t].row \in Rows \cup {None} /\ task[t].pod \in Pods \cup {None}
  BY DEF TypeOK, TasksOK, TaskRecords
<1> USE <1>1 DEF TypeOK, CallsOK, RowsOK, CloudOK, BootOK, CountsOK, Statuses, rowVars
<1>2. CASE Load(t)
  BY <1>2 DEF Load, Go
<1>3. CASE Post(t)
  <2>1. UNCHANGED <<rowVars, call, deletes, boot, restarts, grants>>
    BY <1>3 DEF Post
  <2>2. cloud' = cloud \/ \E p \in Pods : cloud' = [cloud EXCEPT ![p] = task[t].row]
    BY <1>3 DEF Post, Rent
  <2>3. made' = made \/ made' = [made EXCEPT ![task[t].row] = @ + 1]
    BY <1>3 DEF Post
  <2> QED BY <2>1, <2>2, <2>3
<1>4. CASE Save(t)
  BY <1>4 DEF Save, Go
<1>5. CASE Poll(t)
  BY <1>5 DEF Poll, Go, End
<1>6. CASE PollTimesOut(t)
  BY <1>6 DEF PollTimesOut, Go
<1>7. CASE Get(t)
  BY <1>7 DEF Get, Go
<1>8. CASE Look(t)
  BY <1>8 DEF Look, End
<1>9. CASE SetRunning(t)
  BY <1>9 DEF SetRunning, End, SetStatus
<1>10. CASE MarkFailed(t)
  BY <1>10 DEF MarkFailed, Go, End
<1>11. CASE SetFailed(t)
  BY <1>11 DEF SetFailed, End, SetStatus
<1> QED BY <1>2, <1>3, <1>4, <1>5, <1>6, <1>7, <1>8, <1>9, <1>10, <1>11 DEF TaskStep

\* A new task is a task.
LEMMA SpawnOK == ASSUME TypeOK, NEW t \in Tasks, NEW r \in Rows, Spawn(t, r) PROVE TasksOK'
  BY ComputeAssumption DEF TypeOK, TasksOK, TaskRecords, NoTask, Spawn

\* The handlers keep every type.
LEMMA HandlerSteps ==
  ASSUME TypeOK, excused' \subseteq Pods,
         \/ \E r \in Rows : CreateCompute(r) \/ \E c \in Calls : ReadRow(c, r)
         \/ \E c \in Calls : CallStep(c)
  PROVE  TypeOK'
<1>1. ASSUME NEW r \in Rows, CreateCompute(r) PROVE TypeOK'
  <2>1. TasksOK' /\ CountsOK'
    <3>1. CASE UNCHANGED <<task, grants>>
      BY <3>1, <1>1 DEF CreateCompute, TypeOK, TasksOK, CountsOK
    <3>2. ASSUME NEW t \in Tasks, Grant(t, r) PROVE TasksOK' /\ CountsOK'
      BY <3>2, <1>1, SpawnOK DEF CreateCompute, Grant, TypeOK, CountsOK
    <3> QED BY <1>1, <3>1, <3>2 DEF CreateCompute
  <2>2. RowsOK'
    BY <1>1 DEF CreateCompute, SetStatus, TypeOK, RowsOK, Statuses
  <2> QED BY <1>1, <2>1, <2>2 DEF CreateCompute, TypeOK, CallsOK, CloudOK, BootOK
<1>2. ASSUME NEW r \in Rows, NEW c \in Calls, ReadRow(c, r) PROVE TypeOK'
  <2>1. CallsOK'
    BY ComputeAssumption, <1>2 DEF ReadRow, TypeOK, CallsOK, CallRecords, RowsOK
  <2> QED BY <1>2, <2>1 DEF ReadRow, TypeOK, TasksOK, RowsOK, CloudOK, BootOK, CountsOK, rowVars
<1>3. ASSUME NEW c \in Calls, CallStep(c) PROVE TypeOK'
  <2>1. CallsOK'
    <3>1. CASE call' = [call EXCEPT ![c] = NoCall]
      <4>1. call' \in [Calls -> CallRecords]
        BY <3>1 DEF TypeOK, CallsOK, CallRecords, NoCall
      <4>2. ASSUME NEW d \in Calls PROVE IF call[d]'.at = "none" THEN call[d]' = NoCall ELSE call[d]'.row # None
        BY <3>1 DEF TypeOK, CallsOK, NoCall
      <4> QED BY <4>1, <4>2 DEF CallsOK
    <3>2. CASE MarkTerminated(c)
      <4>1. call' = [call EXCEPT ![c].at = "release"] /\ call[c].at = "commit"
        BY <3>2 DEF MarkTerminated, Commits
      <4>2. call' \in [Calls -> CallRecords]
        BY <4>1 DEF TypeOK, CallsOK, CallRecords
      <4>3. ASSUME NEW d \in Calls PROVE IF call[d]'.at = "none" THEN call[d]' = NoCall ELSE call[d]'.row # None
        BY <4>1 DEF TypeOK, CallsOK, CallRecords
      <4> QED BY <4>2, <4>3 DEF CallsOK
    <3> QED BY <1>3, <3>1, <3>2 DEF CallStep, Approve, Reject, Release, Answers
  <2>2. call[c].row \in Rows \cup {None} /\ call[c].pod \in Pods \cup {None}
    BY DEF TypeOK, CallsOK, CallRecords
  <2>3. RowsOK'
    BY <1>3, <2>2 DEF CallStep, Approve, Reject, MarkTerminated, Release, SetStatus, TypeOK, RowsOK,
                      Statuses, rowVars
  <2>4. CloudOK' /\ BootOK'
    BY <1>3, <2>2 DEF CallStep, Approve, Reject, MarkTerminated, Release, TypeOK, CloudOK, BootOK
  <2>5. TasksOK' /\ CountsOK'
    <3>1. CASE Approve(c)
      <4>1. PICK t \in Tasks : Grant(t, call[c].row)
        BY <3>1 DEF Approve
      <4>2. call[c].row \in Rows
        BY <2>2, <3>1 DEF Approve, Commits, TypeOK, CallsOK
      <4> QED BY <3>1, <4>1, <4>2, SpawnOK DEF Grant, Approve, TypeOK, CountsOK
    <3>2. CASE UNCHANGED <<task, grants, made>>
      BY <3>2 DEF TypeOK, TasksOK, CountsOK
    <3> QED BY <1>3, <3>1, <3>2 DEF CallStep, Reject, MarkTerminated, Release
  <2> QED BY <2>1, <2>3, <2>4, <2>5 DEF TypeOK
<1> QED BY <1>1, <1>2, <1>3

\* So do the delete tasks and the gateways that come and go.
LEMMA OtherSteps ==
  ASSUME TypeOK, excused' \subseteq Pods,
         (\E p \in Pods : DeleteUpstream(p)) \/ Crash \/ StartReplica \/ ListOrphans \/ FailOthers
  PROVE  TypeOK'
<1>1. ASSUME NEW p \in Pods, DeleteUpstream(p) PROVE TypeOK'
  BY <1>1 DEF DeleteUpstream, TypeOK, TasksOK, CallsOK, RowsOK, CloudOK, BootOK, CountsOK, rowVars
<1>2. CASE Crash
  <2>1. NoTask \in TaskRecords /\ NoCall \in CallRecords
    BY ComputeAssumption DEF NoTask, NoCall, TaskRecords, CallRecords
  <2>2. task' = [t \in Tasks |-> NoTask] /\ call' = [c \in Calls |-> NoCall]
    BY <1>2 DEF Crash
  <2>3. TasksOK' /\ CallsOK'
    BY <2>1, <2>2 DEF TasksOK, CallsOK, NoTask, NoCall
  <2>4. BootOK'
    <3>1. boot' \in [at : {"up", "list", "fail"}, alone : BOOLEAN, rows : SUBSET Rows]
      BY <1>2 DEF Crash, Up
    <3>2. restarts' \in 0..MaxRestarts
      BY ComputeAssumption, <1>2 DEF Crash, TypeOK, BootOK
    <3> QED BY <3>1, <3>2 DEF BootOK
  <2> QED BY <1>2, <2>3, <2>4 DEF Crash, TypeOK, RowsOK, CloudOK, CountsOK, rowVars
<1>3. CASE StartReplica
  <2>1. BootOK'
    <3>1. boot' \in [at : {"up", "list", "fail"}, alone : BOOLEAN, rows : SUBSET Rows]
      BY <1>3 DEF StartReplica, Up
    <3>2. restarts' \in 0..MaxRestarts
      BY ComputeAssumption, <1>3 DEF StartReplica, TypeOK, BootOK
    <3> QED BY <3>1, <3>2 DEF BootOK
  <2> QED BY <1>3, <2>1 DEF StartReplica, TypeOK, TasksOK, CallsOK, RowsOK, CloudOK, CountsOK, rowVars
<1>4. CASE ListOrphans
  <2>1. TasksOK'
    <3>1. PICK f \in [Orphans(TRUE) -> {t \in Tasks : task[t] = NoTask}] : ResumeWith(f)
      BY <1>4 DEF ListOrphans
    <3> DEFINE Resumed(r) == [at |-> "load", row |-> r, pod |-> None, left |-> 0, same |-> FALSE]
    <3>2. ASSUME NEW r \in Rows
          PROVE  Resumed(r) \in TaskRecords /\ Resumed(r).at # "none" /\ Resumed(r).row # None
      BY ComputeAssumption DEF TaskRecords
    <3>3. ASSUME NEW t \in Tasks
          PROVE  task[t]' = task[t] \/ \E r \in Rows : task[t]' = Resumed(r)
      <4>1. CASE \E r \in DOMAIN f : f[r] = t
        <5> DEFINE r == CHOOSE r \in DOMAIN f : f[r] = t
        <5>1. r \in Rows
          BY <4>1, <3>1 DEF Orphans
        <5>2. task[t]' = [NoTask EXCEPT !.at = "load", !.row = r]
          BY <3>1, <4>1 DEF ResumeWith
        <5>3. task[t]' = Resumed(r)
          BY <5>2 DEF NoTask
        <5> QED BY <5>1, <5>3
      <4>2. CASE ~\E r \in DOMAIN f : f[r] = t
        BY <3>1, <4>2 DEF ResumeWith
      <4> QED BY <4>1, <4>2
    <3>4. ASSUME NEW t \in Tasks
          PROVE  /\ task[t]' \in TaskRecords
                 /\ IF task[t]'.at = "none" THEN task[t]' = NoTask ELSE task[t]'.row # None
      <4>1. CASE task[t]' = task[t]
        BY <4>1 DEF TypeOK, TasksOK
      <4>2. CASE \E r \in Rows : task[t]' = Resumed(r)
        BY <4>2, <3>2
      <4> QED BY <3>3, <4>1, <4>2
    <3>5. DOMAIN task' = Tasks /\ task' = [t \in Tasks |-> task'[t]]
      BY <3>1 DEF ResumeWith
    <3>6. task' \in [Tasks -> TaskRecords]
      BY <3>4, <3>5
    <3> QED BY <3>4, <3>6 DEF TasksOK
  <2>2. BootOK'
    <3>1. boot' \in [at : {"up", "list", "fail"}, alone : BOOLEAN, rows : SUBSET Rows]
      <4>1. CASE boot' = Up
        BY <4>1 DEF Up
      <4>2. CASE boot' = [boot EXCEPT !.at = "fail", !.rows = Orphans(FALSE)]
        <5>1. Orphans(FALSE) \in SUBSET Rows
          BY DEF Orphans
        <5> QED BY <4>2, <5>1 DEF TypeOK, BootOK
      <4> QED BY <1>4, <4>1, <4>2 DEF ListOrphans
    <3> QED BY <1>4, <3>1 DEF ListOrphans, TypeOK, BootOK
  <2> QED BY <1>4, <2>1, <2>2 DEF ListOrphans, TypeOK, CallsOK, RowsOK, CloudOK, CountsOK, rowVars
<1>5. CASE FailOthers
  <2>1. RowsOK'
    BY <1>5 DEF FailOthers, TypeOK, RowsOK, Statuses
  <2>2. BootOK'
    <3>1. boot' \in [at : {"up", "list", "fail"}, alone : BOOLEAN, rows : SUBSET Rows]
      BY <1>5 DEF FailOthers, Up
    <3> QED BY <1>5, <3>1 DEF FailOthers, TypeOK, BootOK
  <2> QED BY <1>5, <2>1, <2>2 DEF FailOthers, TypeOK, TasksOK, CallsOK, CloudOK, CountsOK
<1> QED BY <1>1, <1>2, <1>3, <1>4, <1>5

\* Every action keeps every variable in its domain.
LEMMA TypeStep == TypeOK /\ [Next]_vars => TypeOK'
<1> SUFFICES ASSUME TypeOK, [Next]_vars PROVE TypeOK'
  OBVIOUS
<1>1. CASE UNCHANGED vars
  BY <1>1 DEF vars, rowVars, TypeOK, TasksOK, CallsOK, RowsOK, CloudOK, BootOK, CountsOK
<1>2. CASE Next
  <2>1. excused' \subseteq Pods
    BY <1>2 DEF Next, Watch
  <2> QED BY <1>2, <2>1, TaskSteps, TaskEffects, HandlerSteps, OtherSteps DEF Next, Step, TypeOK
<1> QED BY <1>1, <1>2

\* TypeOK holds in every reachable state.
THEOREM TypeCorrect == Spec => []TypeOK
<1>1. Init => TypeOK
  BY ComputeAssumption DEF Init, TypeOK, TasksOK, CallsOK, RowsOK, CloudOK, BootOK, CountsOK,
       TaskRecords, CallRecords, Statuses, NoTask, NoCall, Up
<1> QED BY <1>1, TypeStep, PTL DEF Spec

-----------------------------------------------------------------------------
(* Rows that are creating are attended.                                    *)

\* A task that has read "running" ends without settling the row: it does not count.
Attended(r) ==
  \/ \E t \in Tasks : task[t].row = r /\ ~(task[t].at = "run" /\ task[t].same)
  \/ boot.at = "list" \/ r \in boot.rows

AttendedInv == \A r \in Rows : status[r] = "creating" => Attended(r)

\* A task lets go of a row only once the row is settled.
LEMMA TaskAttends ==
  ASSUME TypeOK, AttendedInv, NEW t \in Tasks, TaskStep(t) \/ PollTimesOut(t)
  PROVE  AttendedInv'
<1> USE DEF TypeOK
<1>1. task \in [Tasks -> TaskRecords] /\ status \in [Rows -> Statuses]
  BY DEF TasksOK, RowsOK
<1>2. UNCHANGED boot
  BY DEF TaskStep, Load, Post, Save, Poll, PollTimesOut, Get, Look, SetRunning, MarkFailed, SetFailed
<1>3. \A r \in Rows : status[r]' = "creating" => status[r] = "creating"
  BY <1>1 DEF TaskStep, Load, Post, Save, Poll, PollTimesOut, Get, Look, SetRunning, MarkFailed, SetFailed,
              SetStatus, rowVars
<1>4. \A u \in Tasks \ {t} : task[u]' = task[u]
  BY <1>1 DEF TaskStep, Load, Post, Save, Poll, PollTimesOut, Get, Look, SetRunning, MarkFailed, SetFailed,
              NextCandidate, Go, End
<1>5. ASSUME NEW r \in Rows, task[t].row = r, status[r]' = "creating",
             ~(task[t].at = "run" /\ task[t].same)
      PROVE  task[t]'.row = r /\ ~(task[t]'.at = "run" /\ task[t]'.same)
  <2> USE <1>1, <1>5 DEF TaskRecords
  <2>1. CASE Load(t)
    BY <2>1 DEF Load, Go
  <2>2. CASE Post(t)
    BY <2>2 DEF Post, NextCandidate, Go
  <2>3. CASE Save(t) \/ PollTimesOut(t) \/ Get(t)
    BY <2>3 DEF Save, PollTimesOut, Get, Go
  <2>4. CASE Poll(t)
    BY <2>4, <1>3 DEF Poll, Go, End
  <2>5. CASE Look(t)
    BY <2>5, <1>3 DEF Look
  <2>6. CASE SetRunning(t)
    BY <2>6 DEF SetRunning, SetStatus
  <2>7. CASE MarkFailed(t)
    BY <2>7, <1>3 DEF MarkFailed, Go
  <2>8. CASE SetFailed(t)
    BY <2>8 DEF SetFailed, SetStatus
  <2> QED BY <2>1, <2>2, <2>3, <2>4, <2>5, <2>6, <2>7, <2>8 DEF TaskStep
<1>6. ASSUME NEW r \in Rows, status[r]' = "creating" PROVE Attended(r)'
  <2>1. Attended(r)
    BY <1>3, <1>6 DEF AttendedInv
  <2>2. CASE boot.at = "list" \/ r \in boot.rows
    BY <1>2, <2>2 DEF Attended
  <2>3. ASSUME NEW u \in Tasks, task[u].row = r, ~(task[u].at = "run" /\ task[u].same)
        PROVE  Attended(r)'
    BY <1>4, <1>5, <1>6, <2>3 DEF Attended
  <2> QED BY <2>1, <2>2, <2>3 DEF Attended
<1> QED BY <1>6 DEF AttendedInv

\* A row that a handler sets to creating has a task from then on.
LEMMA SpawnAttends ==
  ASSUME TypeOK, AttendedInv, NEW t \in Tasks, NEW r \in Rows, Grant(t, r),
         status' = [status EXCEPT ![r] = "creating"], UNCHANGED boot
  PROVE  AttendedInv'
<1>1. task \in [Tasks -> TaskRecords] /\ status \in [Rows -> Statuses]
  BY DEF TypeOK, TasksOK, RowsOK
<1>2. task[t]'.row = r /\ task[t]'.at = "load"
  BY <1>1 DEF Grant, Spawn, NoTask
<1>3. \A u \in Tasks : task[u].row \in Rows => task[u]' = task[u]
  BY <1>1, ComputeAssumption DEF Grant, Spawn, NoTask
<1>4. ASSUME NEW s \in Rows, status[s]' = "creating" PROVE Attended(s)'
  <2>1. CASE s = r
    BY <1>2, <2>1 DEF Attended
  <2>2. CASE s # r
    BY <1>1, <1>3, <1>4, <2>2 DEF AttendedInv, Attended
  <2> QED BY <2>1, <2>2
<1> QED BY <1>4 DEF AttendedInv

\* The steps that leave the tasks alone, or end the rows they take from them.
LEMMA OthersAttend ==
  ASSUME TypeOK, AttendedInv, Step,
         ~\E t \in Tasks : TaskStep(t) \/ PollTimesOut(t)
  PROVE  AttendedInv'
<1>1. status \in [Rows -> Statuses] /\ task \in [Tasks -> TaskRecords]
  BY DEF TypeOK, TasksOK, RowsOK
<1>2. ASSUME UNCHANGED <<task, boot>>,
             \A r \in Rows : status[r]' = "creating" => status[r] = "creating"
      PROVE  AttendedInv'
  BY <1>2 DEF AttendedInv, Attended
<1>3. ASSUME NEW r \in Rows, CreateCompute(r) PROVE AttendedInv'
  BY <1>1, <1>2, <1>3, SpawnAttends DEF CreateCompute, SetStatus
<1>4. ASSUME NEW r \in Rows, NEW c \in Calls, ReadRow(c, r) PROVE AttendedInv'
  BY <1>2, <1>4 DEF ReadRow, rowVars
<1>5. ASSUME NEW c \in Calls, CallStep(c) PROVE AttendedInv'
  <2>1. CASE Approve(c)
    <3>1. call[c].row \in Rows
      BY <2>1 DEF Approve, Commits, TypeOK, CallsOK, CallRecords
    <3> QED BY <2>1, <3>1, SpawnAttends DEF Approve, SetStatus
  <2>2. CASE Reject(c)
    BY <1>1, <1>2, <2>2 DEF Reject, SetStatus
  <2>3. CASE MarkTerminated(c)
    BY <1>1, <1>2, <2>3 DEF MarkTerminated, SetStatus
  <2>4. CASE Release(c)
    BY <1>2, <2>4 DEF Release, rowVars
  <2> QED BY <1>5, <2>1, <2>2, <2>3, <2>4 DEF CallStep
<1>6. ASSUME NEW p \in Pods, DeleteUpstream(p) PROVE AttendedInv'
  BY <1>2, <1>6 DEF DeleteUpstream, rowVars
<1>7. CASE Crash \/ StartReplica
  BY <1>7 DEF Crash, StartReplica, AttendedInv, Attended, TypeOK, BootOK, Up
<1>8. CASE ListOrphans
  <2>1. PICK f \in [Orphans(TRUE) -> {t \in Tasks : task[t] = NoTask}] :
          (\A r, s \in Orphans(TRUE) : f[r] = f[s] => r = s) /\ ResumeWith(f)
    BY <1>8 DEF ListOrphans
  <2>2. ASSUME NEW r \in Rows, status[r]' = "creating" PROVE Attended(r)'
    <3>1. status[r] = "creating"
      BY <1>8, <2>2 DEF ListOrphans, rowVars
    <3>2. CASE r \in Orphans(TRUE)
      <4>1. f[r] \in Tasks /\ r \in DOMAIN f
        BY <2>1, <3>2
      <4>2. (CHOOSE s \in DOMAIN f : f[s] = f[r]) = r
        BY <2>1, <3>2
      <4>3. task[f[r]]' = [NoTask EXCEPT !.at = "load", !.row = r]
        BY <2>1, <4>1, <4>2 DEF ResumeWith
      <4>4. task[f[r]]'.row = r /\ task[f[r]]'.at = "load"
        BY <4>3 DEF NoTask
      <4> QED BY <4>1, <4>4 DEF Attended
    <3>3. CASE r \notin Orphans(TRUE)
      <4>1. r \in Orphans(FALSE)
        BY <3>1, <3>3 DEF Orphans
      <4>2. boot' = [boot EXCEPT !.at = "fail", !.rows = Orphans(FALSE)]
        BY <1>8, <4>1 DEF ListOrphans
      <4>3. boot'.rows = Orphans(FALSE)
        BY <4>2 DEF TypeOK, BootOK
      <4> QED BY <4>1, <4>3 DEF Attended
    <3> QED BY <3>2, <3>3
  <2> QED BY <2>2 DEF AttendedInv
<1>9. CASE FailOthers
  BY <1>9 DEF FailOthers, AttendedInv, Attended
<1> QED BY <1>3, <1>4, <1>5, <1>6, <1>7, <1>8, <1>9 DEF Step

\* Every row that is creating has a task that will settle it, or a gateway that
\* starts will deal with it.
THEOREM CreatingAttended == Spec => []CreatingRowsAreAttended
<1>1. Init => AttendedInv
  BY DEF Init, AttendedInv
<1>2. TypeOK /\ AttendedInv /\ [Next]_vars => AttendedInv'
  <2> SUFFICES ASSUME TypeOK, AttendedInv, [Next]_vars PROVE AttendedInv'
    OBVIOUS
  <2>1. CASE UNCHANGED vars
    BY <2>1 DEF vars, rowVars, AttendedInv, Attended
  <2>2. CASE Next
    BY <2>2, TaskAttends, OthersAttend DEF Next
  <2> QED BY <2>1, <2>2
<1>3. AttendedInv => CreatingRowsAreAttended
  BY DEF AttendedInv, Attended, CreatingRowsAreAttended
<1> QED BY <1>1, <1>2, <1>3, TypeCorrect, PTL DEF Spec

-----------------------------------------------------------------------------
(* Terminated rows free their pods.                                        *)

\* A pod that is unknown is excused; a delete at work knows the pod its row
\* names; a terminated row has no other pods.
KnownInv == \A p \in Pods : Unknown(p) => p \in excused
ReadInv ==
  \A c \in Calls, r \in Rows, p \in Pods :
    Deletes(c, r) /\ cloud[p] = r /\ upid[r] = p /\ p \notin excused => call[c].pod = p
FreeInv == KnownInv /\ ReadInv /\ TerminatedRowsFreeTheirPods

\* A pod appears under an id nothing refers to, and changes no row.
LEMMA Appears ==
  ASSUME TypeOK, Step, NEW p \in Pods, cloud'[p] # cloud[p], cloud'[p] # None
  PROVE  Fresh(p) /\ UNCHANGED <<rowVars, call>>
<1>1. cloud \in [Pods -> Rows \cup {None}]
  BY DEF TypeOK, CloudOK
<1>2. ASSUME NEW t \in Tasks, Post(t) PROVE Fresh(p) /\ UNCHANGED <<rowVars, call>>
  BY <1>1, <1>2 DEF Post, Rent
<1>3. \A q \in Pods : ~DeleteUpstream(q)
  BY <1>1 DEF DeleteUpstream
<1>4. \A t \in Tasks : ~(TaskStep(t) /\ ~Post(t)) /\ ~PollTimesOut(t)
  BY DEF TaskStep, Load, Save, Poll, PollTimesOut, Get, Look, SetRunning, MarkFailed, SetFailed
<1>5. \A c \in Calls : ~CallStep(c)
  BY DEF CallStep, Approve, Reject, MarkTerminated, Release
<1>6. ~Crash /\ ~StartReplica /\ ~ListOrphans /\ ~FailOthers
      /\ \A r \in Rows : ~CreateCompute(r) /\ \A c \in Calls : ~ReadRow(c, r)
  BY DEF Crash, StartReplica, ListOrphans, FailOthers, CreateCompute, ReadRow
<1> QED BY <1>2, <1>3, <1>4, <1>5, <1>6 DEF Step

\* A row comes to name a pod only when a task saves it.
LEMMA Named ==
  ASSUME TypeOK, Step, NEW r \in Rows, upid'[r] # upid[r]
  PROVE  UNCHANGED <<status, call, cloud>>
<1>1. ASSUME NEW t \in Tasks, TaskStep(t) PROVE Save(t)
  BY <1>1 DEF TaskStep, Load, Post, Poll, Get, Look, SetRunning, MarkFailed, SetFailed, rowVars
<1>2. \A t \in Tasks : ~PollTimesOut(t)
  BY DEF PollTimesOut, rowVars
<1>3. ~\E c \in Calls : CallStep(c)
  BY DEF CallStep, Approve, Reject, MarkTerminated, Release, rowVars
<1>4. ~Crash /\ ~StartReplica /\ ~ListOrphans /\ ~FailOthers /\ ~\E p \in Pods : DeleteUpstream(p)
  BY DEF Crash, StartReplica, ListOrphans, FailOthers, DeleteUpstream, rowVars
<1>5. \A q \in Rows : ~CreateCompute(q) /\ \A c \in Calls : ~ReadRow(c, q)
  BY DEF CreateCompute, ReadRow, rowVars
<1> QED BY <1>1, <1>2, <1>3, <1>4, <1>5 DEF Step, Save

\* A delete is at work from the moment it has read its row.
LEMMA Reads ==
  ASSUME TypeOK, Step, NEW c \in Calls, NEW r \in Rows, Deletes(c, r)'
  PROVE  \/ Deletes(c, r) /\ call[c]'.pod = call[c].pod
         \/ call[c]'.pod = upid[r] /\ UNCHANGED <<rowVars, cloud>>
<1> USE DEF Deletes
<1>1. call \in [Calls -> CallRecords]
  BY DEF TypeOK, CallsOK
<1>2. CASE UNCHANGED call
  BY <1>2
<1>3. ASSUME NEW q \in Rows, NEW d \in Calls, ReadRow(d, q)
      PROVE  \/ Deletes(c, r) /\ call[c]'.pod = call[c].pod
             \/ call[c]'.pod = upid[r] /\ UNCHANGED <<rowVars, cloud>>
  BY <1>1, <1>3 DEF ReadRow
<1>4. ASSUME NEW d \in Calls, CallStep(d)
      PROVE  Deletes(c, r) /\ call[c]'.pod = call[c].pod
  BY <1>1, <1>4 DEF CallStep, Approve, Reject, MarkTerminated, Release, Answers, NoCall, Commits, CallRecords
<1>5. ~Crash
  BY DEF Crash, NoCall
<1>6. \A t \in Tasks : TaskStep(t) \/ PollTimesOut(t) => UNCHANGED call
  BY DEF TaskStep, Load, Post, Save, Poll, PollTimesOut, Get, Look, SetRunning, MarkFailed, SetFailed
<1>7. (\E q \in Rows : CreateCompute(q)) \/ (\E p \in Pods : DeleteUpstream(p))
      \/ StartReplica \/ ListOrphans \/ FailOthers => UNCHANGED call
  BY DEF CreateCompute, DeleteUpstream, StartReplica, ListOrphans, FailOthers
<1> QED BY <1>2, <1>3, <1>4, <1>5, <1>6, <1>7 DEF Step

\* Only a delete terminates a row.
LEMMA Terminates ==
  ASSUME TypeOK, Step, NEW r \in Rows, status'[r] = "terminated", status[r] # "terminated"
  PROVE  /\ UNCHANGED <<cloud, upid>>
         /\ \E c \in Calls : Deletes(c, r) /\ Deletes(c, r)' /\ call[c]'.pod = call[c].pod
<1>1. status \in [Rows -> Statuses] /\ call \in [Calls -> CallRecords]
  BY DEF TypeOK, RowsOK, CallsOK
<1>2. ASSUME NEW c \in Calls, CallStep(c) PROVE MarkTerminated(c) /\ call[c].row = r
  BY <1>1, <1>2 DEF CallStep, Approve, Reject, MarkTerminated, Release, SetStatus, rowVars
<1>3. ASSUME NEW c \in Calls, MarkTerminated(c), call[c].row = r
      PROVE  /\ UNCHANGED <<cloud, upid>>
             /\ Deletes(c, r) /\ Deletes(c, r)' /\ call[c]'.pod = call[c].pod
  BY <1>1, <1>3 DEF MarkTerminated, Commits, Deletes, CallRecords
<1>4. ~\E t \in Tasks : TaskStep(t) \/ PollTimesOut(t)
  BY <1>1 DEF TaskStep, Load, Post, Save, Poll, PollTimesOut, Get, Look, SetRunning, MarkFailed, SetFailed,
              SetStatus, rowVars
<1>5. ~Crash /\ ~StartReplica /\ ~ListOrphans /\ ~FailOthers /\ ~\E p \in Pods : DeleteUpstream(p)
  BY <1>1 DEF Crash, StartReplica, ListOrphans, FailOthers, DeleteUpstream, rowVars
<1>6. \A q \in Rows : ~CreateCompute(q) /\ \A c \in Calls : ~ReadRow(c, q)
  BY <1>1 DEF CreateCompute, ReadRow, SetStatus, rowVars
<1> QED BY <1>2, <1>3, <1>4, <1>5, <1>6 DEF Step

\* What a step does to the three parts: an id that is new or newly saved was
\* unknown before or is unknown now, so the step excuses it.
LEMMA FreeStep ==
  ASSUME TypeOK, TypeOK', FreeInv, Next
  PROVE  FreeInv'
<1>1. Step /\ Watch
  BY DEF Next
<1>2. cloud \in [Pods -> Rows \cup {None}] /\ cloud' \in [Pods -> Rows \cup {None}]
  BY DEF TypeOK, CloudOK
<1>3. \A p \in Pods : p \in excused /\ cloud'[p] # None => p \in excused'
  BY <1>1 DEF Watch
<1>4. KnownInv'
  BY <1>1 DEF Watch, KnownInv, Unknown
<1>5. ReadInv'
  <2> SUFFICES ASSUME NEW c \in Calls, NEW r \in Rows, NEW p \in Pods,
                      Deletes(c, r)', cloud'[p] = r, upid'[r] = p, p \notin excused'
               PROVE  call[c]'.pod = p
    BY DEF ReadInv
  <2>1. r # None
    BY ComputeAssumption
  <2>2. cloud[p] = r
    BY <1>1, <2>1, Appears DEF Fresh, rowVars
  <2>3. p \notin excused
    BY <1>3, <2>1
  <2>4. CASE upid[r] = p
    BY <1>1, <2>2, <2>3, <2>4, Reads DEF FreeInv, ReadInv
  <2>5. CASE upid[r] # p
    <3>1. Deletes(c, r)
      BY <1>1, <2>5, Named DEF Deletes
    <3>2. Unknown(p)
      BY <2>1, <2>2, <2>5, <3>1 DEF Unknown
    <3> QED BY <2>3, <3>2 DEF FreeInv, KnownInv
  <2> QED BY <2>4, <2>5
<1>6. TerminatedRowsFreeTheirPods'
  <2> SUFFICES ASSUME NEW r \in Rows, status'[r] = "terminated",
                      NEW p \in Pods, cloud'[p] = r, p \notin excused'
               PROVE  Doomed(p)'
    BY DEF TerminatedRowsFreeTheirPods, PodsOf
  <2>1. r # None
    BY ComputeAssumption
  <2>2. ~Unknown(p)'
    BY <1>1, <2>1 DEF Watch
  <2>3. upid'[r] = p
    BY <2>1, <2>2 DEF Unknown
  <2>4. cloud[p] = r
    BY <1>1, <2>1, <2>3, Appears DEF Fresh, rowVars
  <2>5. p \notin excused
    BY <1>3, <2>1
  <2>6. CASE status[r] = "terminated"
    <3>1. Doomed(p)
      BY <2>4, <2>5, <2>6 DEF FreeInv, TerminatedRowsFreeTheirPods, PodsOf
    <3> QED BY <1>1, <2>1, <3>1 DEF Watch
  <2>7. CASE status[r] # "terminated"
    <3>1. PICK c \in Calls : Deletes(c, r) /\ Deletes(c, r)' /\ call[c]'.pod = call[c].pod
      BY <1>1, <2>7, Terminates
    <3>2. upid[r] = p
      BY <1>1, <2>3, <2>7, Terminates
    <3>3. call[c].pod = p
      BY <2>4, <2>5, <3>1, <3>2 DEF FreeInv, ReadInv
    <3> QED BY <3>1, <3>3 DEF Doomed
  <2> QED BY <2>6, <2>7
<1> QED BY <1>4, <1>5, <1>6 DEF FreeInv

\* Once a row is terminated, the pods it names are gone or about to go.
THEOREM TerminatedFree == Spec => []TerminatedRowsFreeTheirPods
<1>1. Init => FreeInv
  BY DEF Init, FreeInv, KnownInv, ReadInv, TerminatedRowsFreeTheirPods, Unknown, Deletes, NoCall, PodsOf
<1>2. TypeOK /\ TypeOK' /\ FreeInv /\ [Next]_vars => FreeInv'
  <2> SUFFICES ASSUME TypeOK, TypeOK', FreeInv, [Next]_vars PROVE FreeInv'
    OBVIOUS
  <2>1. CASE UNCHANGED vars
    BY <2>1 DEF vars, rowVars, FreeInv, KnownInv, ReadInv, TerminatedRowsFreeTheirPods, Unknown, InHand,
                Deletes, Doomed, PodsOf
  <2> QED BY <2>1, FreeStep
<1>3. FreeInv => TerminatedRowsFreeTheirPods
  BY DEF FreeInv
<1> QED BY <1>1, <1>2, <1>3, TypeCorrect, PTL DEF Spec

-----------------------------------------------------------------------------
(* One pod per grant.                                                      *)

\* The tasks that may still rent a pod for the row.  A row that has named a pod
\* names one for ever, and a task that has yet to look will only poll it.
Claims(r) ==
  {t \in Tasks : task[t].row = r /\ (task[t].at = "post" \/ (task[t].at = "load" /\ upid[r] = None))}

Within(r) == made[r] + Cardinality(Claims(r)) <= grants[r]
SavesName == \A t \in Tasks : task[t].at = "save" => task[t].pod # None
RentInv == SavesName /\ \A r \in Rows : Within(r)

LEMMA ClaimsFinite == ASSUME NEW r \in Rows PROVE IsFiniteSet(Claims(r)) /\ Cardinality(Claims(r)) \in Nat
<1>1. IsFiniteSet(Claims(r))
  BY ComputeAssumption, FS_Subset DEF Claims
<1> QED BY <1>1, FS_CardinalityType

\* Claims that go away leave room.
LEMMA FewerClaims ==
  ASSUME TypeOK, NEW r \in Rows, Within(r), Claims(r)' \subseteq Claims(r),
         made'[r] = made[r], grants'[r] = grants[r]
  PROVE  Within(r)'
<1>1. made[r] \in Nat /\ grants[r] \in Nat
  BY DEF TypeOK, CountsOK
<1>2. /\ IsFiniteSet(Claims(r)') /\ Cardinality(Claims(r)') \in Nat
      /\ Cardinality(Claims(r)) \in Nat /\ Cardinality(Claims(r)') <= Cardinality(Claims(r))
  BY ClaimsFinite, FS_Subset, FS_CardinalityType
<1> QED BY <1>1, <1>2 DEF Within

\* A claim is used up by the pod it rents.
LEMMA ClaimUsed ==
  ASSUME TypeOK, NEW r \in Rows, Within(r), NEW t \in Claims(r), Claims(r)' \subseteq Claims(r) \ {t},
         made'[r] = made[r] + 1, grants'[r] = grants[r]
  PROVE  Within(r)'
<1>1. made[r] \in Nat /\ grants[r] \in Nat
  BY DEF TypeOK, CountsOK
<1>2. /\ IsFiniteSet(Claims(r)) /\ Cardinality(Claims(r)) \in Nat
      /\ IsFiniteSet(Claims(r) \ {t})
      /\ Cardinality(Claims(r) \ {t}) = Cardinality(Claims(r)) - 1
  BY ClaimsFinite, FS_RemoveElement
<1>3. Cardinality(Claims(r)') \in Nat /\ Cardinality(Claims(r)') <= Cardinality(Claims(r) \ {t})
  BY <1>2, FS_Subset, FS_CardinalityType
<1> QED BY <1>1, <1>2, <1>3 DEF Within

\* A grant pays for the claim of the task it starts.
LEMMA ClaimGranted ==
  ASSUME TypeOK, NEW r \in Rows, Within(r), NEW t \in Tasks, Claims(r)' \subseteq Claims(r) \cup {t},
         made'[r] = made[r], grants'[r] = grants[r] + 1
  PROVE  Within(r)'
<1>1. made[r] \in Nat /\ grants[r] \in Nat
  BY DEF TypeOK, CountsOK
<1>2. /\ IsFiniteSet(Claims(r)) /\ Cardinality(Claims(r)) \in Nat
      /\ IsFiniteSet(Claims(r) \cup {t}) /\ Cardinality(Claims(r) \cup {t}) \in Nat
      /\ Cardinality(Claims(r) \cup {t}) <= Cardinality(Claims(r)) + 1
  BY ClaimsFinite, FS_AddElement, FS_CardinalityType
<1>3. Cardinality(Claims(r)') \in Nat /\ Cardinality(Claims(r)') <= Cardinality(Claims(r) \cup {t})
  BY <1>2, FS_Subset, FS_CardinalityType
<1> QED BY <1>1, <1>2, <1>3 DEF Within

\* The steps of a task: only a pod whose id arrives uses a claim, and no other
\* step makes one.
LEMMA TaskRents ==
  ASSUME TypeOK, RentInv, NEW t \in Tasks, TaskStep(t) \/ PollTimesOut(t)
  PROVE  RentInv'
<1>1. /\ task \in [Tasks -> TaskRecords] /\ upid \in [Rows -> Pods \cup {None}]
      /\ made \in [Rows -> Nat] /\ UNCHANGED grants
  BY DEF TypeOK, TasksOK, RowsOK, CountsOK, TaskStep, Load, Post, Save, Poll, PollTimesOut, Get, Look,
         SetRunning, MarkFailed, SetFailed
<1>2. \A u \in Tasks \ {t} : task[u]' = task[u]
  BY <1>1 DEF TaskStep, Load, Post, Save, Poll, PollTimesOut, Get, Look, SetRunning, MarkFailed, SetFailed,
              NextCandidate, Go, End
<1>3. task[t]'.at = "save" => task[t]'.pod # None
  <2> USE <1>1 DEF TaskRecords, NoTask
  <2>1. CASE Post(t)
    BY <2>1, ComputeAssumption DEF Post, NextCandidate, Go
  <2>2. CASE ~Post(t)
    BY <2>2 DEF TaskStep, Load, Save, Poll, PollTimesOut, Get, Look, SetRunning, MarkFailed, SetFailed, Go, End
  <2> QED BY <2>1, <2>2
<1>4. SavesName'
  BY <1>2, <1>3 DEF RentInv, SavesName
<1>5. ASSUME NEW r \in Rows PROVE upid[r]' = None => upid[r] = None
  <2>1. CASE Save(t)
    BY <1>1, <2>1 DEF Save, Go, RentInv, SavesName, TaskRecords
  <2>2. CASE ~Save(t)
    BY <2>2 DEF TaskStep, Load, Post, Poll, PollTimesOut, Get, Look, SetRunning, MarkFailed, SetFailed, rowVars
  <2> QED BY <2>1, <2>2
<1>6. task[t]'.at = "load" => FALSE
  <2> USE <1>1 DEF TaskRecords, NoTask
  <2>1. CASE Post(t)
    BY <2>1 DEF Post, NextCandidate, Go
  <2>2. CASE ~Post(t)
    BY <2>2 DEF TaskStep, Load, Save, Poll, PollTimesOut, Get, Look, SetRunning, MarkFailed, SetFailed, Go, End
  <2> QED BY <2>1, <2>2
<1>7. task[t]'.at = "post" => t \in Claims(task[t].row) /\ task[t]'.row = task[t].row
  <2> USE <1>1 DEF TaskRecords, NoTask, Claims
  <2>1. CASE Post(t)
    BY <2>1 DEF Post, NextCandidate, Go
  <2>2. CASE ~Post(t)
    BY <2>2 DEF TaskStep, Load, Save, Poll, PollTimesOut, Get, Look, SetRunning, MarkFailed, SetFailed, Go, End
  <2> QED BY <2>1, <2>2
<1>8. ASSUME NEW r \in Rows PROVE Claims(r)' \subseteq Claims(r)
  BY <1>2, <1>5, <1>6, <1>7 DEF Claims
<1>9. ASSUME NEW r \in Rows PROVE Within(r)'
  <2>1. CASE made'[r] = made[r]
    BY <1>1, <1>8, <2>1, FewerClaims DEF RentInv
  <2>2. CASE made'[r] # made[r]
    <3>1. Post(t)
      BY <2>2 DEF TaskStep, Load, Save, Poll, PollTimesOut, Get, Look, SetRunning, MarkFailed, SetFailed
    <3>2. /\ task[t].at = "post" /\ task[t].row = r /\ task[t]'.at = "save"
          /\ made'[r] = made[r] + 1
      BY <1>1, <2>2, <3>1 DEF Post, TaskRecords
    <3>3. t \in Claims(r) /\ t \notin Claims(r)'
      BY <3>2 DEF Claims
    <3> QED BY <1>1, <1>8, <3>2, <3>3, ClaimUsed DEF RentInv
  <2> QED BY <2>1, <2>2
<1> QED BY <1>4, <1>9 DEF RentInv

\* A handler that sets a row to creating grants a pod; no other row gains a claim.
LEMMA GrantRents ==
  ASSUME TypeOK, RentInv, NEW t \in Tasks, NEW q \in Rows, Grant(t, q), UNCHANGED <<upid, made>>
  PROVE  RentInv'
<1>1. task \in [Tasks -> TaskRecords] /\ grants \in [Rows -> Nat]
  BY DEF TypeOK, TasksOK, CountsOK
<1>2. /\ task[t]'.at = "load" /\ task[t]'.row = q
      /\ \A u \in Tasks \ {t} : task[u]' = task[u]
  BY <1>1 DEF Grant, Spawn, NoTask
<1>3. SavesName'
  BY <1>2 DEF RentInv, SavesName
<1>4. ASSUME NEW r \in Rows, r # q PROVE Within(r)'
  <2>1. Claims(r)' \subseteq Claims(r)
    BY <1>2, <1>4 DEF Claims
  <2> QED BY <1>1, <1>4, <2>1, FewerClaims DEF RentInv, Grant
<1>5. Within(q)'
  <2>1. Claims(q)' \subseteq Claims(q) \cup {t}
    BY <1>2 DEF Claims
  <2>2. grants'[q] = grants[q] + 1
    BY <1>1 DEF Grant
  <2> QED BY <2>1, <2>2, ClaimGranted DEF RentInv
<1> QED BY <1>3, <1>4, <1>5 DEF RentInv

\* The other steps rent nothing; a row that a start-up resumes names its pod.
LEMMA OthersRent ==
  ASSUME TypeOK, RentInv, Step,
         ~\E t \in Tasks : TaskStep(t) \/ PollTimesOut(t)
  PROVE  RentInv'
<1>1. ASSUME UNCHANGED <<task, upid, made, grants>> PROVE RentInv'
  BY <1>1 DEF RentInv, SavesName, Within, Claims
<1>2. ASSUME NEW r \in Rows, CreateCompute(r) PROVE RentInv'
  BY <1>1, <1>2, GrantRents DEF CreateCompute
<1>3. ASSUME NEW r \in Rows, NEW c \in Calls, ReadRow(c, r) PROVE RentInv'
  BY <1>1, <1>3 DEF ReadRow, rowVars
<1>4. ASSUME NEW c \in Calls, CallStep(c) PROVE RentInv'
  <2>1. CASE Approve(c)
    <3>1. call[c].row \in Rows
      BY <2>1 DEF Approve, Commits, TypeOK, CallsOK, CallRecords
    <3> QED BY <2>1, <3>1, GrantRents DEF Approve
  <2>2. CASE Reject(c) \/ MarkTerminated(c) \/ Release(c)
    BY <1>1, <2>2 DEF Reject, MarkTerminated, Release, rowVars
  <2> QED BY <1>4, <2>1, <2>2 DEF CallStep
<1>5. ASSUME NEW p \in Pods, DeleteUpstream(p) PROVE RentInv'
  BY <1>1, <1>5 DEF DeleteUpstream, rowVars
<1>6. CASE StartReplica \/ FailOthers
  BY <1>1, <1>6 DEF StartReplica, FailOthers, rowVars
<1>7. ASSUME UNCHANGED <<upid, made, grants>>,
             \A t \in Tasks : \/ task[t]' = task[t] \/ task[t]'.at = "none"
                              \/ task[t]'.at = "load" /\ \A r \in Rows : task[t]'.row = r => upid[r] # None
      PROVE  RentInv'
  <2>1. SavesName'
    BY <1>7 DEF RentInv, SavesName
  <2>2. ASSUME NEW r \in Rows PROVE Claims(r)' \subseteq Claims(r)
    BY <1>7 DEF Claims
  <2> QED BY <1>7, <2>1, <2>2, FewerClaims DEF RentInv
<1>8. CASE Crash
  BY <1>7, <1>8 DEF Crash, NoTask, rowVars
<1>9. CASE ListOrphans
  <2>1. PICK f \in [Orphans(TRUE) -> {t \in Tasks : task[t] = NoTask}] : ResumeWith(f)
    BY <1>9 DEF ListOrphans
  <2>2. ASSUME NEW t \in Tasks, task[t]' # task[t]
        PROVE  \E r \in Orphans(TRUE) : task[t]'.at = "load" /\ task[t]'.row = r
    <3>1. \E r \in DOMAIN f : f[r] = t
      BY <2>1, <2>2 DEF ResumeWith
    <3>2. PICK r \in Orphans(TRUE) : r = CHOOSE s \in DOMAIN f : f[s] = t
      BY <2>1, <3>1
    <3>3. task[t]' = [NoTask EXCEPT !.at = "load", !.row = r]
      BY <2>1, <3>1, <3>2 DEF ResumeWith
    <3> QED BY <3>3 DEF NoTask
  <2> QED BY <1>7, <1>9, <2>2 DEF ListOrphans, Orphans, rowVars
<1> QED BY <1>2, <1>3, <1>4, <1>5, <1>6, <1>8, <1>9 DEF Step

\* A row rents at most one pod for each time it was set to creating.
THEOREM RentedOnce == Spec => []RentedOncePerGrant
<1>1. Init => RentInv
  <2> SUFFICES ASSUME Init PROVE RentInv
    OBVIOUS
  <2>1. SavesName
    BY DEF Init, SavesName, NoTask
  <2>2. ASSUME NEW r \in Rows PROVE Within(r)
    <3>1. Claims(r) = {}
      BY DEF Init, Claims, NoTask
    <3> QED BY <3>1, FS_EmptySet DEF Init, Within
  <2> QED BY <2>1, <2>2 DEF RentInv
<1>2. TypeOK /\ RentInv /\ [Next]_vars => RentInv'
  <2> SUFFICES ASSUME TypeOK, RentInv, [Next]_vars PROVE RentInv'
    OBVIOUS
  <2>1. CASE UNCHANGED vars
    BY <2>1 DEF vars, rowVars, RentInv, SavesName, Within, Claims
  <2>2. CASE Next
    BY <2>2, TaskRents, OthersRent DEF Next
  <2> QED BY <2>1, <2>2
<1>3. TypeOK /\ RentInv => RentedOncePerGrant
  <2> SUFFICES ASSUME TypeOK, RentInv, NEW r \in Rows PROVE made[r] <= grants[r]
    BY DEF RentedOncePerGrant
  <2>1. made[r] \in Nat /\ grants[r] \in Nat /\ Cardinality(Claims(r)) \in Nat
    BY ClaimsFinite DEF TypeOK, CountsOK
  <2> QED BY <2>1 DEF RentInv, Within
<1> QED BY <1>1, <1>2, <1>3, TypeCorrect, PTL DEF Spec

=============================================================================
