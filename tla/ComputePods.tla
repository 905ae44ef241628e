----------------------------- MODULE ComputePods -----------------------------
(***************************************************************************)
(* Ad-hoc GPU pods (gateway/compute.py): the rows of compute_pods, the     *)
(* handlers that create, approve, reject and delete one, the background    *)
(* tasks that rent a pod upstream and poll it until SSH is up, the delete  *)
(* tasks nobody waits for, and the clean-up a gateway does when it starts  *)
(* (with RUNPOD_API_KEY set; without it there is none).                    *)
(*                                                                         *)
(* A handler or a task that changes a row reads it and commits later: two  *)
(* steps, and the ORM writes a column only if it differs from what it has  *)
(* read ("same").  Faults says what may go wrong:                          *)
(*   fail     a call to the provider or a lookup of its key fails          *)
(*   lost     a pod is created upstream but the answer is lost             *)
(*   crash    the gateway dies and starts again                            *)
(*   replica  a second gateway starts while the first one works            *)
(***************************************************************************)
EXTENDS Integers, FiniteSets

CONSTANTS Rows,         \* ids of compute_pods rows
          Primes,       \* those of a Prime Intellect provider; the rest are RunPod's
          Pods,         \* bound: the pods that exist upstream at a time
          Tasks,        \* bound: provisioning tasks at a time
          Calls,        \* bound: approve, reject and delete requests at a time
          Attempts,     \* MAX_PI_CREATE_ATTEMPTS
          MaxRestarts,  \* bound: gateway starts
          Faults,       \* what may go wrong
          None

ASSUME ComputeAssumption ==
  /\ None \notin Rows \cup Pods /\ Primes \subseteq Rows /\ IsFiniteSet(Tasks)
  /\ Attempts \in Nat \ {0}
  /\ MaxRestarts \in Nat

VARIABLES status,    \* a row's status; "none": not requested yet
          upid,      \* a row's runpod_pod_id
          cloud,     \* the row each upstream pod was rented for
          task,      \* the provisioning tasks
          call,      \* the handlers in progress
          deletes,   \* the pods a delete task is about to terminate
          boot,      \* the start-up clean-up
          restarts,  \* gateway starts so far
          grants,    \* history: how often a row was set to creating
          made,      \* history: pods rented for a row, their ids received
          excused    \* history: pods a delete of their row could not know of

rowVars == <<status, upid>>
vars == <<rowVars, cloud, task, call, deletes, boot, restarts, grants, made, excused>>

Statuses == {"none", "pending_approval", "creating", "running", "failed", "terminated", "rejected"}

NoTask == [at |-> "none", row |-> None, pod |-> None, left |-> 0, same |-> FALSE]
NoCall == [at |-> "none", for |-> "delete", row |-> None, pod |-> None, same |-> FALSE]

\* A gateway is up; one that starts has rows to fail, and is alone if the one
\* before it died.
Up == [at |-> "up", alone |-> FALSE, rows |-> {}]

Init ==
  /\ status = [r \in Rows |-> "none"]
  /\ upid = [r \in Rows |-> None]
  /\ cloud = [p \in Pods |-> None]
  /\ task = [t \in Tasks |-> NoTask]
  /\ call = [c \in Calls |-> NoCall]
  /\ deletes = {}
  /\ boot = Up
  /\ restarts = 0
  /\ grants = [r \in Rows |-> 0]
  /\ made = [r \in Rows |-> 0]
  /\ excused = {}

SetStatus(r, s) == status' = [status EXCEPT ![r] = s]

\* asyncio.create_task(_safe_create(r)).
Spawn(t, r) ==
  /\ task[t] = NoTask
  /\ task' = [task EXCEPT ![t] = [NoTask EXCEPT !.at = "load", !.row = r]]

Grant(t, r) ==
  /\ Spawn(t, r)
  /\ grants' = [grants EXCEPT ![r] = @ + 1]

\* The task t, at stage s, goes on to stage n or ends.
Go(t, s, n) == task[t].at = s /\ task' = [task EXCEPT ![t].at = n]
End(t) == task' = [task EXCEPT ![t] = NoTask]

Serving == boot.at = "up" \/ ~boot.alone

-----------------------------------------------------------------------------
(* The handlers.                                                           *)

\* POST /compute: admins and full-access users bypass the approval.
CreateCompute(r) ==
  /\ Serving
  /\ status[r] = "none"
  /\ \/ SetStatus(r, "pending_approval") /\ UNCHANGED <<task, grants>>
     \/ SetStatus(r, "creating") /\ \E t \in Tasks : Grant(t, r)
  /\ UNCHANGED <<upid, cloud, call, deletes, boot, restarts, made>>

\* Mutant: only a row that is running gives up its pod.
ReadRunning(c, r) ==
  /\ Serving
  /\ call[c] = NoCall
  /\ status[r] # "none"
  /\ \E f \in {"delete"} \cup (IF status[r] = "pending_approval" THEN {"approve", "reject"} ELSE {}) :
       call' = [call EXCEPT ![c] = [at |-> "commit", for |-> f, row |-> r,
                                    pod |-> IF f = "delete" /\ status[r] = "running" THEN upid[r] ELSE None,
                                    same |-> status[r] = "terminated"]]
  /\ UNCHANGED <<rowVars, cloud, task, deletes, boot, restarts, grants, made>>

\* A handler reads the row; approve and reject answer 409 unless it is pending.
ReadRow(c, r) ==
  /\ Serving
  /\ call[c] = NoCall
  /\ status[r] # "none"
  /\ \E f \in {"delete"} \cup (IF status[r] = "pending_approval" THEN {"approve", "reject"} ELSE {}) :
       call' = [call EXCEPT ![c] = [at |-> "commit", for |-> f, row |-> r,
                                    pod |-> IF f = "delete" THEN upid[r] ELSE None,
                                    same |-> status[r] = "terminated"]]
  /\ UNCHANGED <<rowVars, cloud, task, deletes, boot, restarts, grants, made>>

Commits(c, f) == call[c].at = "commit" /\ call[c].for = f
Answers(c) == call' = [call EXCEPT ![c] = NoCall]

Approve(c) ==
  /\ Commits(c, "approve")
  /\ SetStatus(call[c].row, "creating")
  /\ \E t \in Tasks : Grant(t, call[c].row)
  /\ Answers(c)
  /\ UNCHANGED <<upid, cloud, deletes, boot, restarts, made>>

Reject(c) ==
  /\ Commits(c, "reject")
  /\ SetStatus(call[c].row, "rejected")
  /\ Answers(c)
  /\ UNCHANGED <<upid, cloud, task, deletes, boot, restarts, grants, made>>

\* DELETE marks the row first; the pod it has read goes later.
MarkTerminated(c) ==
  /\ Commits(c, "delete")
  /\ IF call[c].same THEN UNCHANGED status ELSE SetStatus(call[c].row, "terminated")
  /\ call' = [call EXCEPT ![c].at = "release"]
  /\ UNCHANGED <<upid, cloud, task, deletes, boot, restarts, grants, made>>

Release(c) ==
  /\ call[c].at = "release"
  /\ deletes' = deletes \cup ({call[c].pod} \ {None})
  /\ Answers(c)
  /\ UNCHANGED <<rowVars, cloud, task, boot, restarts, grants, made>>

\* The delete task: errors are logged and forgotten.
DeleteUpstream(p) ==
  /\ p \in deletes
  /\ deletes' = deletes \ {p}
  /\ \/ cloud' = [cloud EXCEPT ![p] = None]
     \/ "fail" \in Faults /\ UNCHANGED cloud
  /\ UNCHANGED <<rowVars, task, call, boot, restarts, grants, made>>

CallStep(c) == Approve(c) \/ Reject(c) \/ MarkTerminated(c) \/ Release(c)

-----------------------------------------------------------------------------
(* The provisioning task.                                                  *)

\* Mutant: a resumed task rents a pod too.
LoadAnew(t) ==
  /\ task[t].at = "load"
  /\ task' = [task EXCEPT ![t].at = "post",
                          ![t].left = IF task[t].row \in Primes THEN Attempts ELSE 1]
  /\ UNCHANGED <<rowVars, cloud, call, deletes, boot, restarts, grants, made>>

\* The row, the provider's key and what is on offer are read.  A row that names
\* its pod is only polled.  The status is not looked at.
Load(t) ==
  /\ \/ /\ task[t].at = "load" /\ upid[task[t].row] # None
        /\ task' = [task EXCEPT ![t].at = "poll", ![t].pod = upid[task[t].row]]
     \/ /\ task[t].at = "load" /\ upid[task[t].row] = None
        /\ task' = [task EXCEPT ![t].at = "post",
                                ![t].left = IF task[t].row \in Primes THEN Attempts ELSE 1]
     \/ "fail" \in Faults /\ Go(t, "load", "mark")
  /\ UNCHANGED <<rowVars, cloud, call, deletes, boot, restarts, grants, made>>

\* An id that nothing refers to is as good as a new one.
Fresh(p) ==
  /\ cloud[p] = None /\ p \notin deletes
  /\ \A r \in Rows : upid[r] # p
  /\ \A t \in Tasks : task[t].pod # p
  /\ \A c \in Calls : call[c].pod # p

Rent(t, p) ==
  /\ Fresh(p)
  /\ cloud' = [cloud EXCEPT ![p] = task[t].row]

\* Mutant: the candidates are not counted.
NextWithoutCount(t) ==
  \/ /\ task[t].at = "post"
     /\ task' = [task EXCEPT ![t].left = @ - 1]
  \/ Go(t, "post", "mark")

\* This candidate did not work out: Prime Intellect may have another.
NextCandidate(t) ==
  \/ /\ task[t].at = "post" /\ task[t].left > 1
     /\ task' = [task EXCEPT ![t].left = @ - 1]
  \/ Go(t, "post", "mark")

\* POST /pods: an id, a refusal, or a pod whose id never arrives.
Post(t) ==
  /\ \/ \E p \in Pods : /\ task[t].at = "post"
                        /\ task' = [task EXCEPT ![t].at = "save", ![t].pod = p]
                        /\ Rent(t, p)
                        /\ made' = [made EXCEPT ![task[t].row] = @ + 1]
     \/ "fail" \in Faults /\ NextCandidate(t) /\ UNCHANGED <<cloud, made>>
     \/ "lost" \in Faults /\ NextCandidate(t) /\ (\E p \in Pods : Rent(t, p)) /\ UNCHANGED made
  /\ UNCHANGED <<rowVars, call, deletes, boot, restarts, grants>>

\* The id is committed.  No handler of compute.py removes a row (the removal of
\* its owner does, and is not modelled), so the row is there.
Save(t) ==
  /\ Go(t, "save", "poll")
  /\ upid' = [upid EXCEPT ![task[t].row] = task[t].pod]
  /\ UNCHANGED <<status, cloud, call, deletes, boot, restarts, grants, made>>

\* Each round of the poll starts with the row: terminated ends it.
Poll(t) ==
  /\ task[t].at = "poll"
  /\ IF status[task[t].row] = "terminated" THEN End(t) ELSE Go(t, "poll", "get")
  /\ UNCHANGED <<rowVars, cloud, call, deletes, boot, restarts, grants, made>>

PollTimesOut(t) ==
  /\ Go(t, "poll", "mark")
  /\ UNCHANGED <<rowVars, cloud, call, deletes, boot, restarts, grants, made>>

\* GET /pods/{id}: not ready yet or an error, reachable, or beyond hope.
Get(t) ==
  /\ \/ Go(t, "get", "poll")
     \/ Go(t, "get", "look") /\ cloud[task[t].pod] # None
     \/ "fail" \in Faults /\ Go(t, "get", "mark")
  /\ UNCHANGED <<rowVars, cloud, call, deletes, boot, restarts, grants, made>>

\* The row is read again, then set to running.
Look(t) ==
  /\ task[t].at = "look"
  /\ IF status[task[t].row] = "terminated" THEN End(t)
     ELSE task' = [task EXCEPT ![t].at = "run", ![t].same = status[task[t].row] = "running"]
  /\ UNCHANGED <<rowVars, cloud, call, deletes, boot, restarts, grants, made>>

SetRunning(t) ==
  /\ task[t].at = "run"
  /\ IF task[t].same THEN UNCHANGED status ELSE SetStatus(task[t].row, "running")
  /\ End(t)
  /\ UNCHANGED <<upid, cloud, call, deletes, boot, restarts, grants, made>>

\* _mark_failed: terminated and failed rows are left alone.
MarkFailed(t) ==
  /\ task[t].at = "mark"
  /\ IF status[task[t].row] \in {"terminated", "failed"} THEN End(t) ELSE Go(t, "mark", "fail")
  /\ UNCHANGED <<rowVars, cloud, call, deletes, boot, restarts, grants, made>>

SetFailed(t) ==
  /\ task[t].at = "fail"
  /\ SetStatus(task[t].row, "failed")
  /\ End(t)
  /\ UNCHANGED <<upid, cloud, call, deletes, boot, restarts, grants, made>>

TaskStep(t) ==
  \/ Load(t) \/ Post(t) \/ Save(t) \/ Poll(t) \/ Get(t) \/ Look(t) \/ SetRunning(t)
  \/ MarkFailed(t) \/ SetFailed(t)

-----------------------------------------------------------------------------
(* Starting a gateway.                                                     *)

Crash ==
  /\ "crash" \in Faults /\ restarts < MaxRestarts
  /\ task' = [t \in Tasks |-> NoTask]
  /\ call' = [c \in Calls |-> NoCall]
  /\ deletes' = {}
  /\ boot' = [Up EXCEPT !.at = "list", !.alone = TRUE]
  /\ restarts' = restarts + 1
  /\ UNCHANGED <<rowVars, cloud, grants, made>>

StartReplica ==
  /\ "replica" \in Faults /\ restarts < MaxRestarts
  /\ boot = Up
  /\ boot' = [Up EXCEPT !.at = "list"]
  /\ restarts' = restarts + 1
  /\ UNCHANGED <<rowVars, cloud, task, call, deletes, grants, made>>

Creating == {r \in Rows : status[r] = "creating"}

\* The rows that are creating, with a pod to their name or without.
Orphans(named) == {r \in Rows : status[r] = "creating" /\ (upid[r] # None <=> named)}

\* The tasks f[r] resume the rows r.
ResumeWith(f) ==
  task' = [t \in Tasks |-> IF \E r \in DOMAIN f : f[r] = t
                           THEN [NoTask EXCEPT !.at = "load", !.row = CHOOSE r \in DOMAIN f : f[r] = t]
                           ELSE task[t]]

\* Mutant: rows that name their pod are left to the task they had.
FailOrphans ==
  /\ boot.at = "list"
  /\ boot' = IF Orphans(FALSE) = {} THEN Up ELSE [boot EXCEPT !.at = "fail", !.rows = Orphans(FALSE)]
  /\ UNCHANGED <<rowVars, cloud, task, call, deletes, restarts, grants, made>>

\* cleanup_orphaned_running: SELECT the rows that are creating; those that name
\* their pod get a task at once.
ListOrphans ==
  /\ boot.at = "list"
  /\ boot' = IF Orphans(FALSE) = {} THEN Up ELSE [boot EXCEPT !.at = "fail", !.rows = Orphans(FALSE)]
  /\ \E f \in [Orphans(TRUE) -> {t \in Tasks : task[t] = NoTask}] :
       /\ \A r, s \in Orphans(TRUE) : f[r] = f[s] => r = s
       /\ ResumeWith(f)
  /\ UNCHANGED <<rowVars, cloud, call, deletes, restarts, grants, made>>

\* UPDATE ... WHERE id IN the others, whatever they are by now.
FailOthers ==
  /\ boot.at = "fail"
  /\ status' = [r \in Rows |-> IF r \in boot.rows THEN "failed" ELSE status[r]]
  /\ boot' = Up
  /\ UNCHANGED <<upid, cloud, task, call, deletes, restarts, grants, made>>

-----------------------------------------------------------------------------

PodsOf(r) == {p \in Pods : cloud[p] = r}
InHand(p) == \E t \in Tasks : task[t].at = "save" /\ task[t].pod = p
Deletes(c, r) == call[c].at \in {"commit", "release"} /\ call[c].for = "delete" /\ call[c].row = r
Doomed(p) == p \in deletes \/ \E c \in Calls : Deletes(c, cloud[p]) /\ call[c].pod = p

\* p runs, its row does not name it, and no task will make it, or a delete of
\* the row has already read who to terminate.
Unknown(p) ==
  LET r == cloud[p]
  IN  /\ r # None /\ upid[r] # p
      /\ ~InHand(p) \/ status[r] = "terminated" \/ \E c \in Calls : Deletes(c, r)

\* Pods that were unknown once, or that a delete was about to terminate and did not.
Watch == excused' = {p \in Pods : cloud'[p] # None
                        /\ (p \in excused \/ Unknown(p)' \/ (Doomed(p) /\ ~Doomed(p)'))}

Step ==
  \/ \E r \in Rows : CreateCompute(r) \/ \E c \in Calls : ReadRow(c, r)
  \/ \E c \in Calls : CallStep(c)
  \/ \E t \in Tasks : TaskStep(t) \/ PollTimesOut(t)
  \/ \E p \in Pods : DeleteUpstream(p)
  \/ Crash \/ StartReplica \/ ListOrphans \/ FailOthers

Next == Step /\ Watch

Spec == Init /\ [][Next]_vars

-----------------------------------------------------------------------------

TaskRecords ==
  [at : {"none", "load", "post", "save", "poll", "get", "look", "run", "mark", "fail"},
   row : Rows \cup {None}, pod : Pods \cup {None}, left : 0..Attempts, same : BOOLEAN]

CallRecords ==
  [at : {"none", "commit", "release"}, for : {"approve", "reject", "delete"},
   row : Rows \cup {None}, pod : Pods \cup {None}, same : BOOLEAN]

TasksOK ==
  /\ task \in [Tasks -> TaskRecords]
  /\ \A t \in Tasks : IF task[t].at = "none" THEN task[t] = NoTask ELSE task[t].row # None

CallsOK ==
  /\ call \in [Calls -> CallRecords]
  /\ \A c \in Calls : IF call[c].at = "none" THEN call[c] = NoCall ELSE call[c].row # None

RowsOK == status \in [Rows -> Statuses] /\ upid \in [Rows -> Pods \cup {None}]
CloudOK == cloud \in [Pods -> Rows \cup {None}] /\ deletes \subseteq Pods /\ excused \subseteq Pods
BootOK ==
  /\ boot \in [at : {"up", "list", "fail"}, alone : BOOLEAN, rows : SUBSET Rows]
  /\ restarts \in 0..MaxRestarts
CountsOK == grants \in [Rows -> Nat] /\ made \in [Rows -> Nat]

\* Every variable holds values of its kind; who is at work has a row to work on.
TypeOK == TasksOK /\ CallsOK /\ RowsOK /\ CloudOK /\ BootOK /\ CountsOK

\* Money is spent on a row once per grant, by an admin or a trusted owner:
\* however often gateways start and tasks are resumed, no grant is turned into
\* two pods, but for creates that were never answered.
RentedOncePerGrant == \A r \in Rows : made[r] <= grants[r]

\* compute.py deletes what a row names: once a row is terminated its pods are
\* gone or going, but for those the delete could not know of.
TerminatedRowsFreeTheirPods ==
  \A r \in Rows : status[r] = "terminated" =>
    \A p \in PodsOf(r) : p \in excused \/ Doomed(p)

\* A row that is creating is in somebody's care, a task that will settle it or
\* the clean-up of a gateway that starts: nobody waits for a pod for ever.
CreatingRowsAreAttended ==
  \A r \in Rows : status[r] = "creating" =>
    \/ \E t \in Tasks : task[t].row = r
    \/ boot.at = "list" \/ r \in boot.rows

=============================================================================
