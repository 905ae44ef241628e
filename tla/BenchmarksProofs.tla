-------------------------- MODULE BenchmarksProofs --------------------------
(***************************************************************************)
(* Proofs about Benchmarks, for any runs, gateways, handlers, faults and   *)
(* number of starts.                                                       *)
(***************************************************************************)
EXTENDS Benchmarks, TLAPS

-----------------------------------------------------------------------------
(* Types.                                                                  *)

CallRecords == [at : {"idle", "cancel", "settle", "pkill", "rm", "free", "remove"},
                gw : Gateways \cup {None}, b : Benches \cup {None}, pod : BOOLEAN]
SweepRecords == [left : SUBSET Benches, b : Benches \cup {None}]

\* A handler that takes a step has a run and a gateway in hand.
LEMMA InHand ==
  ASSUME TypeOK, NEW c \in Calls, call[c].at # "idle"
  PROVE  call[c] \in CallRecords /\ call[c].b \in Benches /\ call[c].gw \in Gateways
BY DEF TypeOK, CallRecords

\* A handler that turns to a record fit for it leaves the others as they are.
LEMMA Turned ==
  ASSUME TypeOK, NEW c \in Calls, NEW r \in CallRecords, call' = [call EXCEPT ![c] = r],
         r.at # "idle" => r.b \in Benches /\ r.gw \in Gateways
  PROVE  /\ call' \in [Calls -> CallRecords]
         /\ \A d \in Calls : call'[d].at # "idle" => call'[d].b \in Benches /\ call'[d].gw \in Gateways
BY DEF TypeOK, CallRecords

LEMMA TypeInit == Init => TypeOK
<1> SUFFICES ASSUME Init PROVE TypeOK
  OBVIOUS
<1>1. starts \in 0..MaxStarts
  BY BenchAssumption DEF Init
<1>2. /\ call \in [Calls -> CallRecords] /\ \A c \in Calls : call[c].at = "idle"
      /\ sweep \in [Gateways -> SweepRecords]
  BY DEF Init, Idle, Resting, CallRecords, SweepRecords
<1> QED BY <1>1, <1>2 DEF Init, TypeOK, Stages, Settled, CallRecords, SweepRecords

LEMMA TypeRun ==
  ASSUME TypeOK, NEW b \in Benches,
         RunnerStep(b) \/ Raise(b) \/ RentPod(b) \/ Ends(b) \/ SeePod(b) \/ RecordPod(b) \/ Age(b)
  PROVE  TypeOK'
<1> USE DEF TypeOK, rowVars, runVars, machines, gates, Stages, Settled, Runs, Writes, Dies
<1>1. CASE Claim(b)
  BY <1>1 DEF Claim
<1>2. CASE Prepare(b) \/ Reject(b)
  BY <1>2, SMTT(60) DEF Prepare, Reject
<1>3. CASE Spawn(b)
  BY <1>3 DEF Spawn
<1>4. CASE Drained(b)
  BY <1>4 DEF Drained
<1>5. CASE WipeModel(b)
  BY <1>5 DEF WipeModel, Wipe
<1>6. CASE Sync(b) \/ Finish(b)
  BY <1>6 DEF Sync, Finish
<1>7. CASE LookAtRow(b) \/ Fail(b)
  BY <1>7 DEF LookAtRow, Fail
<1>8. CASE Unwind(b)
  BY <1>8 DEF Unwind
<1>9. CASE Raise(b)
  BY <1>9 DEF Raise
<1>10. CASE RentPod(b) \/ Ends(b)
  BY <1>10, SMTT(60) DEF RentPod, Ends
<1>11. CASE SeePod(b) \/ RecordPod(b)
  BY <1>11 DEF SeePod, RecordPod
<1>12. CASE Age(b)
  BY <1>12 DEF Age
<1> QED
  BY <1>1, <1>2, <1>3, <1>4, <1>5, <1>6, <1>7, <1>8, <1>9, <1>10, <1>11, <1>12 DEF RunnerStep

LEMMA TypeCall ==
  ASSUME TypeOK, NEW c \in Calls,
         CallStep(c) \/ \E b \in Benches, g \in Gateways : Terminate(c, b, g) \/ Delete(c, b, g)
  PROVE  TypeOK'
<1> USE DEF rowVars, runVars, machines, gates, Settled, CallRecords
<1>1. Idle \in CallRecords
  BY DEF Idle
<1>2. ASSUME NEW r \in CallRecords, call' = [call EXCEPT ![c] = r],
             r.at # "idle" => r.b \in Benches /\ r.gw \in Gateways,
             row' \in [Benches -> {"none", "queued", "running", "deleted"} \cup Settled],
             cancelled' \subseteq Benches, live' \subseteq Benches, excused' \subseteq Benches,
             proc' \in [Benches -> {"none", "up", "ok", "bad"}],
             pod' \in [Benches -> {"none", "up", "gone"}],
             UNCHANGED <<onVm, recorded, old, runner, home, capture, sweep, up, starts, mixed>>
      PROVE  TypeOK'
  BY <1>2, Turned DEF TypeOK
<1>3. \A at \in {"cancel", "settle", "pkill", "rm", "free", "remove"} :
        call[c].at # "idle" => [call[c] EXCEPT !.at = at] \in CallRecords
  BY InHand
<1>4. CASE \E b \in Benches, g \in Gateways : Terminate(c, b, g)
  <2>1. PICK b \in Benches, g \in Gateways : Terminate(c, b, g)
    BY <1>4
  <2>2. [at |-> "cancel", gw |-> g, b |-> b, pod |-> b \in recorded] \in CallRecords
    OBVIOUS
  <2> QED BY <1>2, <2>1, <2>2 DEF Terminate, Turn, TypeOK
<1>5. CASE \E b \in Benches, g \in Gateways : Delete(c, b, g)
  <2>1. PICK b \in Benches, g \in Gateways : Delete(c, b, g)
    BY <1>5
  <2>2. [at |-> "remove", gw |-> g, b |-> b, pod |-> FALSE] \in CallRecords
    OBVIOUS
  <2>3. live' \subseteq Benches /\ proc' \in [Benches -> {"none", "up", "ok", "bad"}]
    BY <2>1 DEF Delete, KillLive, Dies, TypeOK
  <2> QED BY <1>2, <2>1, <2>2, <2>3 DEF Delete, Turn, TypeOK
<1>6. CASE Cancel(c)
  <2>1. call[c].at # "idle" /\ call[c].b \in Benches
    BY <1>6, InHand DEF Cancel, Goes, Turn
  <2>2. live' \subseteq Benches /\ proc' \in [Benches -> {"none", "up", "ok", "bad"}]
    BY <1>6, <2>1 DEF Cancel, KillLive, Dies, TypeOK
  <2> QED BY <1>2, <1>3, <1>6, <2>1, <2>2, InHand DEF Cancel, Goes, Turn, TypeOK
<1>7. CASE Settle(c)
  <2>1. call[c].at # "idle" /\ call[c].b \in Benches
    BY <1>7, InHand DEF Settle
  <2>2. row' \in [Benches -> {"none", "queued", "running", "deleted"} \cup Settled] /\ excused' \subseteq Benches
    BY <1>7, <2>1 DEF Settle, TypeOK
  <2>3. PICK r \in {Idle, [call[c] EXCEPT !.at = "pkill"], [call[c] EXCEPT !.at = "free"]} :
          call' = [call EXCEPT ![c] = r]
    BY <1>7, <2>1 DEF Settle, Returns, Goes, Turn, Errand
  <2>4. r \in CallRecords /\ (r.at # "idle" => r.b \in Benches /\ r.gw \in Gateways)
    BY <1>1, <1>3, <2>1, <2>3, InHand, ZenonT(60) DEF Idle
  <2> QED BY <1>2, <1>7, <2>2, <2>3, <2>4 DEF Settle, TypeOK
<1>8. CASE PkillVm(c) \/ RmModel(c)
  <2>1. call[c].at # "idle"
    BY <1>8 DEF PkillVm, RmModel, Goes, Returns, Turn
  <2>2. proc' \in [Benches -> {"none", "up", "ok", "bad"}]
    BY <1>8 DEF PkillVm, RmModel, Wipe, TypeOK
  <2>3. PICK r \in {Idle, [call[c] EXCEPT !.at = "rm"]} : call' = [call EXCEPT ![c] = r]
    BY <1>8 DEF PkillVm, RmModel, Returns, Goes, Turn
  <2>4. r \in CallRecords /\ (r.at # "idle" => r.b \in Benches /\ r.gw \in Gateways)
    BY <1>1, <1>3, <2>1, <2>3, InHand, ZenonT(60) DEF Idle
  <2> QED BY <1>2, <1>8, <2>2, <2>3, <2>4 DEF PkillVm, RmModel, TypeOK
<1>9. CASE FreePod(c) \/ Remove(c)
  <2>1. call[c].at # "idle" /\ call[c].b \in Benches
    BY <1>9, InHand DEF FreePod, Remove, Returns, Turn
  <2>2. call' = [call EXCEPT ![c] = Idle]
    BY <1>9 DEF FreePod, Remove, Returns, Turn
  <2>3. /\ row' \in [Benches -> {"none", "queued", "running", "deleted"} \cup Settled]
        /\ pod' \in [Benches -> {"none", "up", "gone"}]
        /\ excused' \subseteq Benches
    BY <1>9, <2>1 DEF FreePod, Remove, TypeOK
  <2> QED BY <1>1, <1>2, <1>9, <2>2, <2>3 DEF FreePod, Remove, TypeOK, Idle
<1> QED
  BY <1>4, <1>5, <1>6, <1>7, <1>8, <1>9 DEF CallStep

LEMMA TypeGateway ==
  ASSUME TypeOK, NEW g \in Gateways,
         Select(g) \/ Inspect(g) \/ Reap(g) \/ Crash(g) \/ Start(g) \/ \E b \in Benches : Create(b, g)
  PROVE  TypeOK'
<1> USE BenchAssumption DEF rowVars, runVars, machines, gates, Stages, Settled, SweepRecords
<1>1. sweep[g] \in SweepRecords /\ Resting \in SweepRecords
  BY DEF TypeOK, Resting
<1>2. CASE \E b \in Benches : Create(b, g)
  BY <1>2 DEF Create, TypeOK
<1>3. CASE Select(g)
  <2>1. PICK stuck \in SUBSET Benches : sweep' = [sweep EXCEPT ![g].left = stuck]
    BY <1>3 DEF Select, TypeOK
  <2>2. sweep' \in [Gateways -> SweepRecords]
    BY <1>1, <2>1 DEF TypeOK
  <2> QED BY <1>3, <2>2 DEF Select, TypeOK
<1>4. CASE Inspect(g)
  <2>1. PICK l \in SUBSET Benches, n \in Benches \cup {None} :
          sweep' = [sweep EXCEPT ![g] = [left |-> l, b |-> n]]
    BY <1>1, <1>4 DEF Inspect
  <2>2. sweep' \in [Gateways -> SweepRecords]
    BY <2>1 DEF TypeOK
  <2> QED BY <1>4, <2>2 DEF Inspect, TypeOK
<1>5. CASE Reap(g)
  <2>1. PICK r \in SweepRecords : sweep' = [sweep EXCEPT ![g] = r]
    BY <1>1, <1>5 DEF Reap
  <2>2. sweep' \in [Gateways -> SweepRecords]
    BY <2>1 DEF TypeOK
  <2>3. row' \in [Benches -> {"none", "queued", "running", "deleted"} \cup Settled]
    BY <1>5 DEF Reap, Writes, TypeOK
  <2> QED BY <1>5, <2>2, <2>3 DEF Reap, Writes, TypeOK
<1>6. CASE Crash(g)
  <2>1. sweep' \in [Gateways -> SweepRecords]
    BY <1>1, <1>6 DEF Crash, TypeOK
  <2>2. /\ call' \in [Calls -> CallRecords]
        /\ \A c \in Calls : call'[c].at # "idle" => call'[c].b \in Benches /\ call'[c].gw \in Gateways
    BY <1>6 DEF Crash, TypeOK, CallRecords, Idle
  <2>3. /\ runner' \in [Benches -> Stages]
        /\ capture' \in [Benches -> {"none", "ask", "over"}]
        /\ proc' \in [Benches -> {"none", "up", "ok", "bad"}]
        /\ live' \subseteq Benches
    BY <1>6 DEF Crash, TypeOK
  <2>4. excused' \subseteq Benches
    BY <1>6 DEF Crash, TypeOK
  <2> QED BY <1>6, <2>1, <2>2, <2>3, <2>4 DEF Crash, TypeOK, CallRecords
<1>7. CASE Start(g)
  BY <1>7 DEF Start, TypeOK
<1> QED BY <1>2, <1>3, <1>4, <1>5, <1>6, <1>7

LEMMA TypeStep == ASSUME TypeOK, [Next]_vars PROVE TypeOK'
<1>1. CASE Next
  BY <1>1, TypeRun, TypeCall, TypeGateway DEF Next
<1>2. CASE UNCHANGED vars
  BY <1>2 DEF TypeOK, vars, rowVars, runVars, machines, gates
<1> QED BY <1>1, <1>2

\* Benchmark runs are type correct for any runs, gateways, handlers and faults:
\* what a handler, a janitor or a task works on is a run, at a known stage.
THEOREM TypeCorrect == Spec => []TypeOK
BY TypeInit, TypeStep, PTL DEF Spec

-----------------------------------------------------------------------------
(* Processes and pods.                                                     *)

\* Nothing has begun for a row that is not there.
Fresh == \A b \in Benches : row[b] = "none" => runner[b] = "none" /\ proc[b] = "none" /\ pod[b] = "none"

\* _LIVE holds the process of a task that reads its pipes, and no other: a
\* process at work that it does not hold has lost its task.  Cancel has killed
\* what it held.
Lives == \A b \in Benches : /\ b \in live => runner[b] = "drain"
                            /\ proc[b] = "up" /\ Active(b) => b \in live
                            /\ b \in cancelled => proc[b] # "up"

VmsRentNothing == \A b \in onVm : pod[b] = "none"

PodInv == TypeOK /\ Fresh /\ Lives /\ VmsRentNothing /\ NoPodIsForgotten

LEMMA PodInit == Init => PodInv
<1> SUFFICES ASSUME Init PROVE PodInv
  OBVIOUS
<1> QED BY TypeInit DEF Init, PodInv, Fresh, Lives, VmsRentNothing, NoPodIsForgotten, Active

LEMMA PodRun ==
  ASSUME PodInv, TypeOK', NEW b \in Benches,
         RunnerStep(b) \/ Raise(b) \/ RentPod(b) \/ Ends(b) \/ SeePod(b) \/ RecordPod(b) \/ Age(b)
  PROVE  PodInv'
<1> USE DEF PodInv, TypeOK, Fresh, Lives, VmsRentNothing, NoPodIsForgotten, Handled, Active, Exists,
            rowVars, runVars, machines, Settled, Runs, Writes, Dies
<1>1. CASE Claim(b) \/ Prepare(b) \/ Reject(b)
  BY <1>1 DEF Claim, Prepare, Reject
<1>2. CASE Spawn(b)
  BY <1>2 DEF Spawn
<1>3. CASE Drained(b) \/ Sync(b) \/ Finish(b)
  BY <1>3 DEF Drained, Sync, Finish
<1>4. CASE WipeModel(b)
  BY <1>4 DEF WipeModel, Wipe
<1>5. CASE LookAtRow(b) \/ Fail(b) \/ Raise(b)
  BY <1>5 DEF LookAtRow, Fail, Raise
<1>6. CASE Unwind(b)
  BY <1>6 DEF Unwind
<1>7. CASE RentPod(b) \/ Ends(b)
  BY <1>7 DEF RentPod, Ends
<1>8. CASE SeePod(b) \/ RecordPod(b) \/ Age(b)
  BY <1>8 DEF SeePod, RecordPod, Age
<1> QED
  BY <1>1, <1>2, <1>3, <1>4, <1>5, <1>6, <1>7, <1>8 DEF RunnerStep

\* Clearing the VM hurts runs on the VM alone.
LEMMA Wiped ==
  ASSUME NEW b, Wipe(b)
  PROVE  \A v \in Benches : proc'[v] = proc[v] \/ (v \in onVm /\ proc[v] = "up" /\ proc'[v] = "bad")
<1>1. PICK hit \in SUBSET {v \in onVm : proc[v] = "up"} :
        proc' = [v \in Benches |-> IF v \in hit THEN "bad" ELSE proc[v]]
  BY DEF Wipe
<1> QED BY <1>1

LEMMA PodCall ==
  ASSUME PodInv, TypeOK', NEW c \in Calls,
         CallStep(c) \/ \E b \in Benches, g \in Gateways : Terminate(c, b, g) \/ Delete(c, b, g)
  PROVE  PodInv'
<1> USE InHand DEF PodInv, TypeOK, Fresh, Lives, VmsRentNothing, NoPodIsForgotten, Handled, Active, Exists,
            rowVars, runVars, machines, Settled, Turn, Goes, Returns, Idle
<1>1. CASE \E b \in Benches, g \in Gateways : Terminate(c, b, g)
  BY <1>1, SMTT(60) DEF Terminate
<1>2. CASE \E b \in Benches, g \in Gateways : Delete(c, b, g)
  BY <1>2 DEF Delete, KillLive, Dies, Holds
<1>3. CASE Cancel(c)
  BY <1>3 DEF Cancel, KillLive, Dies, Holds
<1>4. CASE Settle(c)
  BY <1>4, SMTT(60) DEF Settle, Errand
<1>5. CASE PkillVm(c) \/ RmModel(c)
  <2>1. Wipe(call[c].b) \/ UNCHANGED proc
    BY <1>5 DEF PkillVm, RmModel
  <2>2. \A v \in Benches : proc'[v] = proc[v] \/ (v \in onVm /\ proc[v] = "up" /\ proc'[v] = "bad")
    BY <2>1, Wiped
  <2>3. call[c].at \in {"pkill", "rm"} /\ \A d \in Calls \ {c} : call'[d] = call[d]
    BY <1>5 DEF PkillVm, RmModel
  <2>4. UNCHANGED <<row, onVm, runner, live, cancelled, pod, excused>>
    BY <1>5 DEF PkillVm, RmModel
  <2>5. \A b \in Benches : Handled(b) => Handled(b)'
    BY <2>3
  <2> QED BY <2>2, <2>4, <2>5
<1>6. CASE FreePod(c)
  BY <1>6 DEF FreePod
<1>7. CASE Remove(c)
  BY <1>7 DEF Remove
<1> QED
  BY <1>1, <1>2, <1>3, <1>4, <1>5, <1>6, <1>7 DEF CallStep

LEMMA PodGateway ==
  ASSUME PodInv, TypeOK', NEW g \in Gateways,
         Select(g) \/ Inspect(g) \/ Reap(g) \/ Crash(g) \/ Start(g) \/ \E b \in Benches : Create(b, g)
  PROVE  PodInv'
<1> USE DEF PodInv, TypeOK, Fresh, Lives, VmsRentNothing, NoPodIsForgotten, Handled, Active, Exists,
            rowVars, runVars, machines, Settled
<1>1. CASE \E b \in Benches : Create(b, g)
  BY <1>1 DEF Create
<1>2. CASE Select(g) \/ Inspect(g)
  BY <1>2 DEF Select, Inspect
<1>3. CASE Reap(g)
  BY <1>3 DEF Reap, Writes
<1>4. CASE Crash(g)
  BY <1>4 DEF Crash
<1>5. CASE Start(g)
  BY <1>5 DEF Start
<1> QED BY <1>1, <1>2, <1>3, <1>4, <1>5

LEMMA PodStep == ASSUME PodInv, [Next]_vars PROVE PodInv'
<1>1. TypeOK'
  BY TypeStep DEF PodInv
<1>2. CASE Next
  BY <1>1, <1>2, PodRun, PodCall, PodGateway DEF Next
<1>3. CASE UNCHANGED vars
  BY <1>1, <1>3 DEF PodInv, Fresh, Lives, VmsRentNothing, NoPodIsForgotten, Handled, Active,
                    vars, rowVars, runVars, machines, gates
<1> QED BY <1>2, <1>3

\* The pod of a run whose benchmaq was killed is being returned by the
\* terminate that killed it, for any runs, gateways and handlers, unless one of
\* the excuses holds that the property names.
THEOREM PodsAreRemembered == Spec => []NoPodIsForgotten
<1>1. PodInv => NoPodIsForgotten
  BY DEF PodInv
<1> QED BY <1>1, PodInit, PodStep, PTL DEF Spec

-----------------------------------------------------------------------------
(* Who may do what to a run.                                               *)

\* The row: its task, until it is told to stop; a terminate; a delete; the
\* janitor; a gateway that starts.
Creates(b) == row[b] = "none" /\ row'[b] = "queued"
TaskWrites(b) == /\ Active(b) /\ b \notin cancelled
                 /\ row'[b] = "running" \/ (row'[b] \in {"done", "failed"} /\ ~Active(b)')
Settles(b) == row'[b] = "cancelled" /\ \E c \in Calls : call[c].at = "settle" /\ call[c].b = b
Removes(b) == row'[b] = "deleted"
Sweeps(b) == row'[b] = "failed" /\ \E g \in Gateways : sweep[g].b = b
Restarts(b) == row[b] \in {"queued", "running"} /\ row'[b] = "failed" /\ \E g \in Gateways : Start(g)

LEMMA RowFrame ==
  ASSUME TypeOK, Next, NEW b \in Benches
  PROVE  \/ row'[b] = row[b]
         \/ Creates(b) \/ TaskWrites(b) \/ Settles(b) \/ Removes(b) \/ Sweeps(b) \/ Restarts(b)
<1> USE DEF rowVars, runVars, machines, gates
<1>1. CASE \E v \in Benches : Claim(v) \/ Reject(v) \/ Finish(v) \/ Fail(v)
  BY <1>1 DEF TypeOK, Claim, Reject, Finish, Fail, Runs, Writes, Active, TaskWrites
<1>2. CASE \E v \in Benches : \/ Prepare(v) \/ Spawn(v) \/ Drained(v) \/ WipeModel(v) \/ Sync(v) \/ LookAtRow(v)
                              \/ Unwind(v) \/ Raise(v) \/ RentPod(v) \/ Ends(v) \/ SeePod(v) \/ RecordPod(v) \/ Age(v)
  BY <1>2 DEF Prepare, Spawn, Drained, WipeModel, Sync, LookAtRow, Unwind, Raise, RentPod, Ends, SeePod, RecordPod, Age
<1>3. CASE \E v \in Benches, g \in Gateways : Create(v, g)
  BY <1>3 DEF TypeOK, Create, Creates
<1>4. CASE \E c \in Calls : \/ \E v \in Benches, g \in Gateways : Terminate(c, v, g) \/ Delete(c, v, g)
                            \/ Cancel(c) \/ PkillVm(c) \/ RmModel(c) \/ FreePod(c)
  BY <1>4 DEF Terminate, Delete, Cancel, PkillVm, RmModel, FreePod
<1>5. CASE \E c \in Calls : Settle(c) \/ Remove(c)
  BY <1>5 DEF TypeOK, Settle, Remove, Returns, Turn, Settles, Removes
<1>6. CASE \E g \in Gateways : Select(g) \/ Inspect(g) \/ Crash(g)
  BY <1>6 DEF Select, Inspect, Crash
<1>7. CASE \E g \in Gateways : Reap(g) \/ Start(g)
  BY <1>7 DEF TypeOK, Reap, Start, Writes, Sweeps, Restarts
<1> QED BY <1>1, <1>2, <1>3, <1>4, <1>5, <1>6, <1>7 DEF Next, RunnerStep, CallStep

\* The task: it begins with its row, stays where it is and does not forget that
\* it was told to stop.
LEMMA TaskFrame ==
  ASSUME TypeOK, Next, NEW b \in Benches
  PROVE  /\ Active(b)' => \/ Active(b) /\ home'[b] = home[b]
                          \/ row[b] = "none" /\ row'[b] = "queued" /\ home'[b] \in up /\ up' = up
         /\ b \in cancelled => b \in cancelled'
<1> USE DEF rowVars, runVars, machines, gates, TypeOK, Active
<1>1. CASE \E v \in Benches : RunnerStep(v) \/ Raise(v)
  BY <1>1 DEF RunnerStep, Claim, Prepare, Reject, Spawn, Drained, WipeModel, Sync, Finish, LookAtRow, Fail, Unwind, Raise, Runs
<1>2. CASE \E v \in Benches : RentPod(v) \/ Ends(v) \/ SeePod(v) \/ RecordPod(v) \/ Age(v)
  BY <1>2 DEF RentPod, Ends, SeePod, RecordPod, Age
<1>3. CASE \E v \in Benches, g \in Gateways : Create(v, g)
  BY <1>3 DEF Create
<1>4. CASE \E c \in Calls : \/ \E v \in Benches, g \in Gateways : Terminate(c, v, g) \/ Delete(c, v, g)
                            \/ CallStep(c)
  BY <1>4 DEF CallStep, Terminate, Delete, Cancel, Settle, PkillVm, RmModel, FreePod, Remove
<1>5. CASE \E g \in Gateways : Select(g) \/ Inspect(g) \/ Reap(g) \/ Crash(g) \/ Start(g)
  BY <1>5 DEF Select, Inspect, Reap, Crash, Start
<1> QED BY <1>1, <1>2, <1>3, <1>4, <1>5 DEF Next

\* The process: a task that was not told to stop starts it, and only a crash
\* takes it out of _LIVE alive.
LEMMA ProcFrame ==
  ASSUME TypeOK, Next, NEW b \in Benches, proc'[b] = "up"
  PROVE  /\ proc[b] = "up" \/ (Active(b) /\ b \notin cancelled /\ b \in live')
         /\ b \in live => b \in live' \/ \E g \in Gateways : Crash(g)
<1> USE DEF rowVars, runVars, machines, gates, TypeOK, Active, Dies
<1>1. CASE \E v \in Benches : RunnerStep(v) \/ Raise(v)
  <2>1. PICK v \in Benches : RunnerStep(v) \/ Raise(v)
    BY <1>1
  <2>2. CASE WipeModel(v)
    <3>1. proc[b] = "up" /\ live' = live
      BY <2>2, Wiped DEF WipeModel
    <3> QED BY <3>1
  <2>3. CASE \/ Claim(v) \/ Prepare(v) \/ Reject(v) \/ Sync(v) \/ Finish(v) \/ LookAtRow(v) \/ Fail(v) \/ Raise(v)
    BY <2>3 DEF Claim, Prepare, Reject, Sync, Finish, LookAtRow, Fail, Raise
  <2>4. CASE Spawn(v) \/ Drained(v) \/ Unwind(v)
    BY <2>4 DEF Spawn, Drained, Unwind, Runs
  <2> QED BY <2>1, <2>2, <2>3, <2>4 DEF RunnerStep
<1>2. CASE \E v \in Benches : RentPod(v) \/ Ends(v) \/ SeePod(v) \/ RecordPod(v) \/ Age(v)
  BY <1>2 DEF RentPod, Ends, SeePod, RecordPod, Age
<1>3. CASE \E v \in Benches, g \in Gateways : Create(v, g)
  BY <1>3 DEF Create
<1>4. CASE \E c \in Calls : PkillVm(c) \/ RmModel(c)
  <2>1. live' = live /\ (UNCHANGED proc \/ \E v : Wipe(v))
    BY <1>4 DEF PkillVm, RmModel
  <2>2. proc[b] = "up"
    BY <2>1, Wiped
  <2> QED BY <2>1, <2>2
<1>5. CASE \E c \in Calls : \/ \E v \in Benches, g \in Gateways : Terminate(c, v, g) \/ Delete(c, v, g)
                            \/ Cancel(c)
  <2>1. (\E v \in Benches, g \in Gateways : KillLive(g, v)) \/ UNCHANGED <<live, proc>>
    BY <1>5, InHand DEF Terminate, Delete, Cancel, Goes, Turn
  <2> QED BY <2>1 DEF KillLive
<1>6. CASE \E c \in Calls : Settle(c) \/ FreePod(c) \/ Remove(c)
  BY <1>6 DEF Settle, FreePod, Remove
<1>7. CASE \E g \in Gateways : Select(g) \/ Inspect(g) \/ Reap(g) \/ Crash(g) \/ Start(g)
  BY <1>7 DEF Select, Inspect, Reap, Crash, Start
<1> QED BY <1>1, <1>2, <1>3, <1>4, <1>5, <1>6, <1>7 DEF Next, CallStep

\* A handler: a terminate begins with an unfinished row, on a gateway that
\* runs, and settles after it has cancelled.
LEMMA CallFrame ==
  ASSUME TypeOK, Next, NEW c \in Calls, call'[c] # call[c]
  PROVE  /\ call'[c].at = "settle" => Cancel(c) /\ call[c].at = "cancel" /\ call'[c].b = call[c].b
         /\ call'[c].at = "cancel" => row[call'[c].b] \in {"queued", "running"} /\ up # {}
         /\ call'[c].at # "idle" => \/ call[c].at # "idle" /\ call'[c].b = call[c].b /\ call'[c].gw = call[c].gw
                                    \/ row[call'[c].b] # "none" /\ call'[c].gw \in up
<1> USE DEF rowVars, runVars, machines, gates
<1>1. CASE \E v \in Benches : \/ \E g \in Gateways : Create(v, g)
                              \/ RunnerStep(v) \/ Raise(v)
                              \/ RentPod(v) \/ Ends(v) \/ SeePod(v) \/ RecordPod(v) \/ Age(v)
  BY <1>1 DEF Create, RunnerStep, Claim, Prepare, Reject, Spawn, Drained, WipeModel, Sync, Finish, LookAtRow, Fail,
              Unwind, Raise, Runs, RentPod, Ends, SeePod, RecordPod, Age
<1>2. CASE \E d \in Calls : \/ \E v \in Benches, g \in Gateways : Terminate(d, v, g) \/ Delete(d, v, g)
                            \/ CallStep(d)
  <2>1. PICK d \in Calls : \/ \E v \in Benches, g \in Gateways : Terminate(d, v, g) \/ Delete(d, v, g)
                           \/ CallStep(d)
    BY <1>2
  <2>2. d = c /\ call[c] \in CallRecords
    BY <2>1 DEF TypeOK, CallRecords, CallStep, Terminate, Delete, Cancel, Settle, PkillVm, RmModel, FreePod, Remove,
                Goes, Returns, Turn
  <2>3. CASE \E v \in Benches, g \in Gateways : Terminate(c, v, g) \/ Delete(c, v, g)
    BY <2>3 DEF TypeOK, Terminate, Delete, Turn, Exists
  <2>4. CASE Cancel(c)
    BY <2>2, <2>4 DEF TypeOK, Cancel, Goes, Turn, CallRecords
  <2>5. CASE Settle(c)
    <3>1. \/ call'[c] = Idle
          \/ call'[c] = [call[c] EXCEPT !.at = "pkill"] \/ call'[c] = [call[c] EXCEPT !.at = "free"]
      BY <2>5, ZenonT(60) DEF TypeOK, Settle, Goes, Returns, Turn, Errand
    <3> QED BY <2>2, <2>5, <3>1 DEF Settle, CallRecords, Idle
  <2>6. CASE PkillVm(c) \/ RmModel(c) \/ FreePod(c) \/ Remove(c)
    BY <2>2, <2>6 DEF TypeOK, PkillVm, RmModel, FreePod, Remove, Goes, Returns, Turn, Idle, CallRecords
  <2> QED BY <2>1, <2>2, <2>3, <2>4, <2>5, <2>6 DEF CallStep
<1>3. CASE \E g \in Gateways : Crash(g)
  BY <1>3 DEF TypeOK, Crash, Idle
<1>4. CASE \E g \in Gateways : Select(g) \/ Inspect(g) \/ Reap(g) \/ Start(g)
  BY <1>4 DEF Select, Inspect, Reap, Start
<1> QED BY <1>1, <1>2, <1>3, <1>4 DEF Next

\* The janitor takes up rows that are running and are not its own tasks'.
LEMMA SweepFrame ==
  ASSUME TypeOK, Next, NEW g \in Gateways, sweep'[g] # sweep[g]
  PROVE  \/ sweep'[g] = Resting
         \/ g \in up /\ sweep'[g].b = sweep[g].b
         \/ /\ sweep[g] # Resting
            /\ \/ sweep'[g].b = None
               \/ /\ row[sweep'[g].b] = "running" /\ row' = row
                  /\ ~(home[sweep'[g].b] = g /\ Active(sweep'[g].b))
<1> USE DEF rowVars, runVars, machines, gates
<1>1. CASE \E v \in Benches : \/ \E h \in Gateways : Create(v, h)
                              \/ RunnerStep(v) \/ Raise(v)
                              \/ RentPod(v) \/ Ends(v) \/ SeePod(v) \/ RecordPod(v) \/ Age(v)
  BY <1>1 DEF Create, RunnerStep, Claim, Prepare, Reject, Spawn, Drained, WipeModel, Sync, Finish, LookAtRow, Fail,
              Unwind, Raise, Runs, RentPod, Ends, SeePod, RecordPod, Age
<1>2. CASE \E d \in Calls : \/ \E v \in Benches, h \in Gateways : Terminate(d, v, h) \/ Delete(d, v, h)
                            \/ CallStep(d)
  BY <1>2 DEF CallStep, Terminate, Delete, Cancel, Settle, PkillVm, RmModel, FreePod, Remove
<1>3. CASE \E h \in Gateways : Select(h)
  BY <1>3 DEF TypeOK, Select, SweepRecords
<1>4. CASE \E h \in Gateways : Inspect(h)
  BY <1>4 DEF TypeOK, Inspect, Resting
<1>5. CASE \E h \in Gateways : Reap(h)
  BY <1>5, BenchAssumption DEF TypeOK, Reap, Resting
<1>6. CASE \E h \in Gateways : Crash(h) \/ Start(h)
  BY <1>6 DEF TypeOK, Crash, Start
<1> QED BY <1>1, <1>2, <1>3, <1>4, <1>5, <1>6 DEF Next

-----------------------------------------------------------------------------
(* One gateway at a time.                                                  *)

\* Who is at work is at work on a gateway that runs.
AtWork == /\ \A b \in Benches : Active(b) => home[b] \in up
          /\ \A c \in Calls : call[c].at # "idle" => row[call[c].b] # "none" /\ call[c].gw \in up
          /\ \A g \in Gateways : sweep[g] # Resting => g \in up

Single == \A g, h \in up : g = h

\* A process that outlived its gateway is of a row that the next start fails:
\* no terminate gets at it.
Strays == \A b \in Benches : proc[b] = "up" /\ b \notin live =>
            /\ row[b] # "cancelled"
            /\ up = {} \/ row[b] \notin {"queued", "running"}
            /\ \A c \in Calls : call[c].at \in {"cancel", "settle"} => call[c].b # b

\* A run that is being settled, and one that has been, was told to stop and its
\* process is dead.
Stopped(b) == (b \in cancelled \/ ~Active(b)) /\ proc[b] # "up"
Stops == /\ \A c \in Calls : call[c].at = "settle" => Stopped(call[c].b)
         /\ \A b \in Benches : row[b] = "cancelled" => Stopped(b)

\* A task that was not told to stop has its row as it left it, or deleted.
Unfinished == \A b \in Benches : Active(b) /\ b \notin cancelled => row[b] \in {"queued", "running", "deleted"}

\* What the janitor has in hand has no task, and is not done.
Reaps == \A g \in Gateways :
           sweep[g].b # None => ~Active(sweep[g].b) /\ row[sweep[g].b] \notin {"none", "done"}

Alone == Single /\ Strays /\ Stops /\ Unfinished /\ Reaps
RunInv == PodInv /\ AtWork /\ (~mixed => Alone)

LEMMA RunInit == Init => RunInv
<1> SUFFICES ASSUME Init PROVE RunInv
  OBVIOUS
<1>1. PodInv
  BY PodInit
<1> QED BY <1>1 DEF PodInv, Init, RunInv, AtWork, Alone, Single, Strays, Stopped, Stops, Unfinished, Reaps, Active,
                    Idle, Resting

\* A gateway takes its tasks, handlers and janitor with it.
Downs(g) == /\ g \in up /\ up' = up \ {g} /\ UNCHANGED <<mixed, row, home>>
            /\ \A b \in Benches : Active(b)' => Active(b) /\ home[b] # g
            /\ \A c \in Calls : call'[c].at # "idle" => call'[c] = call[c] /\ call[c].gw # g
            /\ sweep' = [sweep EXCEPT ![g] = Resting]

LEMMA CrashFrame == ASSUME TypeOK, NEW g \in Gateways, Crash(g) PROVE Downs(g)
BY DEF TypeOK, Crash, Active, Idle, Downs, rowVars

\* Gateways come and go, one at a time.
LEMMA UpFrame ==
  ASSUME TypeOK, Next
  PROVE  \/ UNCHANGED <<up, mixed>>
         \/ \E g \in Gateways : Downs(g)
         \/ \E g \in Gateways : /\ Start(g) /\ up' = up \cup {g} /\ mixed' = (mixed \/ up # {})
                                /\ UNCHANGED <<runner, live, proc, call, sweep>>
                                /\ \A b \in Benches : row'[b] \notin {"queued", "running"}
<1> USE DEF rowVars, runVars, machines, gates
<1>1. CASE \E v \in Benches : \/ \E h \in Gateways : Create(v, h)
                              \/ RunnerStep(v) \/ Raise(v)
                              \/ RentPod(v) \/ Ends(v) \/ SeePod(v) \/ RecordPod(v) \/ Age(v)
  BY <1>1 DEF Create, RunnerStep, Claim, Prepare, Reject, Spawn, Drained, WipeModel, Sync, Finish, LookAtRow, Fail,
              Unwind, Raise, Runs, RentPod, Ends, SeePod, RecordPod, Age
<1>2. CASE \E d \in Calls : \/ \E v \in Benches, h \in Gateways : Terminate(d, v, h) \/ Delete(d, v, h)
                            \/ CallStep(d)
  BY <1>2, ZenonT(60) DEF CallStep, Terminate, Delete, Cancel, Settle, PkillVm, RmModel, FreePod, Remove
<1>3. CASE \E h \in Gateways : Select(h) \/ Inspect(h) \/ Reap(h)
  BY <1>3 DEF Select, Inspect, Reap
<1>4. CASE \E h \in Gateways : Crash(h)
  BY <1>4, CrashFrame
<1>5. CASE \E h \in Gateways : Start(h)
  BY <1>5 DEF TypeOK, Start
<1> QED BY <1>1, <1>2, <1>3, <1>4, <1>5 DEF Next

\* A row that is there does not become one that never was.
LEMMA RowsRemain ==
  ASSUME TypeOK, Next, NEW b \in Benches, row[b] # "none" PROVE row'[b] # "none"
BY RowFrame DEF Creates, TaskWrites, Settles, Removes, Sweeps, Restarts

LEMMA AtWorkStep == ASSUME RunInv, Next PROVE AtWork'
<1> USE DEF RunInv, PodInv
<1>1. ASSUME NEW b \in Benches, Active(b)' PROVE home'[b] \in up'
  BY <1>1, TaskFrame, UpFrame DEF AtWork, Downs
<1>2. ASSUME NEW c \in Calls, call'[c].at # "idle"
      PROVE  row'[call'[c].b] # "none" /\ call'[c].gw \in up'
  <2>1. call'[c].b \in Benches
    BY <1>2, TypeStep DEF TypeOK
  <2>2. row[call'[c].b] # "none" /\ call'[c].gw \in up
    BY <1>2, CallFrame DEF AtWork
  <2> QED BY <1>2, <2>1, <2>2, RowsRemain, UpFrame DEF Downs
<1>3. ASSUME NEW g \in Gateways, sweep'[g] # Resting PROVE g \in up'
  BY <1>3, SweepFrame, UpFrame DEF AtWork, Downs, TypeOK
<1> QED BY <1>1, <1>2, <1>3 DEF AtWork

LEMMA StraysStep == ASSUME RunInv, Next, ~mixed' PROVE Strays'
<1> USE DEF RunInv, PodInv, Alone
<1>0. ~mixed
  BY UpFrame DEF Downs
<1> SUFFICES ASSUME NEW b \in Benches, proc'[b] = "up", b \notin live'
             PROVE  /\ row'[b] # "cancelled"
                    /\ up' = {} \/ row'[b] \notin {"queued", "running"}
                    /\ \A c \in Calls : call'[c].at \in {"cancel", "settle"} => call'[c].b # b
  BY DEF Strays
<1>1. proc[b] = "up"
  BY ProcFrame
<1>2. CASE b \in live
  <2>1. PICK g \in Gateways : Downs(g)
    BY <1>2, ProcFrame, CrashFrame
  <2>2. up' = {}
    BY <1>0, <2>1 DEF Single, Downs
  <2>3. row[b] # "cancelled"
    BY <1>0, <1>1 DEF Stops, Stopped
  <2>4. \A c \in Calls : call'[c].at = "idle"
    BY <1>0, <2>1 DEF AtWork, Single, Downs
  <2> QED BY <2>1, <2>2, <2>3, <2>4 DEF Downs
<1>3. CASE b \notin live
  <2>1. /\ row[b] # "cancelled" /\ ~Active(b) /\ row[b] # "none"
        /\ up = {} \/ row[b] \notin {"queued", "running"}
        /\ \A c \in Calls : call[c].at \in {"cancel", "settle"} => call[c].b # b
    BY <1>0, <1>1, <1>3 DEF Strays, Lives, Fresh
  <2>2. row'[b] = row[b] \/ row'[b] \in {"deleted", "failed"}
    BY <2>1, RowFrame DEF Creates, TaskWrites, Settles, Removes, Sweeps, Restarts
  <2>3. up' = {} \/ row'[b] \notin {"queued", "running"}
    BY <2>1, <2>2, UpFrame DEF Downs
  <2>4. \A c \in Calls : call'[c].at \in {"cancel", "settle"} => call'[c].b # b
    BY <2>1, CallFrame
  <2> QED BY <2>1, <2>2, <2>3, <2>4
<1> QED BY <1>2, <1>3

\* A run that has been stopped is not started again.
LEMMA StoppedStays ==
  ASSUME RunInv, Next, NEW b \in Benches, row[b] # "none", Stopped(b) PROVE Stopped(b)'
BY TaskFrame, ProcFrame DEF RunInv, PodInv, Stopped

\* A terminate on the only gateway stops the run.
LEMMA CancelStops ==
  ASSUME RunInv, ~mixed, NEW c \in Calls, NEW b \in Benches, call[c].b = b, Cancel(c) PROVE Stopped(b)'
<1>1. /\ call[c].gw \in up /\ UNCHANGED runner
      /\ cancelled' = IF home[b] = call[c].gw /\ Active(b) THEN cancelled \cup {b} ELSE cancelled
      /\ KillLive(call[c].gw, b)
      /\ call[c].at = "cancel"
  BY DEF RunInv, PodInv, AtWork, Cancel, Goes, Turn
<1>2. proc'[b] # "up" \/ (proc[b] = "up" /\ ~Holds(call[c].gw, b))
  BY <1>1 DEF RunInv, PodInv, TypeOK, KillLive, Dies
<1>3. proc[b] = "up" => b \in live
  BY <1>1 DEF RunInv, Alone, Strays
<1>4. b \in live => Active(b)
  BY DEF RunInv, PodInv, Lives, Active
<1>5. Active(b) => home[b] = call[c].gw
  BY <1>1 DEF RunInv, Alone, Single, AtWork
<1>6. b \in cancelled' \/ ~Active(b)'
  BY <1>1, <1>5 DEF Active
<1> QED BY <1>2, <1>3, <1>4, <1>5, <1>6 DEF Stopped, Holds

LEMMA StopsStep == ASSUME RunInv, Next, ~mixed' PROVE Stops'
<1> USE DEF RunInv, PodInv, Alone
<1>0. ~mixed
  BY UpFrame DEF Downs
<1>1. ASSUME NEW c \in Calls, NEW b \in Benches, call[c].at = "settle", call[c].b = b PROVE Stopped(b)'
  <2>1. row[b] # "none" /\ Stopped(b)
    BY <1>0, <1>1 DEF AtWork, Stops
  <2> QED BY <2>1, StoppedStays
<1>2. ASSUME NEW c \in Calls, call'[c].at = "settle" PROVE Stopped(call[c].b)'
  <2>1. PICK b \in Benches : call'[c].b = b
    BY <1>2, TypeStep DEF TypeOK
  <2>2. Stopped(b)'
    BY <1>0, <1>1, <1>2, <2>1, CallFrame, CancelStops
  <2> QED BY <2>1, <2>2 DEF Stopped, Active
<1>3. ASSUME NEW b \in Benches, row'[b] = "cancelled" PROVE Stopped(b)'
  <2>1. CASE row[b] = "cancelled"
    BY <1>0, <2>1, StoppedStays DEF Stops
  <2>2. CASE Settles(b)
    BY <1>1, <2>2 DEF Settles
  <2> QED BY <1>3, <2>1, <2>2, RowFrame DEF Creates, TaskWrites, Removes, Sweeps, Restarts
<1> QED BY <1>2, <1>3 DEF Stops

LEMMA UnfinishedStep == ASSUME RunInv, Next, ~mixed' PROVE Unfinished'
<1> USE DEF RunInv, PodInv, Alone
<1>0. ~mixed
  BY UpFrame DEF Downs
<1> SUFFICES ASSUME NEW b \in Benches, Active(b)', b \notin cancelled'
             PROVE  row'[b] \in {"queued", "running", "deleted"}
  BY DEF Unfinished
<1>1. CASE row[b] = "none"
  BY <1>1, TaskFrame DEF Fresh, Active
<1>2. CASE row[b] # "none"
  <2>1. Active(b) /\ b \notin cancelled
    BY <1>2, TaskFrame
  <2>2. row[b] \in {"queued", "running", "deleted"}
    BY <1>0, <2>1 DEF Unfinished
  <2>3. ~Settles(b)
    BY <1>0, <2>1 DEF Settles, Stops, Stopped
  <2>4. ~Sweeps(b)
    BY <1>0, <2>1, BenchAssumption DEF Sweeps, Reaps
  <2>5. ~Restarts(b)
    BY <2>1 DEF Restarts, Start, AtWork, gates
  <2> QED BY <1>2, <2>2, <2>3, <2>4, <2>5, RowFrame DEF Creates, TaskWrites, Removes
<1> QED BY <1>1, <1>2

LEMMA ReapsStep == ASSUME RunInv, Next, ~mixed' PROVE Reaps'
<1> USE DEF RunInv, PodInv, Alone
<1>0. ~mixed
  BY UpFrame DEF Downs
<1> SUFFICES ASSUME NEW g \in Gateways, NEW b \in Benches, sweep'[g].b = b
             PROVE  ~Active(b)' /\ row'[b] \notin {"none", "done"}
  BY TypeStep DEF Reaps, TypeOK
<1>1. ~Active(b) /\ row[b] \notin {"none", "done"}
  <2>1. CASE sweep[g].b = b
    BY <1>0, <2>1, BenchAssumption DEF Reaps
  <2>2. CASE sweep[g].b # b
    <3>1. sweep[g] # Resting /\ row[b] = "running" /\ ~(home[b] = g /\ Active(b))
      <4>1. sweep'[g] # sweep[g] /\ b # None
        BY <2>2, BenchAssumption
      <4>2. sweep'[g] # Resting
        BY <4>1 DEF Resting
      <4> QED BY <2>2, <4>1, <4>2, SweepFrame
    <3> QED BY <1>0, <3>1 DEF AtWork, Single
  <2> QED BY <2>1, <2>2
<1> QED BY <1>1, TaskFrame, RowFrame DEF Creates, TaskWrites, Settles, Removes, Sweeps, Restarts

LEMMA RunStep == ASSUME RunInv, [Next]_vars PROVE RunInv'
<1>1. CASE Next
  <2>1. PodInv'
    BY PodStep DEF RunInv
  <2>2. Single' \/ mixed'
    BY <1>1, UpFrame DEF RunInv, PodInv, Alone, Single, Downs
  <2> QED BY <1>1, <2>1, <2>2, AtWorkStep, StraysStep, StopsStep, UnfinishedStep, ReapsStep DEF RunInv, Alone
<1>2. CASE UNCHANGED vars
  BY <1>2, PodStep DEF RunInv, AtWork, Alone, Single, Strays, Stopped, Stops, Unfinished, Reaps, Active,
                        vars, rowVars, runVars, machines, gates
<1> QED BY <1>1, <1>2

\* As long as one gateway runs at a time, the process of a cancelled run is
\* dead, wherever its task was when the terminate came, and stays so.
THEOREM TheCancelledAreDead == Spec => []CancelledRunsAreDead
<1>1. RunInv => CancelledRunsAreDead
  BY DEF RunInv, Alone, Stops, Stopped, CancelledRunsAreDead
<1> QED BY <1>1, RunInit, RunStep, PTL DEF Spec

\* As long as one gateway runs at a time, no task, janitor or start that comes
\* late reopens a run that is settled, or takes back its result.
THEOREM TheSettledStay == Spec => SettledRowsStay
<1> DEFINE Stay == ~mixed' => \A b \in Benches : row[b] \in Settled =>
                     /\ row'[b] \in Settled \cup {"deleted"}
                     /\ row[b] = "done" => row'[b] # "failed"
                     /\ row'[b] = "done" => row[b] = "done"
<1>1. ASSUME RunInv, Next PROVE Stay
  <2> SUFFICES ASSUME ~mixed', NEW b \in Benches, row[b] \in Settled
               PROVE  /\ row'[b] \in Settled \cup {"deleted"}
                      /\ row[b] = "done" => row'[b] # "failed"
                      /\ row'[b] = "done" => row[b] = "done"
    OBVIOUS
  <2>0. TypeOK
    BY <1>1 DEF RunInv, PodInv
  <2>1. ~mixed
    BY <1>1, <2>0, UpFrame DEF Downs
  <2>2. ~TaskWrites(b)
    BY <1>1, <2>1 DEF RunInv, Alone, Unfinished, TaskWrites, Settled
  <2>3. Sweeps(b) => row[b] # "done"
    BY <1>1, <2>1, BenchAssumption DEF RunInv, Alone, Reaps, Sweeps
  <2> QED BY <1>1, <2>0, <2>2, <2>3, RowFrame DEF Creates, Settles, Removes, Sweeps, Restarts, Settled
<1>2. RunInv /\ [Next]_vars => [Stay]_vars
  BY <1>1
<1> QED BY <1>2, RunInit, RunStep, PTL DEF Spec, SettledRowsStay

=============================================================================
