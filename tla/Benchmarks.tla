----------------------------- MODULE Benchmarks -----------------------------
(***************************************************************************)
(* Benchmark runs (gateway/gateway/bench.py): a task of the gateway drives *)
(* a benchmaq subprocess, which rents a pod or works on a registered VM;   *)
(* terminate and delete, the janitor and the clean-up of a gateway that    *)
(* starts all write the same row and stop the same process.                *)
(*                                                                         *)
(* One step is what happens between two awaits.  A get and the commit that *)
(* follows are one step where the write does not depend on what was read.  *)
(* Cancelling a task takes effect at its next await: the step it was about *)
(* to take is replaced by Unwind.                                          *)
(***************************************************************************)
EXTENDS Integers, FiniteSets

CONSTANTS
  Benches,    \* benchmark ids, used once
  Gateways,   \* replicas
  Calls,      \* terminate and delete handlers that may be at work at a time
  Faults,     \* what may go wrong: "db", "provider", "spawn", "s3", "refuse", "crash"
  MaxStarts,  \* how often a gateway may start
  None

ASSUME BenchAssumption ==
  /\ IsFiniteSet(Benches)
  /\ MaxStarts \in Nat
  /\ None \notin Benches \cup Gateways

VARIABLES
  row,        \* status of the row; "none" before POST, "deleted" after DELETE
  onVm,       \* rows of runs on a registered VM, the same one
  recorded,   \* rows that name their pod
  runner,     \* where run_benchmark and _safe_run are
  home,       \* the gateway of the run: whose _active_runners and _LIVE hold it
  cancelled,  \* tasks told to cancel
  live,       \* _LIVE
  proc,       \* the subprocess: not there, at work, ended well or badly
  pod,        \* the pod benchmaq rents
  capture,    \* _capture_runpod_cost
  old,        \* rows started more than _JANITOR_STALL_SECONDS ago
  call,       \* a terminate with its clean-up, or a delete
  sweep,      \* a janitor: the rows it has selected, the one it reaps
  up,         \* gateways that run
  starts,     \* history: starts so far
  mixed,      \* history: two gateways have run at the same time
  excused     \* history: runs whose pod nobody was to return

rowVars == <<row, onVm, recorded, old>>
runVars == <<runner, home, cancelled, live, capture>>
machines == <<proc, pod>>
gates == <<up, starts, mixed>>
vars == <<rowVars, runVars, machines, call, sweep, gates, excused>>

Settled == {"done", "failed", "cancelled"}
Exists(b) == row[b] \notin {"none", "deleted"}
Active(b) == runner[b] \notin {"none", "over"}

Idle == [at |-> "idle", gw |-> None, b |-> None, pod |-> FALSE]
Resting == [left |-> {}, b |-> None]

Init ==
  /\ row = [b \in Benches |-> "none"] /\ onVm = {} /\ recorded = {} /\ old = {}
  /\ runner = [b \in Benches |-> "none"] /\ home = [b \in Benches |-> None]
  /\ cancelled = {} /\ live = {} /\ capture = [b \in Benches |-> "none"]
  /\ proc = [b \in Benches |-> "none"] /\ pod = [b \in Benches |-> "none"]
  /\ call = [c \in Calls |-> Idle]
  /\ sweep = [g \in Gateways |-> Resting]
  /\ up = {} /\ starts = 0 /\ mixed = FALSE /\ excused = {}

\* SIGKILL, or an end of its own: a process at work is one no more.
Dies(b) == proc' = [proc EXCEPT ![b] = IF @ = "up" THEN "bad" ELSE @]

-----------------------------------------------------------------------------
(* The run.                                                                *)

\* The row is committed and the task is registered, with nothing in between.
Create(b, g) ==
  /\ g \in up /\ row[b] = "none"
  /\ row' = [row EXCEPT ![b] = "queued"]
  /\ onVm' \in {onVm, onVm \cup {b}}
  /\ runner' = [runner EXCEPT ![b] = "claim"]
  /\ home' = [home EXCEPT ![b] = g]
  /\ UNCHANGED <<recorded, old, cancelled, live, capture, machines, call, sweep, gates, excused>>

\* The task takes the step at this stage, unless it was cancelled.
Runs(b, from, to) ==
  /\ runner[b] = from /\ b \notin cancelled
  /\ runner' = [runner EXCEPT ![b] = to]
  /\ UNCHANGED <<home, cancelled, capture, pod, call, sweep, gates, excused>>

\* A row that is still there gets the status, whatever it says.
Writes(b, status) ==
  /\ row' = [row EXCEPT ![b] = IF Exists(b) THEN status ELSE @]
  /\ UNCHANGED <<onVm, recorded>>

Claim(b) ==
  /\ Runs(b, "claim", IF Exists(b) THEN "prepare" ELSE "over")
  /\ Writes(b, "running") /\ old' = old \ {b}
  /\ UNCHANGED <<live, proc>>

\* The provider, its key or the account's credentials are looked up.
Prepare(b) ==
  /\ \/ Runs(b, "prepare", "spawn")
     \/ "provider" \in Faults /\ Runs(b, "prepare", "reject")
  /\ UNCHANGED <<rowVars, live, proc>>

Reject(b) ==
  /\ Runs(b, "reject", "over")
  /\ Writes(b, "failed")
  /\ UNCHANGED <<old, live, proc>>

\* Mutant: the start of the process is shielded from the cancel.
SpawnShielded(b) ==
  /\ runner[b] = "spawn" /\ runner' = [runner EXCEPT ![b] = "drain"]
  /\ proc' = [proc EXCEPT ![b] = "up"]
  /\ live' = live \cup {b}
  /\ UNCHANGED <<rowVars, home, cancelled, capture, pod, call, sweep, gates, excused>>

Spawn(b) ==
  /\ Runs(b, "spawn", "drain")
  /\ proc' = [proc EXCEPT ![b] = "up"]
  /\ live' = live \cup {b}
  /\ UNCHANGED rowVars

\* Both pipes are at their end: every line that was printed has been read.
Drained(b) ==
  /\ proc[b] # "up"
  /\ proc[b] = "ok" /\ pod[b] # "none" => capture[b] # "none"
  /\ Runs(b, "drain", IF b \in onVm THEN "wipe" ELSE "sync")
  /\ live' = live \ {b}
  /\ UNCHANGED <<rowVars, proc>>

\* rm -rf of the model on the VM: runs there that use the same may fail of it.
Wipe(b) == \E hit \in SUBSET {v \in onVm : proc[v] = "up"} :
             proc' = [v \in Benches |-> IF v \in hit THEN "bad" ELSE proc[v]]

WipeModel(b) ==
  /\ Runs(b, "wipe", "sync")
  /\ Wipe(b)
  /\ UNCHANGED <<rowVars, live>>

Sync(b) ==
  /\ Runs(b, "sync", "finish")
  /\ UNCHANGED <<rowVars, live, proc>>

Finish(b) ==
  /\ Runs(b, "finish", "over")
  /\ Writes(b, IF proc[b] = "ok" THEN "done" ELSE "failed")
  /\ UNCHANGED <<old, live, proc>>

\* An exception on the way: _safe_run looks at the row.
Raise(b) ==
  /\ \/ "db" \in Faults /\ \E at \in {"claim", "reject", "finish"} : Runs(b, at, "crashed")
     \/ "spawn" \in Faults /\ Runs(b, "spawn", "crashed")
     \/ "s3" \in Faults /\ Runs(b, "sync", "crashed")
  /\ UNCHANGED <<rowVars, live, proc>>

LookAtRow(b) ==
  /\ \/ Runs(b, "crashed", IF row[b] \in {"queued", "running"} THEN "fail" ELSE "over")
     \/ "db" \in Faults /\ Runs(b, "crashed", "over")
  /\ UNCHANGED <<rowVars, live, proc>>

Fail(b) ==
  /\ Runs(b, "fail", "over")
  /\ Writes(b, "failed")
  /\ UNCHANGED <<old, live, proc>>

\* CancelledError where the task was waiting; the subprocess is killed, and
\* one that was about to be started is not.
Unwind(b) ==
  /\ b \in cancelled /\ Active(b)
  /\ runner' = [runner EXCEPT ![b] = "over"]
  /\ live' = live \ {b}
  /\ Dies(b)
  /\ UNCHANGED <<rowVars, home, cancelled, capture, pod, call, sweep, gates, excused>>

RunnerStep(b) ==
  \/ Claim(b) \/ Prepare(b) \/ Reject(b) \/ Spawn(b) \/ Drained(b) \/ WipeModel(b)
  \/ Sync(b) \/ Finish(b) \/ LookAtRow(b) \/ Fail(b) \/ Unwind(b)

-----------------------------------------------------------------------------
(* benchmaq, and what it prints.                                           *)

RentPod(b) ==
  /\ proc[b] = "up" /\ b \notin onVm /\ pod[b] = "none"
  /\ pod' = [pod EXCEPT ![b] = "up"]
  /\ UNCHANGED <<rowVars, runVars, proc, call, sweep, gates, excused>>

\* It ends by itself, and returns its pod first.
Ends(b) ==
  /\ proc[b] = "up"
  /\ \E result \in {"ok", "bad"} : proc' = [proc EXCEPT ![b] = result]
  /\ pod' = [pod EXCEPT ![b] = IF @ = "up" THEN "gone" ELSE @]
  /\ UNCHANGED <<rowVars, runVars, call, sweep, gates, excused>>

\* "Pod created" is read for the first time.
SeePod(b) ==
  /\ runner[b] = "drain" /\ b \notin cancelled
  /\ pod[b] # "none" /\ capture[b] = "none"
  /\ capture' = [capture EXCEPT ![b] = "ask"]
  /\ UNCHANGED <<rowVars, runner, home, cancelled, live, machines, call, sweep, gates, excused>>

\* A task of its own, which nobody cancels, writes the pod's id to the row.
RecordPod(b) ==
  /\ capture[b] = "ask"
  /\ capture' = [capture EXCEPT ![b] = "over"]
  /\ \/ recorded' = IF Exists(b) THEN recorded \cup {b} ELSE recorded
     \/ "db" \in Faults /\ UNCHANGED recorded
  /\ UNCHANGED <<row, onVm, old, runner, home, cancelled, live, machines, call, sweep, gates, excused>>

-----------------------------------------------------------------------------
(* POST /benchmarks/{id}/terminate and DELETE /benchmarks/{id}.            *)

\* The handler's gateway holds the run's subprocess.
Holds(g, b) == home[b] = g /\ b \in live

\* Kill what _LIVE of this gateway has of the run.
KillLive(g, b) ==
  IF Holds(g, b) THEN live' = live \ {b} /\ Dies(b) ELSE UNCHANGED <<live, proc>>

Turn(c, from, r) == call[c].at = from /\ call' = [call EXCEPT ![c] = r]
Goes(c, from, to) == Turn(c, from, [call[c] EXCEPT !.at = to])

\* The row is read: a settled one is a 409.
Terminate(c, b, g) ==
  /\ g \in up /\ row[b] \in {"queued", "running"}
  /\ Turn(c, "idle", [at |-> "cancel", gw |-> g, b |-> b, pod |-> b \in recorded])
  /\ UNCHANGED <<rowVars, runVars, machines, sweep, gates, excused>>

\* Mutant: the handler loses its locals.
CancelAndForget(c) ==
  LET b == call[c].b IN
  /\ Turn(c, "cancel", [Idle EXCEPT !.at = "settle"])
  /\ cancelled' = IF home[b] = call[c].gw /\ Active(b) THEN cancelled \cup {b} ELSE cancelled
  /\ KillLive(call[c].gw, b)
  /\ UNCHANGED <<rowVars, runner, home, capture, pod, sweep, gates, excused>>

Cancel(c) ==
  LET b == call[c].b IN
  /\ Goes(c, "cancel", "settle")
  /\ cancelled' = IF home[b] = call[c].gw /\ Active(b) THEN cancelled \cup {b} ELSE cancelled
  /\ KillLive(call[c].gw, b)
  /\ UNCHANGED <<rowVars, runner, home, capture, pod, sweep, gates, excused>>

\* What is left to clean up: nothing that the row did not name when it was read.
Errand(c) == IF call[c].b \in onVm THEN "pkill" ELSE IF call[c].pod THEN "free" ELSE "idle"
Returns(c, from) == Turn(c, from, Idle)

\* Mutant: runs on a VM alone are cleaned up after.
SettleVmsOnly(c) ==
  LET b == call[c].b IN
  /\ call[c].at = "settle" /\ Exists(b)
  /\ IF b \in onVm THEN Goes(c, "settle", "pkill") ELSE Returns(c, "settle")
  /\ row' = [row EXCEPT ![b] = "cancelled"]
  /\ excused' = IF call[c].pod THEN excused ELSE excused \cup {b}
  /\ UNCHANGED <<onVm, recorded, old, runVars, machines, sweep, gates>>

\* If the commit fails, as it does on a row that was deleted meanwhile, there
\* is no clean-up.
Settle(c) ==
  LET b == call[c].b IN
  /\ call[c].at = "settle"
  /\ \/ /\ Exists(b)
        /\ IF Errand(c) = "idle" THEN Returns(c, "settle") ELSE Goes(c, "settle", Errand(c))
        /\ row' = [row EXCEPT ![b] = "cancelled"]
        /\ excused' = IF call[c].pod THEN excused ELSE excused \cup {b}
     \/ /\ ~Exists(b) \/ "db" \in Faults
        /\ Returns(c, "settle")
        /\ excused' = excused \cup {b}
        /\ UNCHANGED row
  /\ UNCHANGED <<onVm, recorded, old, runVars, machines, sweep, gates>>

\* pkill on the VM finds the processes of every run there; then the model goes.
PkillVm(c) ==
  /\ \/ Goes(c, "pkill", "rm") /\ Wipe(call[c].b)
     \/ "provider" \in Faults /\ Returns(c, "pkill") /\ UNCHANGED proc
  /\ UNCHANGED <<rowVars, runVars, pod, sweep, gates, excused>>

RmModel(c) ==
  /\ Returns(c, "rm")
  /\ Wipe(call[c].b)
  /\ UNCHANGED <<rowVars, runVars, pod, sweep, gates, excused>>

FreePod(c) ==
  LET b == call[c].b IN
  /\ Returns(c, "free")
  /\ \/ /\ pod' = [pod EXCEPT ![b] = IF @ = "up" THEN "gone" ELSE @]
        /\ UNCHANGED excused
     \/ /\ "refuse" \in Faults
        /\ excused' = excused \cup {b}
        /\ UNCHANGED pod
  /\ UNCHANGED <<rowVars, runVars, proc, sweep, gates>>

\* The task is not cancelled, and no pod is returned.
Delete(c, b, g) ==
  /\ g \in up /\ Exists(b)
  /\ Turn(c, "idle", [at |-> "remove", gw |-> g, b |-> b, pod |-> FALSE])
  /\ KillLive(g, b)
  /\ UNCHANGED <<rowVars, runner, home, cancelled, capture, pod, sweep, gates, excused>>

Remove(c) ==
  LET b == call[c].b IN
  /\ Returns(c, "remove")
  /\ \/ row' = [row EXCEPT ![b] = "deleted"]
     \/ "db" \in Faults /\ UNCHANGED row
  /\ excused' = excused \cup {b}
  /\ UNCHANGED <<onVm, recorded, old, runVars, machines, sweep, gates>>

CallStep(c) == Cancel(c) \/ Settle(c) \/ PkillVm(c) \/ RmModel(c) \/ FreePod(c) \/ Remove(c)

-----------------------------------------------------------------------------
(* The janitor, and gateways that stop and start.                          *)

Select(g) ==
  /\ g \in up /\ sweep[g] = Resting
  /\ LET stuck == {b \in old : row[b] = "running"} IN
     stuck # {} /\ sweep' = [sweep EXCEPT ![g].left = stuck]
  /\ UNCHANGED <<rowVars, runVars, machines, call, gates, excused>>

\* Mutant: the status is not looked at again.
InspectTasks(g) ==
  /\ sweep[g].b = None
  /\ \E b \in sweep[g].left :
       LET spare == home[b] = g /\ Active(b) IN
       sweep' = [sweep EXCEPT ![g] = [left |-> @.left \ {b}, b |-> IF spare THEN None ELSE b]]
  /\ UNCHANGED <<rowVars, runVars, machines, call, gates, excused>>

\* Mutant: a task that is over stays registered.
InspectForever(g) ==
  /\ sweep[g].b = None
  /\ \E b \in sweep[g].left :
       LET spare == home[b] = g \/ row[b] # "running" IN
       sweep' = [sweep EXCEPT ![g] = [left |-> @.left \ {b}, b |-> IF spare THEN None ELSE b]]
  /\ UNCHANGED <<rowVars, runVars, machines, call, gates, excused>>

\* A task of this process is left alone, and a row that is not running any more.
Inspect(g) ==
  /\ sweep[g].b = None
  /\ \E b \in sweep[g].left :
       LET spare == (home[b] = g /\ Active(b)) \/ row[b] # "running" IN
       sweep' = [sweep EXCEPT ![g] = [left |-> @.left \ {b}, b |-> IF spare THEN None ELSE b]]
  /\ UNCHANGED <<rowVars, runVars, machines, call, gates, excused>>

\* If the row is gone the commit raises and the sweep is over.
Reap(g) ==
  LET b == sweep[g].b IN
  /\ b # None
  /\ Writes(b, "failed")
  /\ sweep' = [sweep EXCEPT ![g] = IF Exists(b) THEN [@ EXCEPT !.b = None] ELSE Resting]
  /\ UNCHANGED <<old, runVars, machines, call, gates, excused>>

Age(b) ==
  /\ row[b] = "running" /\ b \notin old
  /\ old' = old \cup {b}
  /\ UNCHANGED <<row, onVm, recorded, runVars, machines, call, sweep, gates, excused>>

\* Every task of the process is gone; its subprocesses die with it or go on.
Crash(g) ==
  LET here == {b \in Benches : home[b] = g}
      own  == {b \in Benches : \E c \in Calls : call[c].gw = g /\ call[c].b = b} IN
  /\ "crash" \in Faults /\ g \in up /\ starts < MaxStarts
  /\ up' = up \ {g}
  /\ runner' = [b \in Benches |-> IF b \in here /\ Active(b) THEN "over" ELSE runner[b]]
  /\ capture' = [b \in Benches |-> IF b \in here /\ capture[b] = "ask" THEN "over" ELSE capture[b]]
  /\ live' = live \ here
  /\ \E dead \in {{}, here} :
       proc' = [b \in Benches |-> IF b \in dead /\ proc[b] = "up" THEN "bad" ELSE proc[b]]
  /\ call' = [c \in Calls |-> IF call[c].gw = g THEN Idle ELSE call[c]]
  /\ sweep' = [sweep EXCEPT ![g] = Resting]
  /\ excused' = excused \cup here \cup own
  /\ UNCHANGED <<rowVars, home, cancelled, pod, starts, mixed>>

\* cleanup_orphaned_running takes every unfinished row for a dead process's.
Start(g) ==
  /\ g \notin up /\ starts < MaxStarts
  /\ up' = up \cup {g} /\ starts' = starts + 1
  /\ mixed' = (mixed \/ up # {})
  /\ row' = [b \in Benches |-> IF row[b] \in {"queued", "running"} THEN "failed" ELSE row[b]]
  /\ UNCHANGED <<onVm, recorded, old, runVars, machines, call, sweep, excused>>

-----------------------------------------------------------------------------
Next ==
  \/ \E b \in Benches : \/ \E g \in Gateways : Create(b, g)
                        \/ RunnerStep(b) \/ Raise(b)
                        \/ RentPod(b) \/ Ends(b) \/ SeePod(b) \/ RecordPod(b) \/ Age(b)
  \/ \E c \in Calls : \/ \E b \in Benches, g \in Gateways : Terminate(c, b, g) \/ Delete(c, b, g)
                      \/ CallStep(c)
  \/ \E g \in Gateways : Select(g) \/ Inspect(g) \/ Reap(g) \/ Crash(g) \/ Start(g)

Spec == Init /\ [][Next]_vars

\* Time passes, the janitor sweeps every minute, and a gateway that went down
\* is replaced.  Nothing is asked of runs, handlers or benchmaq.
Fairness ==
  /\ \A b \in Benches : WF_vars(Age(b))
  /\ \A g \in Gateways : WF_vars(Select(g) \/ Inspect(g) \/ Reap(g))
  /\ WF_vars(\E g \in Gateways : Start(g))

FairSpec == Spec /\ Fairness

-----------------------------------------------------------------------------
Stages == {"none", "claim", "prepare", "reject", "spawn", "drain", "wipe", "sync", "finish",
           "crashed", "fail", "over"}

\* Every variable holds values of its kind; who works on a run has one in hand.
TypeOK ==
  /\ row \in [Benches -> {"none", "queued", "running", "deleted"} \cup Settled]
  /\ onVm \subseteq Benches /\ recorded \subseteq Benches /\ old \subseteq Benches
  /\ runner \in [Benches -> Stages]
  /\ home \in [Benches -> Gateways \cup {None}]
  /\ cancelled \subseteq Benches /\ live \subseteq Benches
  /\ proc \in [Benches -> {"none", "up", "ok", "bad"}]
  /\ pod \in [Benches -> {"none", "up", "gone"}]
  /\ capture \in [Benches -> {"none", "ask", "over"}]
  /\ call \in [Calls -> [at : {"idle", "cancel", "settle", "pkill", "rm", "free", "remove"},
                         gw : Gateways \cup {None}, b : Benches \cup {None}, pod : BOOLEAN]]
  /\ \A c \in Calls : call[c].at # "idle" => call[c].b \in Benches /\ call[c].gw \in Gateways
  /\ sweep \in [Gateways -> [left : SUBSET Benches, b : Benches \cup {None}]]
  /\ up \subseteq Gateways /\ starts \in 0..MaxStarts /\ mixed \in BOOLEAN /\ excused \subseteq Benches

\* As long as one gateway runs at a time, a settled row stays settled or is deleted: no runner that
\* was about to write brings a cancelled, reaped or orphaned run back, and a
\* result, once there, is only taken back by a terminate that came before it.
SettledRowsStay ==
  [][~mixed' => \A b \in Benches : row[b] \in Settled =>
       /\ row'[b] \in Settled \cup {"deleted"}
       /\ row[b] = "done" => row'[b] # "failed"
       /\ row'[b] = "done" => row[b] = "done"]_vars

\* As long as one gateway runs at a time, the subprocess of a cancelled run is dead, wherever its
\* task was when it was cancelled.
CancelledRunsAreDead ==
  ~mixed => \A b \in Benches : row[b] = "cancelled" => proc[b] # "up"

\* Someone is at work who has killed the process and knows of the pod.
Handled(b) == \E c \in Calls : /\ call[c].b = b
                               /\ call[c].at \in {"settle", "free", "remove"}

\* A pod whose benchmaq was killed is being returned, unless the row did not
\* name it when a terminate read it, a delete killed it, the provider refused,
\* the terminate's commit failed or the gateway crashed.
NoPodIsForgotten ==
  \A b \in Benches : pod[b] = "up" /\ proc[b] # "up" => b \in excused \/ Handled(b)

\* A row that says running though no task works on it does not say so for ever.
OrphansAreReaped ==
  \A b \in Benches : row[b] = "running" /\ ~Active(b) ~> row[b] # "running"

=============================================================================
