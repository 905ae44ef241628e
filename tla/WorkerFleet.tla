----------------------------- MODULE WorkerFleet -----------------------------
(***************************************************************************)
(* The fleet of worker machines of the deployed apps: the autoscaler tick  *)
(* (gateway/autoscaler.py), the reconciler tick (reconciler.py), the admin *)
(* handlers that create, restart and delete an app and the handlers that   *)
(* register a worker and take its heartbeat (main.py), and the agent that  *)
(* calls those (worker_agent/main.py), over the keys they share in Redis   *)
(* and the cloud behind the Provider interface (provider.py).              *)
(*                                                                         *)
(* Everything between two awaits is one step.  Clocks are steps that may   *)
(* be taken whenever they run; what needs a machine, the network or the    *)
(* gateway to misbehave is taken only if Faults has it:                    *)
(*   fail    a call of the provider raises                                 *)
(*   lost    a pod is created or a call taken, but its answer is lost      *)
(*   silent  terminate finds no pod id and returns although the pod runs   *)
(*   late    a key with a TTL expires under a machine that is well         *)
(*   vanish  a pod disappears                                              *)
(*   crash   the gateway dies in the middle of a tick or a handler         *)
(***************************************************************************)
EXTENDS Integers, FiniteSets

CONSTANTS Apps,        \* names of apps
          Machines,    \* bound: the machine ids in use at a time
          owner,       \* the app each of those ids is minted for
          Scalers,     \* autoscaler loops: one per gateway replica
          Reconciler,  \* the reconciler loop
          Actors,      \* the loops that run, and the apps' admin handlers
          Deployed,    \* the apps whose row exists at the start
          Config,      \* an app's [max, tasks, warm]: warm is idle_timeout_s = 0
          Requests,    \* the admin requests made: "create", "restart", "delete"
          Filtering,   \* does list_machines_for_app filter by app?
          MaxQueue,    \* bound: length of a job queue
          Faults,      \* what may go wrong
          None

ASSUME FleetAssumption ==
  /\ Actors \subseteq Scalers \cup Apps \cup {Reconciler}
  /\ Reconciler \notin Scalers \cup Apps /\ Scalers \cap Apps = {}
  /\ None \notin Apps \cup Machines /\ IsFiniteSet(Machines)
  /\ owner \in [Machines -> Apps]
  /\ Deployed \subseteq Apps
  /\ Config \in [Apps -> [max : Nat, tasks : Nat, warm : BOOLEAN]]
  /\ MaxQueue \in Nat
  /\ Filtering \in BOOLEAN

VARIABLES row,       \* apps whose row is committed
          qlen,      \* LLEN queue:{app}
          recent,    \* apps whose last_request_ts is within idle_timeout_s
          cooldown,  \* apps with provision_cooldown_until ahead
          index,     \* worker_index:{app}
          key,       \* worker:{mid}
          token,     \* machines with a register_token:{mid}
          drain,     \* machines with a worker:{mid}:drain
          cloud,     \* pods that run
          agent,     \* the agent on a machine
          call,      \* the agent's request in progress at the gateway
          busy,      \* agents with a job in hand
          act,       \* what each loop or handler is doing
          strays,    \* history: pods that were, once, neither tracked nor in hand
          latecomers \* history: pods made when their app's delete had listed them

redisVars == <<qlen, recent, cooldown, index, key, token, drain>>
podVars == <<cloud, agent, call, busy>>
vars == <<row, redisVars, podVars, act, strays, latecomers>>

\* The stages at which an actor has a new machine in hand.
Spawning == {"clear", "token", "index", "key"}
Stages == Spawning \cup
  {"idle", "app", "list", "probe", "prune", "provision", "terminate", "unkey", "unindex",
   "cool", "rollback", "uncool", "drain", "forget", "commit", "scan", "gc", "gcdrain",
   "gcindex"}

\* Where an actor stands, for which request; its app and machine in hand; what
\* it has still to loop over; what it has gathered; the apps it has still to
\* visit; the queue length it sampled; how many machines it has still to add.
Idle == [at |-> "idle", for |-> "tick", app |-> None, m |-> None, left |-> {}, got |-> {},
         todo |-> {}, q |-> 0, n |-> 0]

Init ==
  /\ row = Deployed
  /\ qlen = [a \in Apps |-> 0]
  /\ recent = {}
  /\ cooldown = {}
  /\ index = [a \in Apps |-> {}]
  /\ key = [m \in Machines |-> "none"]
  /\ token = {}
  /\ drain = {}
  /\ cloud = {}
  /\ agent = [m \in Machines |-> "boot"]
  /\ call = [m \in Machines |-> "none"]
  /\ busy = {}
  /\ act = [x \in Actors |-> Idle]
  /\ strays = {}
  /\ latecomers = {}

Loops == Actors \cap Scalers
Handlers == Actors \cap Apps

\* The actor x, at stage s, becomes r.
Turn(x, s, r) ==
  /\ act[x].at = s
  /\ act' = [act EXCEPT ![x] = r]

Go(x, s, t) == Turn(x, s, [act[x] EXCEPT !.at = t])

\* A tick at stage t, with the apps still to visit.
Onward(x, t) == [Idle EXCEPT !.at = t, !.todo = act[x].todo]

\* x, at stage s, takes care of one more of the machines left.
Each(x, s, m) ==
  Turn(x, s, [act[x] EXCEPT !.left = @ \ {m}])

\* x, at stage s, has none left and becomes r.
Done(x, s, r) == act[x].left = {} /\ Turn(x, s, r)

PodsOf(a) == {m \in cloud : owner[m] = a}
Tracked(m) == m \in index[owner[m]] /\ key[m] # "none"
InHand(m) == \E x \in Actors : act[x].m = m /\ act[x].at \in Spawning

-----------------------------------------------------------------------------
(* Provisioning: the same awaits in _reconcile_app and create_app.         *)

\* No trace of the machine is left: its id is as good as a fresh one.
Fresh(m) ==
  /\ m \notin cloud \cup token \cup drain /\ key[m] = "none" /\ call[m] = "none"
  /\ \A a \in Apps : m \notin index[a]
  /\ \A x \in Actors : m # act[x].m /\ m \notin act[x].left \cup act[x].got

\* A pod is made, under an id that nobody knows yet.
Create(m, a) ==
  /\ Fresh(m)
  /\ owner[m] = a
  /\ cloud' = cloud \cup {m}

Provision(x) ==
  /\ \E m \in Machines :
       /\ Create(m, act[x].app)
       /\ Turn(x, "provision", [act[x] EXCEPT !.at = IF x \in Apps THEN "token" ELSE "clear",
                                              !.m = m])
  /\ UNCHANGED <<row, redisVars, agent, call, busy>>

\* provision raises, a pod made or not.  The tick sets the cooldown and is done
\* with the app; create_app rolls back.
ProvisionFails(x) ==
  /\ \/ "fail" \in Faults /\ UNCHANGED cloud
     \/ "lost" \in Faults /\ (\E m \in Machines : Create(m, act[x].app))
  /\ IF x \in Apps
       THEN Go(x, "provision", "rollback") /\ UNCHANGED cooldown
       ELSE /\ Turn(x, "provision", Onward(x, "app"))
            /\ cooldown' = cooldown \cup {act[x].app}
  /\ UNCHANGED <<row, qlen, recent, index, key, token, drain, agent, call, busy>>

\* The tick clears an old cooldown.
ClearCooldown(x) ==
  /\ Go(x, "clear", "token")
  /\ cooldown' = cooldown \ {act[x].app}
  /\ UNCHANGED <<row, qlen, recent, index, key, token, drain, podVars>>

\* Mutant: the token is minted but not stored.
KeepToken(x) ==
  /\ Go(x, "token", "index")
  /\ UNCHANGED <<row, redisVars, podVars>>

StoreToken(x) ==
  /\ Go(x, "token", "index")
  /\ token' = token \cup {act[x].m}
  /\ UNCHANGED <<row, qlen, recent, cooldown, index, key, drain, podVars>>

AddToIndex(x) ==
  /\ Go(x, "index", "key")
  /\ index' = [index EXCEPT ![act[x].app] = @ \cup {act[x].m}]
  /\ UNCHANGED <<row, qlen, recent, cooldown, key, token, drain, podVars>>

\* Mutant: the machines still to add are not counted down.
SetKeyOnly(x) ==
  /\ IF x \in Apps
       THEN Go(x, "key", "uncool")
       ELSE Turn(x, "key", [act[x] EXCEPT !.at = "provision", !.m = None])
  /\ key' = [key EXCEPT ![act[x].m] = "provisioning"]
  /\ UNCHANGED <<row, qlen, recent, cooldown, index, token, drain, podVars>>

\* Mutant: the loop runs once too often.
SetKeyOnceMore(x) ==
  /\ IF x \in Apps
       THEN Go(x, "key", "uncool")
       ELSE Turn(x, "key", [act[x] EXCEPT !.at = "provision", !.n = @ - 1, !.m = None])
  /\ key' = [key EXCEPT ![act[x].m] = "provisioning"]
  /\ UNCHANGED <<row, qlen, recent, cooldown, index, token, drain, podVars>>

\* worker:{mid} becomes provisioning, whatever it was; on to the next one.
SetKey(x) ==
  /\ IF x \in Apps
       THEN Go(x, "key", "uncool")
       ELSE Turn(x, "key", IF act[x].n = 1 THEN Onward(x, "app")
                           ELSE [act[x] EXCEPT !.at = "provision", !.n = @ - 1, !.m = None])
  /\ key' = [key EXCEPT ![act[x].m] = "provisioning"]
  /\ UNCHANGED <<row, qlen, recent, cooldown, index, token, drain, podVars>>

-----------------------------------------------------------------------------
(* The autoscaler.                                                         *)

\* SELECT the apps.
TickBegins(x) ==
  /\ Turn(x, "idle", [Idle EXCEPT !.at = "app", !.todo = row])
  /\ UNCHANGED <<row, redisVars, podVars>>

\* LLEN of the next app's queue.
Visit(x) ==
  /\ \E a \in act[x].todo :
       Turn(x, "app", [Idle EXCEPT !.at = "list", !.app = a, !.q = qlen[a],
                                   !.todo = act[x].todo \ {a}])
  /\ UNCHANGED <<row, redisVars, podVars>>

TickEnds(x) ==
  /\ act[x].todo = {}
  /\ Turn(x, "app", Idle)
  /\ UNCHANGED <<row, redisVars, podVars>>

\* SMEMBERS worker_index:{app}.
ListWorkers(x) ==
  /\ Turn(x, "list", [act[x] EXCEPT !.at = "probe", !.left = index[act[x].app]])
  /\ UNCHANGED <<row, redisVars, podVars>>

\* Mutant: a worker that is provisioning is not counted.
ProbeRegistered(x) ==
  /\ \E m \in act[x].left :
       Turn(x, "probe",
            CASE key[m] = "registered" -> [act[x] EXCEPT !.left = @ \ {m}, !.got = @ \cup {m}]
              [] key[m] = "provisioning" -> [act[x] EXCEPT !.left = @ \ {m}]
              [] OTHER -> [act[x] EXCEPT !.left = @ \ {m}, !.at = "prune", !.m = m])
  /\ UNCHANGED <<row, redisVars, podVars>>

\* EXISTS worker:{mid}: live, or to be dropped from the index.
Probe(x) ==
  /\ \E m \in act[x].left :
       Turn(x, "probe",
            IF key[m] # "none"
              THEN [act[x] EXCEPT !.left = @ \ {m}, !.got = @ \cup {m}]
              ELSE [act[x] EXCEPT !.left = @ \ {m}, !.at = "prune", !.m = m])
  /\ UNCHANGED <<row, redisVars, podVars>>

Prune(x) ==
  /\ Turn(x, "prune", [act[x] EXCEPT !.at = "probe", !.m = None])
  /\ index' = [index EXCEPT ![act[x].app] = @ \ {act[x].m}]
  /\ UNCHANGED <<row, qlen, recent, cooldown, key, token, drain, podVars>>

Least(i, j) == IF i < j THEN i ELSE j
Most(i, j) == IF i < j THEN j ELSE i

\* Mutant: an app without requests wants no worker, warm or not.
DesiredCold(c, q) == Least(c.max, (q + c.tasks - 1) \div c.tasks)

\* How many workers an app with q jobs waiting should have.
Desired(c, q) ==
  LET warm == IF c.warm THEN 1 ELSE 0
  IN  Least(c.max, IF q = 0 THEN warm ELSE Most(warm, (q + c.tasks - 1) \div c.tasks))

\* The queue and the live workers are known.
Sampled(x) == act[x].at = "probe" /\ act[x].left = {}

\* With jobs waiting and tasks_per_container 0 the division raises.
Computes(x) == act[x].q > 0 => Config[act[x].app].tasks > 0
Want(x) == Desired(Config[act[x].app], act[x].q)
Have(x) == Cardinality(act[x].got)

\* Too few workers and no cooldown: as many as are missing.
ScaleUp(x) ==
  /\ Sampled(x) /\ Computes(x) /\ Want(x) > Have(x)
  /\ act[x].app \notin cooldown
  /\ Turn(x, "probe", [Onward(x, "provision") EXCEPT !.app = act[x].app, !.n = Want(x) - Have(x)])
  /\ UNCHANGED <<row, redisVars, podVars>>

Overstaffed(x) ==
  /\ Computes(x) /\ Want(x) < Have(x)
  /\ ~Config[act[x].app].warm
  /\ act[x].q = 0

\* Mutant: the last worker is kept.
ScaleDownToOne(x) ==
  /\ Sampled(x) /\ Overstaffed(x) /\ act[x].app \notin recent
  /\ Have(x) > 1
  /\ \E m \in act[x].got :
       Turn(x, "probe", [Onward(x, "terminate") EXCEPT !.app = act[x].app, !.m = m])
  /\ UNCHANGED <<row, redisVars, podVars>>

\* The queue was empty, the app is idle: one live worker is torn down.
ScaleDown(x) ==
  /\ Sampled(x) /\ Overstaffed(x) /\ act[x].app \notin recent
  /\ \E m \in act[x].got :
       Turn(x, "probe", [Onward(x, "terminate") EXCEPT !.app = act[x].app, !.m = m])
  /\ UNCHANGED <<row, redisVars, podVars>>

\* Neither, or in cooldown, or the computation raised: on to the next app.
LeaveApp(x) ==
  /\ Sampled(x)
  /\ \/ ~Computes(x)
     \/ Want(x) > Have(x) /\ act[x].app \in cooldown
     \/ Want(x) <= Have(x) /\ ~(Overstaffed(x) /\ act[x].app \notin recent)
  /\ Turn(x, "probe", Onward(x, "app"))
  /\ UNCHANGED <<row, redisVars, podVars>>

\* The pod goes, with its agent and the job in its hand.
Gone(m) ==
  /\ cloud' = cloud \ {m}
  /\ agent' = [agent EXCEPT ![m] = "boot"]
  /\ busy' = busy \ {m}

\* DELETE of a pod: done, or skipped because its id was not found.
Terminate(m) == Gone(m) \/ ("silent" \in Faults /\ UNCHANGED <<cloud, agent, busy>>)

TerminateVictim(x) ==
  /\ x \in Scalers
  /\ \/ Terminate(act[x].m) /\ Go(x, "terminate", "unkey")
     \/ /\ "fail" \in Faults /\ UNCHANGED <<cloud, agent, busy>>
        /\ Turn(x, "terminate", Onward(x, "app"))
  /\ UNCHANGED <<row, redisVars, call>>

DropKey(x) ==
  /\ Go(x, "unkey", "unindex")
  /\ key' = [key EXCEPT ![act[x].m] = "none"]
  /\ UNCHANGED <<row, qlen, recent, cooldown, index, token, drain, podVars>>

DropFromIndex(x) ==
  /\ Turn(x, "unindex", Onward(x, "app"))
  /\ index' = [index EXCEPT ![act[x].app] = @ \ {act[x].m}]
  /\ UNCHANGED <<row, qlen, recent, cooldown, key, token, drain, podVars>>

ScalerStep(x) ==
  \/ TickBegins(x) \/ Visit(x) \/ TickEnds(x) \/ ListWorkers(x) \/ Probe(x) \/ Prune(x)
  \/ ScaleUp(x) \/ ScaleDown(x) \/ LeaveApp(x)
  \/ TerminateVictim(x) \/ DropKey(x) \/ DropFromIndex(x)
  \/ ClearCooldown(x)

-----------------------------------------------------------------------------
(* The reconciler.                                                         *)

\* list_machines: what the provider says now.
Survey(x) ==
  /\ Turn(x, "idle", [Idle EXCEPT !.at = "scan", !.got = cloud, !.todo = Apps])
  /\ UNCHANGED <<row, redisVars, podVars>>

\* Mutant: only the indexes of apps that exist are scanned.
ScanDeployed(x) ==
  /\ \E a \in act[x].todo :
       Turn(x, "scan", [act[x] EXCEPT !.left = IF a \in row THEN @ \cup index[a] ELSE @,
                                      !.todo = @ \ {a}])
  /\ UNCHANGED <<row, redisVars, podVars>>

\* SMEMBERS of the next worker_index:*.
ScanIndex(x) ==
  /\ \E a \in act[x].todo :
       Turn(x, "scan", [act[x] EXCEPT !.left = @ \cup index[a], !.todo = @ \ {a}])
  /\ UNCHANGED <<row, redisVars, podVars>>

\* Indexed but not listed: gone.  Orphans are only logged.
Compare(x) ==
  /\ act[x].todo = {}
  /\ Turn(x, "scan", [act[x] EXCEPT !.at = "gc", !.left = @ \ act[x].got, !.got = {}])
  /\ UNCHANGED <<row, redisVars, podVars>>

\* DEL worker:{mid}, then its drain key, then SREM from every index.
CollectKey(x) ==
  /\ \E m \in act[x].left :
       /\ Turn(x, "gc", [act[x] EXCEPT !.at = "gcdrain", !.left = @ \ {m}, !.m = m])
       /\ key' = [key EXCEPT ![m] = "none"]
  /\ UNCHANGED <<row, qlen, recent, cooldown, index, token, drain, podVars>>

CollectDrain(x) ==
  /\ Turn(x, "gcdrain", [act[x] EXCEPT !.at = "gcindex", !.todo = Apps])
  /\ drain' = drain \ {act[x].m}
  /\ UNCHANGED <<row, qlen, recent, cooldown, index, key, token, podVars>>

CollectFromIndex(x) ==
  /\ \E a \in act[x].todo :
       /\ Turn(x, "gcindex",
               IF act[x].todo = {a} THEN [act[x] EXCEPT !.at = "gc", !.todo = {}, !.m = None]
               ELSE [act[x] EXCEPT !.todo = @ \ {a}])
       /\ index' = [index EXCEPT ![a] = @ \ {act[x].m}]
  /\ UNCHANGED <<row, qlen, recent, cooldown, key, token, drain, podVars>>

SurveyEnds(x) ==
  /\ Done(x, "gc", Idle)
  /\ UNCHANGED <<row, redisVars, podVars>>

ReconcilerStep(x) ==
  \/ Survey(x) \/ ScanIndex(x) \/ Compare(x) \/ CollectKey(x) \/ CollectDrain(x)
  \/ CollectFromIndex(x) \/ SurveyEnds(x)

-----------------------------------------------------------------------------
(* The admin handlers of an app a; the actor is a itself.                  *)

\* POST /apps: the row is committed; a warm app gets its first worker now.
CreateApp(a) ==
  /\ "create" \in Requests
  /\ a \notin row
  /\ Turn(a, "idle", IF Config[a].warm THEN [Idle EXCEPT !.at = "cool", !.for = "create", !.app = a]
                     ELSE Idle)
  /\ row' = row \cup {a}
  /\ UNCHANGED <<redisVars, podVars>>

\* A cooldown against the autoscaler, before the attempt.
HoldScaler(a) ==
  /\ Go(a, "cool", "provision")
  /\ cooldown' = cooldown \cup {a}
  /\ UNCHANGED <<row, qlen, recent, index, key, token, drain, podVars>>

Rollback(a) ==
  /\ Go(a, "rollback", "uncool")
  /\ row' = row \ {a}
  /\ UNCHANGED <<redisVars, podVars>>

ReleaseScaler(a) ==
  /\ Turn(a, "uncool", Idle)
  /\ cooldown' = cooldown \ {a}
  /\ UNCHANGED <<row, qlen, recent, index, key, token, drain, podVars>>

\* POST /apps/{id}/restart and DELETE /apps/{id}: SMEMBERS worker_index:{app}.
Tear(a) ==
  /\ a \in row
  /\ \E r \in Requests \cap {"restart", "delete"} :
       Turn(a, "idle", [Idle EXCEPT !.at = "drain", !.for = r, !.app = a,
                                    !.left = index[a], !.got = index[a]])
  /\ UNCHANGED <<row, redisVars, podVars>>

Drain(a) ==
  /\ \E m \in act[a].left : Each(a, "drain", m) /\ drain' = drain \cup {m}
  /\ UNCHANGED <<row, qlen, recent, cooldown, index, key, token, podVars>>

\* Mutant: the provider is not asked for pods that are not in the index.
ListPodsInIndex(a) ==
  /\ Done(a, "drain", [act[a] EXCEPT !.at = "terminate", !.left = act[a].got])
  /\ UNCHANGED <<row, redisVars, podVars>>

\* The provider's pods for the app are added, if it answers.
ListPods(a) ==
  /\ \E found \in {IF Filtering THEN PodsOf(a) ELSE cloud}
                  \cup (IF "fail" \in Faults THEN {{}} ELSE {}) :
       Done(a, "drain", [act[a] EXCEPT !.at = "terminate", !.left = act[a].got \cup found,
                                       !.got = @ \cup found])
  /\ UNCHANGED <<row, redisVars, podVars>>

\* An exception is logged and the next one tried.
TerminateEach(a) ==
  /\ a \in Apps
  /\ \E m \in act[a].left :
       /\ Each(a, "terminate", m)
       /\ Terminate(m) \/ ("fail" \in Faults /\ UNCHANGED <<cloud, agent, busy>>)
  /\ UNCHANGED <<row, redisVars, call>>

AllTerminated(a) ==
  /\ a \in Apps
  /\ Done(a, "terminate", [act[a] EXCEPT !.at = "forget", !.left = act[a].got])
  /\ UNCHANGED <<row, redisVars, podVars>>

\* DEL worker:{mid} register_token:{mid}.
ForgetEach(a) ==
  /\ \E m \in act[a].left :
       /\ Each(a, "forget", m)
       /\ key' = [key EXCEPT ![m] = "none"]
       /\ token' = token \ {m}
  /\ UNCHANGED <<row, qlen, recent, cooldown, index, drain, podVars>>

\* restart takes the machines it saw out of the index and is done; delete
\* drops the queue, the idle clock and the index.
ForgetApp(a) ==
  /\ IF act[a].for = "restart"
       THEN /\ Done(a, "forget", Idle)
            /\ index' = [index EXCEPT ![a] = @ \ act[a].got]
            /\ UNCHANGED <<qlen, recent>>
       ELSE /\ Done(a, "forget", [act[a] EXCEPT !.at = "commit"])
            /\ index' = [index EXCEPT ![a] = {}]
            /\ qlen' = [qlen EXCEPT ![a] = 0]
            /\ recent' = recent \ {a}
  /\ UNCHANGED <<row, cooldown, key, token, drain, podVars>>

\* The row goes last.
DeleteRow(a) ==
  /\ Turn(a, "commit", Idle)
  /\ row' = row \ {a}
  /\ UNCHANGED <<redisVars, podVars>>

HandlerStep(a) ==
  \/ HoldScaler(a) \/ Rollback(a) \/ ReleaseScaler(a)
  \/ Drain(a) \/ ListPods(a) \/ TerminateEach(a) \/ AllTerminated(a)
  \/ ForgetEach(a) \/ ForgetApp(a) \/ DeleteRow(a)

-----------------------------------------------------------------------------
(* The agent on machine m and the gateway's handlers of its calls, which   *)
(* run on even if the machine goes away.                                   *)

Runs(m, s) == m \in cloud /\ agent[m] = s
Call(m, from, to) == call[m] = from /\ call' = [call EXCEPT ![m] = to]

\* POST /workers/register: 401 without the token, and the agent tries again.
PostRegister(m) ==
  /\ Runs(m, "boot")
  /\ m \in token
  /\ Call(m, "none", "accepted")
  /\ UNCHANGED <<row, redisVars, cloud, agent, busy, act>>

\* Thirty attempts were refused: the agent exits.
GiveUp(m) ==
  /\ Runs(m, "boot") /\ call[m] = "none"
  /\ m \notin token
  /\ ~InHand(m) \/ "late" \in Faults
  /\ agent' = [agent EXCEPT ![m] = "gone"]
  /\ UNCHANGED <<row, redisVars, cloud, call, busy, act>>

\* Mutant: the token is left.
AcceptToken(m) ==
  /\ Call(m, "accepted", "burned")
  /\ UNCHANGED <<row, redisVars, cloud, agent, busy, act>>

BurnToken(m) ==
  /\ Call(m, "accepted", "burned")
  /\ token' = token \ {m}
  /\ UNCHANGED <<row, qlen, recent, cooldown, index, key, drain, cloud, agent, busy, act>>

Enroll(m) ==
  /\ Call(m, "burned", "enrolled")
  /\ key' = [key EXCEPT ![m] = "registered"]
  /\ UNCHANGED <<row, qlen, recent, cooldown, index, token, drain, cloud, agent, busy, act>>

\* SADD, and the answer makes the agent ready, unless it is lost.
Join(m) ==
  /\ Call(m, "enrolled", "none")
  /\ index' = [index EXCEPT ![owner[m]] = @ \cup {m}]
  /\ IF m \in cloud
       THEN \/ agent' = [agent EXCEPT ![m] = "ready"]
            \/ "lost" \in Faults /\ UNCHANGED agent
       ELSE UNCHANGED agent
  /\ UNCHANGED <<row, qlen, recent, cooldown, key, token, drain, cloud, busy, act>>

\* POST /workers/heartbeat: SET worker:{mid}, SADD, EXISTS the drain key.
Heartbeat(m) ==
  /\ Runs(m, "ready")
  /\ Call(m, "none", "beat")
  /\ key' = [key EXCEPT ![m] = "registered"]
  /\ UNCHANGED <<row, qlen, recent, cooldown, index, token, drain, cloud, agent, busy, act>>

HeartbeatJoin(m) ==
  /\ Call(m, "beat", "beaten")
  /\ index' = [index EXCEPT ![owner[m]] = @ \cup {m}]
  /\ UNCHANGED <<row, qlen, recent, cooldown, key, token, drain, cloud, agent, busy, act>>

HeartbeatReply(m) ==
  /\ Call(m, "beaten", "none")
  /\ IF m \in cloud \cap drain
       THEN \/ agent' = [agent EXCEPT ![m] = "leaving"]
            \/ "lost" \in Faults /\ UNCHANGED agent
       ELSE UNCHANGED agent
  /\ UNCHANGED <<row, redisVars, cloud, busy, act>>

TakeJob(m) ==
  /\ Runs(m, "ready") /\ m \notin busy
  /\ qlen[owner[m]] > 0
  /\ qlen' = [qlen EXCEPT ![owner[m]] = @ - 1]
  /\ busy' = busy \cup {m}
  /\ UNCHANGED <<row, recent, cooldown, index, key, token, drain, cloud, agent, call, act>>

FinishJob(m) ==
  /\ m \in busy
  /\ busy' = busy \ {m}
  /\ UNCHANGED <<row, redisVars, cloud, agent, call, act>>

\* A drained agent ends its job and exits; its pod stays.
Leave(m) ==
  /\ Runs(m, "leaving") /\ m \notin busy
  /\ agent' = [agent EXCEPT ![m] = "gone"]
  /\ UNCHANGED <<row, redisVars, cloud, call, busy, act>>

CallStep(m) ==
  \/ PostRegister(m) \/ BurnToken(m) \/ Enroll(m) \/ Join(m)
  \/ HeartbeatJoin(m) \/ HeartbeatReply(m)

PollStep(m) == TakeJob(m) \/ FinishJob(m) \/ Leave(m)

-----------------------------------------------------------------------------
(* Clients, clocks and faults.                                             *)

\* A request comes in (RequestDispatch has its steps).
Enqueue(a) ==
  /\ a \in row /\ qlen[a] < MaxQueue
  /\ qlen' = [qlen EXCEPT ![a] = @ + 1]
  /\ recent' = recent \cup {a}
  /\ UNCHANGED <<row, cooldown, index, key, token, drain, podVars, act>>

IdleOut(a) ==
  /\ a \in recent
  /\ recent' = recent \ {a}
  /\ UNCHANGED <<row, qlen, cooldown, index, key, token, drain, podVars, act>>

CooldownEnds(a) ==
  /\ a \in cooldown
  /\ cooldown' = cooldown \ {a}
  /\ UNCHANGED <<row, qlen, recent, index, key, token, drain, podVars, act>>

\* A machine whose key is refreshed in time, or that still boots.
Well(m) ==
  \/ Runs(m, "ready")
  \/ Runs(m, "boot") /\ (key[m] # "registered" \/ call[m] # "none")

KeyExpires(m) ==
  /\ key[m] # "none"
  /\ ~Well(m) \/ "late" \in Faults
  /\ key' = [key EXCEPT ![m] = "none"]
  /\ UNCHANGED <<row, qlen, recent, cooldown, index, token, drain, podVars, act>>

TokenExpires(m) ==
  /\ m \in token
  /\ ~Well(m) \/ "late" \in Faults
  /\ token' = token \ {m}
  /\ UNCHANGED <<row, qlen, recent, cooldown, index, key, drain, podVars, act>>

DrainExpires(m) ==
  /\ m \in drain
  /\ ~Runs(m, "ready") \/ "late" \in Faults
  /\ drain' = drain \ {m}
  /\ UNCHANGED <<row, qlen, recent, cooldown, index, key, token, podVars, act>>

Vanish(m) ==
  /\ "vanish" \in Faults
  /\ m \in cloud
  /\ Gone(m)
  /\ UNCHANGED <<row, redisVars, call, act>>

Crash(x) ==
  /\ "crash" \in Faults
  /\ act[x] # Idle
  /\ act' = [act EXCEPT ![x] = Idle]
  /\ UNCHANGED <<row, redisVars, podVars>>

-----------------------------------------------------------------------------

Expiry(m) == KeyExpires(m) \/ TokenExpires(m) \/ DrainExpires(m)

Step ==
  \/ \E x \in Actors : Provision(x) \/ ProvisionFails(x) \/ StoreToken(x) \/ AddToIndex(x)
                       \/ SetKey(x) \/ Crash(x)
  \/ \E x \in Loops : ScalerStep(x)
  \/ \E x \in Actors \cap {Reconciler} : ReconcilerStep(x)
  \/ \E a \in Handlers : CreateApp(a) \/ Tear(a) \/ HandlerStep(a)
  \/ \E m \in Machines : CallStep(m) \/ PollStep(m) \/ GiveUp(m) \/ Heartbeat(m) \/ Expiry(m) \/ Vanish(m)
  \/ \E a \in Apps : Enqueue(a) \/ IdleOut(a) \/ CooldownEnds(a)

\* The delete of a has the list of pods it will terminate.
Listed(a) ==
  \/ a \notin row
  \/ a \in Actors /\ act[a].for = "delete" /\ act[a].at \in {"terminate", "forget", "commit"}

\* The histories follow every step.
Watch ==
  /\ strays' = {m \in cloud' : m \in strays \/ ~(Tracked(m)' \/ InHand(m)')}
  /\ latecomers' = {m \in cloud' : m \in latecomers \/ (m \notin cloud /\ Listed(owner[m]))}

Next == Step /\ Watch

Spec == Init /\ [][Next]_vars

\* The loops tick, handlers and calls are run on, agents poll, jobs end by
\* their deadline, keys nobody refreshes expire.  The provider answers, and
\* may refuse many calls, but not every one.
Fairness ==
  /\ \A x \in Loops : /\ WF_vars(ScalerStep(x) /\ Watch)
                      /\ SF_vars(TerminateVictim(x) /\ act'[x].at = "unkey" /\ Watch)
  /\ \A x \in Actors : /\ WF_vars((Provision(x) \/ ProvisionFails(x)) /\ Watch)
                       /\ WF_vars((StoreToken(x) \/ AddToIndex(x) \/ SetKey(x)) /\ Watch)
                       /\ SF_vars(Provision(x) /\ Watch)
  /\ \A x \in Actors \cap {Reconciler} : WF_vars(ReconcilerStep(x) /\ Watch)
  /\ \A a \in Handlers : WF_vars(HandlerStep(a) /\ Watch)
  /\ \A m \in Machines : /\ WF_vars(CallStep(m) /\ Watch) /\ WF_vars(Heartbeat(m) /\ Watch)
                         /\ WF_vars(PollStep(m) /\ Watch) /\ WF_vars(Expiry(m) /\ Watch)
  /\ \A a \in Apps : WF_vars(CooldownEnds(a) /\ Watch)

FairSpec == Spec /\ Fairness

-----------------------------------------------------------------------------

ActRecords ==
  [at : Stages, for : {"tick", "create", "restart", "delete"}, app : Apps \cup {None},
   m : Machines \cup {None}, left : SUBSET Machines, got : SUBSET Machines, todo : SUBSET Apps,
   q : 0..MaxQueue, n : Nat]

\* Whoever works on a machine or an app has one in hand, and a tick that
\* provisions has still a machine to add.
Fit(x, r) ==
  /\ \/ r.at \in Spawning \cup {"prune", "unkey", "unindex", "gcdrain", "gcindex"}
     \/ r.at = "terminate" /\ x \notin Apps
     => r.m # None
  /\ r.at \notin {"idle", "app", "scan", "gc", "gcdrain", "gcindex"} => r.app # None
  /\ r.at \in Spawning \cup {"provision"} /\ x \notin Apps => r.n > 0

ActsOK == act \in [Actors -> ActRecords] /\ \A x \in Actors : Fit(x, act[x])

RedisOK ==
  /\ qlen \in [Apps -> 0..MaxQueue]
  /\ recent \subseteq Apps
  /\ cooldown \subseteq Apps
  /\ index \in [Apps -> SUBSET Machines]
  /\ key \in [Machines -> {"none", "provisioning", "registered"}]
  /\ token \subseteq Machines
  /\ drain \subseteq Machines

PodsOK ==
  /\ cloud \subseteq Machines
  /\ agent \in [Machines -> {"boot", "ready", "leaving", "gone"}]
  /\ call \in [Machines -> {"none", "accepted", "burned", "enrolled", "beat", "beaten"}]
  /\ busy \subseteq cloud

\* Every variable holds values of its kind, and every actor what its stage needs.
TypeOK ==
  row \subseteq Apps /\ RedisOK /\ PodsOK /\ ActsOK /\ strays \subseteq cloud /\ latecomers \subseteq cloud

\* A single autoscaler keeps an app within max_containers but for the pods it
\* lost sight of: expired, collected or never entered in Redis.
OnlyStraysExceedTheCap ==
  \A a \in Apps : Cardinality(PodsOf(a) \ strays) <= Config[a].max

\* A registration token is one-shot: from the moment it is burned no actor puts
\* it back, whatever order the spawner, the agent and the handlers run in.
TokenIsOneShot ==
  \A m \in token : agent[m] \in {"boot", "gone"} /\ call[m] \in {"none", "accepted"}

\* A delete that ran to its end tore down every pod of the app but those that
\* were made after it had asked the provider for its list.
DeleteSparesOnlyLatecomers ==
  \A a \in Deployed \ row : PodsOf(a) \subseteq latecomers

\* autoscaler.py: desired is capped at max_containers.
CapHolds == \A a \in Apps : Cardinality(PodsOf(a)) <= Config[a].max

\* Jobs that wait are taken, while the app exists: workers are spawned, come up
\* and poll, whatever the provider refuses in between.
QueuedJobsAreTaken ==
  \A a \in Apps : a \in row /\ qlen[a] = MaxQueue ~> qlen[a] < MaxQueue \/ a \notin row

\* An app that stays without requests is scaled to zero.
IdleAppsScaleToZero ==
  \A a \in Apps :
    ~Config[a].warm => (<>[](qlen[a] = 0 /\ a \notin recent) => <>[](PodsOf(a) = {}))

\* A pod that is gone leaves worker_index, even that of a deleted app.
TheGoneAreForgotten ==
  \A m \in Machines : m \notin cloud ~> m \in cloud \/ m \notin index[owner[m]]

\* An always-on app has a worker that serves it, again and again, unless its
\* pods never cease to vanish.
WarmAppsAreServed ==
  \A a \in Apps :
    Config[a].warm => ([](a \in row) /\ <>[][cloud \subseteq cloud']_vars
                         => []<>(\E m \in PodsOf(a) : agent[m] = "ready"))

=============================================================================
