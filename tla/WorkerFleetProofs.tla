-------------------------- MODULE WorkerFleetProofs --------------------------
(***************************************************************************)
(* Proofs about WorkerFleet, for any apps, machines, gateway replicas and  *)
(* faults.                                                                 *)
(***************************************************************************)
EXTENDS WorkerFleet, FiniteSetTheorems, TLAPS

-----------------------------------------------------------------------------
(* Types: what the actors are doing.                                       *)

\* An actor that turns to something fit for it leaves the others as they are.
LEMMA Turned ==
  ASSUME ActsOK, NEW x \in Actors, NEW s, NEW r \in ActRecords, Turn(x, s, r), Fit(x, r)
  PROVE  ActsOK'
<1>1. act' = [act EXCEPT ![x] = r]
  BY DEF Turn
<1>2. act' \in [Actors -> ActRecords]
  BY <1>1 DEF ActsOK
<1>3. ASSUME NEW y \in Actors PROVE Fit(y, act[y])'
  <2>1. CASE y = x
    <3>1. act'[y] = r
      BY <1>1, <2>1 DEF ActsOK
    <3> QED BY <2>1, <3>1 DEF Fit
  <2>2. CASE y # x
    <3>1. act'[y] = act[y]
      BY <1>1, <2>2 DEF ActsOK
    <3> QED BY <3>1 DEF ActsOK, Fit
  <2> QED BY <2>1, <2>2
<1> QED BY <1>2, <1>3 DEF ActsOK

\* An actor at rest, or on its way through a tick, is always fit.
LEMMA Rests ==
  ASSUME ActsOK, NEW x \in Actors
  PROVE  /\ Idle \in ActRecords /\ Fit(x, Idle)
         /\ \A t \in {"app", "idle"} : Onward(x, t) \in ActRecords /\ Fit(x, Onward(x, t))
<1>1. act[x] \in ActRecords
  BY DEF ActsOK
<1>2. 0 \in 0..MaxQueue
  BY FleetAssumption
<1>3. Idle \in ActRecords
  BY <1>2 DEF Idle, ActRecords, Stages
<1>4. ASSUME NEW t \in {"app", "idle"} PROVE Onward(x, t) \in ActRecords
  BY <1>1, <1>3, <1>4 DEF Onward, Idle, ActRecords, Stages
<1>5. \A t \in {"app", "idle"} : Onward(x, t).at = t
  BY DEF Onward, Idle
<1> QED BY <1>3, <1>4, <1>5 DEF Fit, Idle, Spawning

\* The spawning of a machine.
LEMMA SpawnActs ==
  ASSUME ActsOK, NEW x \in Actors,
         Provision(x) \/ ProvisionFails(x) \/ StoreToken(x) \/ AddToIndex(x) \/ SetKey(x)
         \/ ClearCooldown(x)
  PROVE  ActsOK'
<1>1. act[x] \in ActRecords /\ Fit(x, act[x])
  BY DEF ActsOK
<1> USE FleetAssumption DEF Stages, Spawning
<1>2. CASE Provision(x)
  <2>1. PICK m \in Machines :
          Turn(x, "provision", [act[x] EXCEPT !.at = IF x \in Apps THEN "token" ELSE "clear", !.m = m])
    BY <1>2 DEF Provision
  <2> DEFINE r == [act[x] EXCEPT !.at = IF x \in Apps THEN "token" ELSE "clear", !.m = m]
  <2>2. r \in ActRecords
    BY <1>1 DEF ActRecords
  <2>3. Fit(x, r)
    BY <1>1, <2>1 DEF Fit, ActRecords, Turn
  <2> QED BY <2>1, <2>2, <2>3, Turned
<1>3. CASE ProvisionFails(x)
  <2>1. CASE Go(x, "provision", "rollback") /\ x \in Apps
    <3> DEFINE r == [act[x] EXCEPT !.at = "rollback"]
    <3>1. r \in ActRecords /\ Fit(x, r)
      BY <1>1, <2>1 DEF ActRecords, Fit, Go, Turn
    <3> QED BY <2>1, <3>1, Turned DEF Go
  <2> QED BY <1>3, <2>1, Rests, Turned DEF ProvisionFails
<1>4. ASSUME NEW s \in {"clear", "token", "index"}, NEW t \in {"token", "index", "key"}, Go(x, s, t)
      PROVE  ActsOK'
  <2> DEFINE r == [act[x] EXCEPT !.at = t]
  <2>1. r \in ActRecords /\ Fit(x, r)
    BY <1>1, <1>4 DEF ActRecords, Fit, Go, Turn
  <2> QED BY <1>4, <2>1, Turned DEF Go
<1>5. CASE SetKey(x)
  <2>1. CASE Go(x, "key", "uncool") /\ x \in Apps
    <3> DEFINE r == [act[x] EXCEPT !.at = "uncool"]
    <3>1. r \in ActRecords /\ Fit(x, r)
      BY <1>1, <2>1 DEF ActRecords, Fit, Go, Turn
    <3> QED BY <2>1, <3>1, Turned DEF Go
  <2>2. CASE x \notin Apps /\ act[x].n = 1
    BY <1>5, <2>2, Rests, Turned DEF SetKey
  <2>3. CASE x \notin Apps /\ act[x].n # 1
    <3> DEFINE r == [act[x] EXCEPT !.at = "provision", !.n = @ - 1, !.m = None]
    <3>1. Turn(x, "key", r)
      BY <1>5, <2>3 DEF SetKey
    <3>2. act[x].n - 1 \in Nat /\ act[x].n - 1 > 0
      BY <1>1, <2>3, <3>1 DEF ActRecords, Fit, Turn
    <3>3. r \in ActRecords
      BY <1>1, <3>2 DEF ActRecords
    <3>4. Fit(x, r)
      BY <1>1, <3>1, <3>2 DEF Fit, ActRecords, Turn
    <3> QED BY <3>1, <3>3, <3>4, Turned
  <2> QED BY <1>5, <2>1, <2>2, <2>3 DEF SetKey
<1> QED BY <1>2, <1>3, <1>4, <1>5 DEF StoreToken, AddToIndex, ClearCooldown

\* The rest of a tick of the autoscaler.
LEMMA ScalerActs ==
  ASSUME ActsOK, row \subseteq Apps, RedisOK, NEW x \in Loops,
         ScalerStep(x), ~ClearCooldown(x)
  PROVE  ActsOK'
<1>1. act[x] \in ActRecords /\ Fit(x, act[x]) /\ x \in Actors /\ x \notin Apps
  BY FleetAssumption DEF ActsOK, Loops
<1>2. 0 \in 0..MaxQueue /\ None \notin Apps \cup Machines
  BY FleetAssumption
<1> USE DEF Stages, Spawning
<1>3. CASE TickBegins(x)
  <2> DEFINE r == [Idle EXCEPT !.at = "app", !.todo = row]
  <2>1. r \in ActRecords /\ Fit(x, r)
    BY <1>2 DEF ActRecords, Fit, Idle
  <2> QED BY <1>1, <1>3, <2>1, Turned DEF TickBegins
<1>4. CASE Visit(x)
  <2>1. PICK a \in act[x].todo :
          Turn(x, "app", [Idle EXCEPT !.at = "list", !.app = a, !.q = qlen[a], !.todo = act[x].todo \ {a}])
    BY <1>4 DEF Visit
  <2> DEFINE r == [Idle EXCEPT !.at = "list", !.app = a, !.q = qlen[a], !.todo = act[x].todo \ {a}]
  <2>2. a \in Apps /\ qlen[a] \in 0..MaxQueue
    BY <1>1 DEF ActRecords, RedisOK
  <2>3. r \in ActRecords /\ Fit(x, r)
    BY <1>1, <1>2, <2>2 DEF ActRecords, Fit, Idle
  <2> QED BY <1>1, <2>1, <2>3, Turned
<1>5. CASE TickEnds(x)
  BY <1>1, <1>5, Rests, Turned DEF TickEnds
<1>6. CASE ListWorkers(x)
  <2> DEFINE r == [act[x] EXCEPT !.at = "probe", !.left = index[act[x].app]]
  <2>1. act[x].at = "list"
    BY <1>6 DEF ListWorkers, Turn
  <2>2. act[x].app \in Apps
    BY <1>1, <2>1 DEF ActRecords, Fit
  <2>3. r \in ActRecords /\ Fit(x, r)
    BY <1>1, <2>1, <2>2 DEF ActRecords, Fit, RedisOK
  <2> QED BY <1>1, <1>6, <2>3, Turned DEF ListWorkers
<1>7. CASE Probe(x)
  <2>1. PICK m \in act[x].left :
          Turn(x, "probe", IF key[m] # "none" THEN [act[x] EXCEPT !.left = @ \ {m}, !.got = @ \cup {m}]
                           ELSE [act[x] EXCEPT !.left = @ \ {m}, !.at = "prune", !.m = m])
    BY <1>7 DEF Probe
  <2>2. m \in Machines /\ act[x].at = "probe"
    BY <1>1, <2>1 DEF ActRecords, Turn
  <2>3. CASE key[m] # "none"
    <3> DEFINE r == [act[x] EXCEPT !.left = @ \ {m}, !.got = @ \cup {m}]
    <3>1. r \in ActRecords /\ Fit(x, r)
      BY <1>1, <2>2 DEF ActRecords, Fit
    <3> QED BY <1>1, <2>1, <2>3, <3>1, Turned
  <2>4. CASE key[m] = "none"
    <3> DEFINE r == [act[x] EXCEPT !.left = @ \ {m}, !.at = "prune", !.m = m]
    <3>1. r \in ActRecords /\ Fit(x, r)
      BY <1>1, <1>2, <2>2 DEF ActRecords, Fit
    <3> QED BY <1>1, <2>1, <2>4, <3>1, Turned
  <2> QED BY <2>3, <2>4
<1>8. CASE Prune(x)
  <2> DEFINE r == [act[x] EXCEPT !.at = "probe", !.m = None]
  <2>1. r \in ActRecords /\ Fit(x, r)
    BY <1>1, <1>8 DEF ActRecords, Fit, Prune, Turn
  <2> QED BY <1>1, <1>8, <2>1, Turned DEF Prune
<1>9. CASE ScaleUp(x)
  <2> DEFINE c == Config[act[x].app]
             r == [Onward(x, "provision") EXCEPT !.app = act[x].app, !.n = Want(x) - Have(x)]
  <2>1. act[x].at = "probe" /\ Want(x) > Have(x)
    BY <1>9 DEF ScaleUp, Sampled
  <2>2. act[x].app \in Apps
    BY <1>1, <2>1 DEF ActRecords, Fit
  <2>3. c.max \in Nat /\ c.tasks \in Nat /\ c.warm \in BOOLEAN
    BY <2>2, FleetAssumption
  <2>4. act[x].q \in Nat /\ (act[x].q > 0 => c.tasks > 0)
    BY <1>1, <1>9, FleetAssumption DEF ActRecords, ScaleUp, Computes
  <2>5. act[x].q > 0 => (act[x].q + c.tasks - 1) \div c.tasks \in Int
    BY <2>3, <2>4
  <2>6. Want(x) \in Int
    <3> DEFINE warm == IF c.warm THEN 1 ELSE 0
               jobs == (act[x].q + c.tasks - 1) \div c.tasks
    <3>1. \A i, j \in Int : Least(i, j) \in Int /\ Most(i, j) \in Int
      BY DEF Least, Most
    <3>2. Want(x) = Least(c.max, IF act[x].q = 0 THEN warm ELSE Most(warm, jobs))
      BY DEF Want, Desired
    <3>3. warm \in Int
      <4>1. CASE c.warm
        BY <4>1
      <4>2. CASE ~c.warm
        BY <4>2
      <4> QED BY <4>1, <4>2
    <3>4. act[x].q > 0 => jobs \in Int
      BY <2>5
    <3>5. c.max \in Int
      BY <2>3
    <3> HIDE DEF warm, jobs, c
    <3>6. CASE act[x].q = 0
      BY <3>1, <3>2, <3>3, <3>5, <3>6
    <3>7. CASE act[x].q > 0
      <4>1. Most(warm, jobs) \in Int
        BY <3>1, <3>3, <3>4, <3>7
      <4>2. act[x].q # 0
        BY <3>7
      <4>3. Want(x) = Least(c.max, Most(warm, jobs))
        BY <3>2, <4>2
      <4> QED BY <3>1, <3>5, <4>1, <4>3
    <3> QED BY <2>4, <3>6, <3>7
  <2>7. Have(x) \in Nat
    <3>1. act[x].got \subseteq Machines /\ IsFiniteSet(Machines)
      BY <1>1, FleetAssumption DEF ActRecords
    <3>2. IsFiniteSet(act[x].got)
      BY <3>1, FS_Subset
    <3> QED BY <3>2, FS_CardinalityType DEF Have
  <2>8. Want(x) - Have(x) \in Nat /\ Want(x) - Have(x) > 0
    BY <2>1, <2>6, <2>7
  <2>9. ASSUME NEW k \in Nat, k > 0
        PROVE  /\ [Onward(x, "provision") EXCEPT !.app = act[x].app, !.n = k] \in ActRecords
               /\ Fit(x, [Onward(x, "provision") EXCEPT !.app = act[x].app, !.n = k])
    BY <1>1, <1>2, <2>2, <2>9 DEF ActRecords, Fit, Onward, Idle
  <2>10. r \in ActRecords /\ Fit(x, r)
    BY <2>8, <2>9
  <2> HIDE DEF r
  <2> QED BY <1>1, <1>9, <2>10, Turned DEF ScaleUp, r
<1>10. CASE ScaleDown(x)
  <2>1. PICK m \in act[x].got :
          Turn(x, "probe", [Onward(x, "terminate") EXCEPT !.app = act[x].app, !.m = m])
    BY <1>10 DEF ScaleDown
  <2> DEFINE r == [Onward(x, "terminate") EXCEPT !.app = act[x].app, !.m = m]
  <2>2. m \in Machines /\ act[x].app \in Apps
    BY <1>1, <2>1 DEF ActRecords, Fit, Turn
  <2>3. r \in ActRecords /\ Fit(x, r)
    BY <1>1, <1>2, <2>2, ZenonT(60) DEF ActRecords, Fit, Onward, Idle
  <2> QED BY <1>1, <2>1, <2>3, Turned
<1>11. CASE LeaveApp(x)
  BY <1>1, <1>11, Rests, Turned DEF LeaveApp
<1>12. CASE TerminateVictim(x)
  <2> DEFINE r == [act[x] EXCEPT !.at = "unkey"]
  <2>1. CASE Go(x, "terminate", "unkey")
    <3>1. r \in ActRecords /\ Fit(x, r)
      BY <1>1, <2>1 DEF ActRecords, Fit, Go, Turn
    <3> QED BY <1>1, <2>1, <3>1, Turned DEF Go
  <2> QED BY <1>1, <1>12, <2>1, Rests, Turned DEF TerminateVictim
<1>13. CASE DropKey(x)
  <2> DEFINE r == [act[x] EXCEPT !.at = "unindex"]
  <2>1. r \in ActRecords /\ Fit(x, r)
    BY <1>1, <1>13 DEF ActRecords, Fit, DropKey, Go, Turn
  <2> QED BY <1>1, <1>13, <2>1, Turned DEF DropKey, Go
<1>14. CASE DropFromIndex(x)
  BY <1>1, <1>14, Rests, Turned DEF DropFromIndex
<1> QED BY <1>3, <1>4, <1>5, <1>6, <1>7, <1>8, <1>9, <1>10, <1>11, <1>12, <1>13, <1>14 DEF ScalerStep

\* A round of the reconciler.
LEMMA ReconcilerActs ==
  ASSUME ActsOK, RedisOK, PodsOK, NEW x \in Actors, ReconcilerStep(x)
  PROVE  ActsOK'
<1>1. act[x] \in ActRecords /\ Fit(x, act[x])
  BY DEF ActsOK
<1>2. 0 \in 0..MaxQueue /\ None \notin Apps \cup Machines
  BY FleetAssumption
<1> USE DEF Stages, Spawning
<1>3. CASE Survey(x)
  <2> DEFINE r == [Idle EXCEPT !.at = "scan", !.got = cloud, !.todo = Apps]
  <2>1. r \in ActRecords /\ Fit(x, r)
    BY <1>2 DEF ActRecords, Fit, Idle, PodsOK
  <2> QED BY <1>3, <2>1, Turned DEF Survey
<1>4. CASE ScanIndex(x)
  <2>1. PICK a \in act[x].todo : Turn(x, "scan", [act[x] EXCEPT !.left = @ \cup index[a], !.todo = @ \ {a}])
    BY <1>4 DEF ScanIndex
  <2> DEFINE r == [act[x] EXCEPT !.left = @ \cup index[a], !.todo = @ \ {a}]
  <2>2. index[a] \subseteq Machines
    BY <1>1 DEF ActRecords, RedisOK
  <2>3. r \in ActRecords /\ Fit(x, r)
    BY <1>1, <2>1, <2>2 DEF ActRecords, Fit, Turn
  <2> QED BY <2>1, <2>3, Turned
<1>5. CASE Compare(x)
  <2> DEFINE r == [act[x] EXCEPT !.at = "gc", !.left = @ \ act[x].got, !.got = {}]
  <2>1. r \in ActRecords /\ Fit(x, r)
    BY <1>1, ZenonT(60) DEF ActRecords, Fit
  <2> QED BY <1>5, <2>1, Turned DEF Compare
<1>6. CASE CollectKey(x)
  <2>1. PICK m \in act[x].left : Turn(x, "gc", [act[x] EXCEPT !.at = "gcdrain", !.left = @ \ {m}, !.m = m])
    BY <1>6 DEF CollectKey
  <2> DEFINE r == [act[x] EXCEPT !.at = "gcdrain", !.left = @ \ {m}, !.m = m]
  <2>2. m \in Machines
    BY <1>1 DEF ActRecords
  <2>3. r \in ActRecords /\ Fit(x, r)
    BY <1>1, <1>2, <2>2 DEF ActRecords, Fit
  <2> QED BY <2>1, <2>3, Turned
<1>7. CASE CollectDrain(x)
  <2> DEFINE r == [act[x] EXCEPT !.at = "gcindex", !.todo = Apps]
  <2>1. r \in ActRecords /\ Fit(x, r)
    BY <1>1, <1>7 DEF ActRecords, Fit, CollectDrain, Turn
  <2> QED BY <1>7, <2>1, Turned DEF CollectDrain
<1>8. CASE CollectFromIndex(x)
  <2>1. PICK a \in act[x].todo :
          Turn(x, "gcindex", IF act[x].todo = {a} THEN [act[x] EXCEPT !.at = "gc", !.todo = {}, !.m = None]
                             ELSE [act[x] EXCEPT !.todo = @ \ {a}])
    BY <1>8 DEF CollectFromIndex
  <2>2. CASE act[x].todo = {a}
    <3> DEFINE r == [act[x] EXCEPT !.at = "gc", !.todo = {}, !.m = None]
    <3>1. r \in ActRecords /\ Fit(x, r)
      BY <1>1, ZenonT(60) DEF ActRecords, Fit
    <3> QED BY <2>1, <2>2, <3>1, Turned
  <2>3. CASE act[x].todo # {a}
    <3> DEFINE r == [act[x] EXCEPT !.todo = @ \ {a}]
    <3>1. r \in ActRecords /\ Fit(x, r)
      BY <1>1, <2>1 DEF ActRecords, Fit, Turn
    <3> QED BY <2>1, <2>3, <3>1, Turned
  <2> QED BY <2>2, <2>3
<1>9. CASE SurveyEnds(x)
  BY <1>9, Rests, Turned DEF SurveyEnds, Done
<1> QED BY <1>3, <1>4, <1>5, <1>6, <1>7, <1>8, <1>9 DEF ReconcilerStep

\* The admin handlers.
LEMMA HandlerActs ==
  ASSUME ActsOK, RedisOK, PodsOK, NEW a \in Handlers, CreateApp(a) \/ Tear(a) \/ HandlerStep(a)
  PROVE  ActsOK'
<1>1. act[a] \in ActRecords /\ Fit(a, act[a]) /\ a \in Actors /\ a \in Apps
  BY DEF ActsOK, Handlers
<1>2. 0 \in 0..MaxQueue /\ None \notin Apps \cup Machines
  BY FleetAssumption
<1> USE DEF Stages, Spawning
<1>3. CASE CreateApp(a)
  <2> DEFINE r == [Idle EXCEPT !.at = "cool", !.for = "create", !.app = a]
  <2>1. r \in ActRecords /\ Fit(a, r)
    BY <1>1, <1>2 DEF ActRecords, Fit, Idle
  <2> QED BY <1>1, <1>3, <2>1, Rests, Turned DEF CreateApp
<1>4. CASE Tear(a)
  <2>1. ASSUME NEW f \in {"restart", "delete"},
               Turn(a, "idle", [Idle EXCEPT !.at = "drain", !.for = f, !.app = a, !.left = index[a], !.got = index[a]])
        PROVE  ActsOK'
    <3> DEFINE r == [Idle EXCEPT !.at = "drain", !.for = f, !.app = a, !.left = index[a], !.got = index[a]]
    <3>1. index[a] \subseteq Machines
      BY <1>1 DEF RedisOK
    <3>2. r \in ActRecords /\ Fit(a, r)
      BY <1>1, <1>2, <3>1 DEF ActRecords, Fit, Idle
    <3> QED BY <1>1, <2>1, <3>2, Turned
  <2> QED BY <1>4, <2>1 DEF Tear
<1>5. ASSUME NEW s \in {"cool", "rollback"}, NEW t \in {"provision", "uncool"}, Go(a, s, t) PROVE ActsOK'
  <2> DEFINE r == [act[a] EXCEPT !.at = t]
  <2>1. r \in ActRecords /\ Fit(a, r)
    BY <1>1, <1>5 DEF ActRecords, Fit, Go, Turn
  <2> QED BY <1>1, <1>5, <2>1, Turned DEF Go
<1>6. CASE HoldScaler(a) \/ Rollback(a)
  BY <1>5, <1>6 DEF HoldScaler, Rollback
<1>7. CASE ReleaseScaler(a) \/ DeleteRow(a)
  BY <1>1, <1>7, Rests, Turned DEF ReleaseScaler, DeleteRow
<1>8. ASSUME NEW s \in {"drain", "terminate", "forget"}, NEW m, Each(a, s, m) PROVE ActsOK'
  <2> DEFINE r == [act[a] EXCEPT !.left = @ \ {m}]
  <2>1. r \in ActRecords /\ Fit(a, r)
    BY <1>1, <1>8 DEF ActRecords, Fit, Each, Turn
  <2> QED BY <1>1, <1>8, <2>1, Turned DEF Each
<1>9. CASE Drain(a) \/ TerminateEach(a) \/ ForgetEach(a)
  BY <1>8, <1>9 DEF Drain, TerminateEach, ForgetEach
<1>10. CASE ListPods(a)
  <2>1. PICK found \in SUBSET cloud :
          Done(a, "drain", [act[a] EXCEPT !.at = "terminate", !.left = act[a].got \cup found, !.got = @ \cup found])
    BY <1>10 DEF ListPods, PodsOf
  <2> DEFINE r == [act[a] EXCEPT !.at = "terminate", !.left = act[a].got \cup found, !.got = @ \cup found]
  <2>2. r \in ActRecords /\ Fit(a, r)
    BY <1>1, <2>1 DEF ActRecords, Fit, Done, Turn, PodsOK
  <2> QED BY <1>1, <2>1, <2>2, Turned DEF Done
<1>11. CASE AllTerminated(a)
  <2> DEFINE r == [act[a] EXCEPT !.at = "forget", !.left = act[a].got]
  <2>1. r \in ActRecords /\ Fit(a, r)
    BY <1>1, <1>11 DEF ActRecords, Fit, AllTerminated, Done, Turn
  <2> QED BY <1>1, <1>11, <2>1, Turned DEF AllTerminated, Done
<1>12. CASE ForgetApp(a)
  <2> DEFINE r == [act[a] EXCEPT !.at = "commit"]
  <2>1. CASE Done(a, "forget", r)
    <3>1. r \in ActRecords /\ Fit(a, r)
      BY <1>1, <2>1 DEF ActRecords, Fit, Done, Turn
    <3> QED BY <1>1, <2>1, <3>1, Turned DEF Done
  <2> QED BY <1>1, <1>12, <2>1, Rests, Turned DEF ForgetApp, Done
<1> QED BY <1>3, <1>4, <1>6, <1>7, <1>9, <1>10, <1>11, <1>12 DEF HandlerStep

-----------------------------------------------------------------------------
(* Types: Redis and the pods.                                              *)

\* What the actors do to them.
LEMMA ActorTypes ==
  ASSUME TypeOK, NEW x \in Actors,
         \/ Provision(x) \/ ProvisionFails(x) \/ StoreToken(x) \/ AddToIndex(x) \/ SetKey(x) \/ Crash(x)
         \/ x \in Loops /\ ScalerStep(x)
         \/ ReconcilerStep(x)
         \/ x \in Handlers /\ (CreateApp(x) \/ Tear(x) \/ HandlerStep(x))
  PROVE  row' \subseteq Apps /\ RedisOK' /\ PodsOK'
<1>1. act[x] \in ActRecords /\ Fit(x, act[x])
  BY DEF TypeOK, ActsOK
<1>2. row' \subseteq Apps
  BY DEF TypeOK, Provision, ProvisionFails, StoreToken, AddToIndex, SetKey, Crash, ScalerStep, TickBegins,
         Visit, TickEnds, ListWorkers, Probe, Prune, ScaleUp, ScaleDown, LeaveApp, TerminateVictim, DropKey,
         DropFromIndex, ClearCooldown, ReconcilerStep, Survey, ScanIndex, Compare, CollectKey, CollectDrain,
         CollectFromIndex, SurveyEnds, CreateApp, Tear, HandlerStep, HoldScaler, Rollback, ReleaseScaler,
         Drain, ListPods, TerminateEach, AllTerminated, ForgetEach, ForgetApp, DeleteRow, Handlers
<1>3. PodsOK'
  <2> USE DEF TypeOK, PodsOK
  <2>1. CASE UNCHANGED podVars
    BY <2>1 DEF podVars
  <2>2. ASSUME UNCHANGED <<agent, call, busy>>, NEW m \in Machines, cloud' = cloud \cup {m} PROVE PodsOK'
    BY <2>2
  <2>3. ASSUME NEW m, Gone(m), UNCHANGED call PROVE PodsOK'
    BY <2>3 DEF Gone
  <2>4. CASE Provision(x) \/ ProvisionFails(x)
    BY <2>2, <2>4 DEF Provision, ProvisionFails, Create
  <2>5. CASE TerminateVictim(x) \/ TerminateEach(x)
    BY <2>3, <2>5 DEF TerminateVictim, TerminateEach, Terminate
  <2> QED BY <2>1, <2>4, <2>5
          DEF StoreToken, AddToIndex, SetKey, Crash, ScalerStep, TickBegins, Visit, TickEnds, ListWorkers,
              Probe, Prune, ScaleUp, ScaleDown, LeaveApp, DropKey, DropFromIndex, ClearCooldown,
              ReconcilerStep, Survey, ScanIndex, Compare, CollectKey, CollectDrain, CollectFromIndex,
              SurveyEnds, CreateApp, Tear, HandlerStep, HoldScaler, Rollback, ReleaseScaler, Drain,
              ListPods, AllTerminated, ForgetEach, ForgetApp, DeleteRow
<1>4. RedisOK'
  <2> USE DEF TypeOK, RedisOK
  <2>1. CASE UNCHANGED redisVars
    BY <2>1 DEF redisVars
  <2>2. CASE ProvisionFails(x)
    <3>1. act[x].app \in Apps
      BY <1>1, <2>2 DEF ProvisionFails, Go, Turn, Fit, ActRecords
    <3> QED BY <2>2, <3>1 DEF ProvisionFails
  <2>3. CASE StoreToken(x) \/ AddToIndex(x) \/ SetKey(x)
    <3>1. act[x].m \in Machines
      BY <1>1, <2>3 DEF StoreToken, AddToIndex, SetKey, Go, Turn, Fit, ActRecords, Spawning
    <3> QED BY <2>3, <3>1 DEF StoreToken, AddToIndex, SetKey
  <2>4. CASE ScalerStep(x)
    <3>1. CASE ClearCooldown(x)
      BY <3>1 DEF ClearCooldown
    <3>2. CASE Prune(x) \/ DropFromIndex(x)
      BY <3>2 DEF Prune, DropFromIndex
    <3>3. CASE DropKey(x)
      BY <3>3 DEF DropKey
    <3> QED BY <2>1, <2>4, <3>1, <3>2, <3>3
            DEF ScalerStep, TickBegins, Visit, TickEnds, ListWorkers, Probe, ScaleUp, ScaleDown, LeaveApp,
                TerminateVictim
  <2>5. CASE ReconcilerStep(x)
    <3>1. CASE CollectKey(x)
      BY <3>1 DEF CollectKey
    <3>2. CASE CollectDrain(x)
      BY <3>2 DEF CollectDrain
    <3>3. CASE CollectFromIndex(x)
      BY <3>3 DEF CollectFromIndex
    <3> QED BY <2>1, <2>5, <3>1, <3>2, <3>3 DEF ReconcilerStep, Survey, ScanIndex, Compare, SurveyEnds
  <2>6. CASE HandlerStep(x) /\ x \in Apps
    <3>1. CASE HoldScaler(x) \/ ReleaseScaler(x)
      BY <2>6, <3>1 DEF HoldScaler, ReleaseScaler
    <3>2. CASE Drain(x)
      <4>1. PICK m \in act[x].left : drain' = drain \cup {m}
        BY <3>2 DEF Drain
      <4>2. m \in Machines
        BY <1>1 DEF ActRecords
      <4> QED BY <3>2, <4>1, <4>2 DEF Drain
    <3>3. CASE ForgetEach(x)
      BY <3>3 DEF ForgetEach
    <3>4. CASE ForgetApp(x)
      <4>1. 0 \in 0..MaxQueue
        BY FleetAssumption
      <4> QED BY <3>4, <4>1 DEF ForgetApp
    <3> QED BY <2>1, <2>6, <3>1, <3>2, <3>3, <3>4
            DEF HandlerStep, Rollback, ListPods, TerminateEach, AllTerminated, DeleteRow
  <2> QED BY <2>1, <2>2, <2>3, <2>4, <2>5, <2>6 DEF Provision, Crash, CreateApp, Tear, Handlers
<1> QED BY <1>2, <1>3, <1>4

\* What agents, clients and clocks do to them.
LEMMA OtherTypes ==
  ASSUME TypeOK,
         \/ \E m \in Machines : CallStep(m) \/ PollStep(m) \/ GiveUp(m) \/ Heartbeat(m) \/ Expiry(m) \/ Vanish(m)
         \/ \E a \in Apps : Enqueue(a) \/ IdleOut(a) \/ CooldownEnds(a)
  PROVE  UNCHANGED <<row, act>> /\ RedisOK' /\ PodsOK'
<1> USE DEF TypeOK, RedisOK, PodsOK
<1>1. owner \in [Machines -> Apps] /\ MaxQueue \in Nat
  BY FleetAssumption
<1>2. ASSUME NEW m \in Machines, CallStep(m) \/ Heartbeat(m)
      PROVE  UNCHANGED <<row, act>> /\ RedisOK' /\ PodsOK'
  <2>1. UNCHANGED <<row, act, qlen, recent, cooldown, drain, cloud, busy>>
    BY <1>2 DEF CallStep, PostRegister, BurnToken, Enroll, Join, Heartbeat, HeartbeatJoin, HeartbeatReply,
                redisVars
  <2>2. token' \subseteq token
    BY <1>2 DEF CallStep, PostRegister, BurnToken, Enroll, Join, Heartbeat, HeartbeatJoin, HeartbeatReply,
                redisVars
  <2>3. key' \in [Machines -> {"none", "provisioning", "registered"}]
    BY <1>2 DEF CallStep, PostRegister, BurnToken, Enroll, Join, Heartbeat, HeartbeatJoin, HeartbeatReply,
                redisVars
  <2>4. index' \in [Apps -> SUBSET Machines]
    BY <1>1, <1>2 DEF CallStep, PostRegister, BurnToken, Enroll, Join, Heartbeat, HeartbeatJoin,
                      HeartbeatReply, redisVars
  <2>5. agent' \in [Machines -> {"boot", "ready", "leaving", "gone"}]
    BY <1>2 DEF CallStep, PostRegister, BurnToken, Enroll, Join, Heartbeat, HeartbeatJoin, HeartbeatReply
  <2>6. call' \in [Machines -> {"none", "accepted", "burned", "enrolled", "beat", "beaten"}]
    BY <1>2 DEF CallStep, PostRegister, BurnToken, Enroll, Join, Heartbeat, HeartbeatJoin, HeartbeatReply, Call
  <2> QED BY <2>1, <2>2, <2>3, <2>4, <2>5, <2>6
<1>3. ASSUME NEW m \in Machines, PollStep(m) \/ GiveUp(m) \/ Vanish(m)
      PROVE  UNCHANGED <<row, act>> /\ RedisOK' /\ PodsOK'
  <2>1. CASE TakeJob(m)
    <3>1. qlen' \in [Apps -> 0..MaxQueue]
      BY <1>1, <2>1 DEF TakeJob
    <3> QED BY <2>1, <3>1 DEF TakeJob, Runs
  <2>2. CASE FinishJob(m) \/ Leave(m) \/ GiveUp(m)
    BY <2>2 DEF FinishJob, Leave, GiveUp, redisVars
  <2>3. CASE Vanish(m)
    BY <2>3 DEF Vanish, Gone, redisVars
  <2> QED BY <1>3, <2>1, <2>2, <2>3 DEF PollStep
<1>4. ASSUME NEW m \in Machines, Expiry(m) PROVE UNCHANGED <<row, act>> /\ RedisOK' /\ PodsOK'
  BY <1>4 DEF Expiry, KeyExpires, TokenExpires, DrainExpires, podVars
<1>5. ASSUME NEW a \in Apps, Enqueue(a) PROVE UNCHANGED <<row, act>> /\ RedisOK' /\ PodsOK'
  <2>1. qlen' \in [Apps -> 0..MaxQueue]
    BY <1>1, <1>5 DEF Enqueue
  <2> QED BY <1>5, <2>1 DEF Enqueue, podVars
<1>6. ASSUME NEW a \in Apps, IdleOut(a) \/ CooldownEnds(a) PROVE UNCHANGED <<row, act>> /\ RedisOK' /\ PodsOK'
  BY <1>6 DEF IdleOut, CooldownEnds, podVars
<1> QED BY <1>2, <1>3, <1>4, <1>5, <1>6

\* Every step keeps every variable in its domain.
LEMMA TypeStep == TypeOK /\ [Next]_vars => TypeOK'
<1> SUFFICES ASSUME TypeOK, [Next]_vars PROVE TypeOK'
  OBVIOUS
<1>1. CASE UNCHANGED vars
  BY <1>1 DEF vars, redisVars, podVars, TypeOK, RedisOK, PodsOK, ActsOK, Fit
<1>2. CASE Next
  <2>1. strays' \subseteq cloud' /\ latecomers' \subseteq cloud'
    BY <1>2 DEF Next, Watch
  <2>2. row' \subseteq Apps /\ RedisOK' /\ PodsOK'
    BY <1>2, ActorTypes, OtherTypes DEF Next, Step, Loops, Handlers, TypeOK
  <2>3. ActsOK'
    <3>1. ASSUME NEW x \in Actors, Crash(x) PROVE ActsOK'
      BY <3>1, Rests, Turned DEF Crash, Turn, TypeOK
    <3>2. ASSUME NEW x \in Loops, ScalerStep(x) PROVE ActsOK'
      BY <3>2, ScalerActs, SpawnActs DEF TypeOK, Loops
    <3>3. ASSUME UNCHANGED act PROVE ActsOK'
      BY <3>3 DEF TypeOK, ActsOK, Fit
    <3> QED BY <1>2, <3>1, <3>2, <3>3, SpawnActs, ReconcilerActs, HandlerActs, OtherTypes
            DEF Next, Step, TypeOK
  <2> QED BY <2>1, <2>2, <2>3 DEF TypeOK
<1> QED BY <1>1, <1>2

\* TypeOK holds in every reachable state.
THEOREM TypeCorrect == Spec => []TypeOK
<1>1. Init => TypeOK
  <2> SUFFICES ASSUME Init PROVE TypeOK
    OBVIOUS
  <2>1. 0 \in 0..MaxQueue
    BY FleetAssumption
  <2>2. Idle \in ActRecords
    BY <2>1 DEF Idle, ActRecords, Stages
  <2>3. ASSUME NEW x \in Actors PROVE Fit(x, Idle)
    BY DEF Fit, Idle, Spawning
  <2>4. ActsOK
    BY <2>2, <2>3 DEF Init, ActsOK
  <2> QED BY <2>1, <2>4, FleetAssumption DEF Init, TypeOK, RedisOK, PodsOK
<1> QED BY <1>1, TypeStep, PTL DEF Spec

-----------------------------------------------------------------------------
(* Tokens are one-shot.                                                    *)

\* A machine whose agent has not registered, and does not.
Newborn(m) == agent[m] \in {"boot", "gone"} /\ call[m] \in {"none", "accepted"}

\* x has a machine in hand whose token it has still to store.
Owes(x) == act[x].at \in {"clear", "token"}

\* Nobody has heard of such a machine yet, but the one who owes its token; a
\* machine that is not there has an agent that has not begun.
TokenInv ==
  /\ TokenIsOneShot
  /\ \A x \in Actors : Owes(x) =>
       /\ Newborn(act[x].m) /\ call[act[x].m] = "none" /\ act[x].m \notin token
  /\ \A x, y \in Actors : Owes(x) /\ Owes(y) /\ x # y => act[x].m # act[y].m
  /\ \A m \in Machines \ cloud : agent[m] = "boot"

\* Who steps without taking a machine in hand owes no more than before.
Steady ==
  \A x \in Actors : Owes(x)' => Owes(x) /\ act'[x].m = act[x].m

\* What the agents and their calls do when nobody takes on a debt and no token
\* is stored: they leave the tokens and the debts in peace.
Heeds(m) ==
  \/ agent'[m] = agent[m] /\ call'[m] = call[m] /\ (m \in cloud => m \in cloud')
  \/ agent'[m] = "boot" /\ call'[m] = call[m]
  \/ agent'[m] = "gone" /\ call'[m] = call[m] /\ m \in cloud'
  \/ agent'[m] = agent[m] /\ m \in cloud' /\ m \in token /\ call'[m] = "accepted"
  \/ ~Newborn(m) /\ m \notin token /\ (m \in cloud' \/ (agent'[m] = agent[m] /\ m \notin cloud))
  \/ call[m] = "accepted" /\ agent'[m] = agent[m] /\ m \notin token' /\ (m \in cloud => m \in cloud')

LEMMA SteadySteps ==
  ASSUME TypeOK, TypeOK', TokenInv, Steady, token' \subseteq token, \A m \in Machines : Heeds(m)
  PROVE  TokenInv'
<1> USE DEF TypeOK, PodsOK, TokenInv, TokenIsOneShot, Newborn, Heeds
<1>1. ASSUME NEW m \in token' PROVE Newborn(m)'
  <2>1. m \in Machines /\ m \in token
    BY <1>1 DEF RedisOK
  <2> QED BY <1>1, <2>1
<1>2. ASSUME NEW x \in Actors, Owes(x)'
      PROVE  Newborn(act[x].m)' /\ call'[act'[x].m] = "none" /\ act'[x].m \notin token'
  <2>1. Owes(x) /\ act'[x].m = act[x].m
    BY <1>2 DEF Steady
  <2>2. act[x].m \in Machines
    BY <2>1 DEF Owes, ActsOK, ActRecords, Fit, Spawning
  <2>3. Newborn(act[x].m) /\ call[act[x].m] = "none" /\ act[x].m \notin token
    BY <2>1
  <2> QED BY <2>1, <2>2, <2>3
<1>3. ASSUME NEW m \in Machines \ cloud' PROVE agent'[m] = "boot"
  BY <1>3
<1>4. ASSUME NEW x \in Actors, NEW y \in Actors, Owes(x)', Owes(y)', x # y PROVE act'[x].m # act'[y].m
  BY <1>4 DEF Steady
<1> QED BY <1>1, <1>2, <1>3, <1>4

\* A pod is made under an id nobody refers to: its agent has not begun.
LEMMA NewPod ==
  ASSUME TypeOK, TypeOK', TokenInv, NEW x \in Actors, Provision(x)
  PROVE  TokenInv'
<1> USE DEF TypeOK, PodsOK, TokenInv, TokenIsOneShot, Newborn
<1>1. PICK m \in Machines :
        /\ Create(m, act[x].app)
        /\ act' = [act EXCEPT ![x] = [act[x] EXCEPT !.at = IF x \in Apps THEN "token" ELSE "clear", !.m = m]]
  BY DEF Provision, Turn
<1>2. UNCHANGED <<token, agent, call>> /\ cloud' = cloud \cup {m}
  BY <1>1 DEF Provision, Create, redisVars
<1>3. /\ m \notin cloud \cup token /\ call[m] = "none" /\ agent[m] = "boot"
      /\ \A y \in Actors : act[y].m # m
  BY <1>1 DEF Create, Fresh
<1>4. act'[x].m = m /\ \A y \in Actors \ {x} : act'[y] = act[y]
  BY <1>1 DEF ActsOK, ActRecords
<1>5. ASSUME NEW y \in Actors, Owes(y)'
      PROVE  Newborn(act[y].m)' /\ call'[act'[y].m] = "none" /\ act'[y].m \notin token'
  <2>1. CASE y = x
    BY <1>2, <1>3, <1>4, <2>1
  <2>2. CASE y # x
    BY <1>2, <1>4, <1>5, <2>2 DEF Owes
  <2> QED BY <2>1, <2>2
<1>6. ASSUME NEW y \in Actors, NEW z \in Actors, Owes(y)', Owes(z)', y # z PROVE act'[y].m # act'[z].m
  BY <1>3, <1>4, <1>6 DEF Owes
<1> QED BY <1>2, <1>5, <1>6

\* The token of a machine is stored once, and the debt is paid.
LEMMA NewToken ==
  ASSUME TypeOK, TypeOK', TokenInv, NEW x \in Actors, StoreToken(x)
  PROVE  TokenInv'
<1> USE DEF TypeOK, PodsOK, TokenInv, TokenIsOneShot, Newborn
<1>1. /\ act[x].at = "token" /\ token' = token \cup {act[x].m}
      /\ UNCHANGED <<cloud, agent, call>>
  BY DEF StoreToken, Go, Turn, podVars
<1>2. act'[x].at = "index" /\ \A y \in Actors \ {x} : act'[y] = act[y]
  BY DEF StoreToken, Go, Turn, ActsOK, ActRecords
<1>3. ASSUME NEW y \in Actors, Owes(y)'
      PROVE  y # x /\ Owes(y) /\ act'[y] = act[y]
  BY <1>2, <1>3 DEF Owes
<1>4. Owes(x)
  BY <1>1 DEF Owes
<1>5. \A m \in token' : Newborn(m)'
  BY <1>1, <1>4
<1>6. ASSUME NEW y \in Actors, Owes(y)'
      PROVE  Newborn(act[y].m)' /\ call'[act'[y].m] = "none" /\ act'[y].m \notin token'
  BY <1>1, <1>3, <1>4, <1>6
<1>7. ASSUME NEW y \in Actors, NEW z \in Actors, Owes(y)', Owes(z)', y # z PROVE act'[y].m # act'[z].m
  BY <1>3, <1>7
<1> QED BY <1>1, <1>5, <1>6, <1>7

\* The other steps of the actors.
LEMMA ActorsHeed ==
  ASSUME TypeOK, TypeOK', TokenInv, NEW x \in Actors,
         \/ ProvisionFails(x) \/ AddToIndex(x) \/ SetKey(x) \/ Crash(x) \/ ScalerStep(x)
         \/ ReconcilerStep(x)
         \/ x \in Handlers /\ (CreateApp(x) \/ Tear(x) \/ HandlerStep(x))
  PROVE  TokenInv'
<1>1. act \in [Actors -> ActRecords]
  BY DEF TypeOK, ActsOK
<1>2. token' \subseteq token
  BY DEF ProvisionFails, AddToIndex, SetKey, Crash, ScalerStep, TickBegins, Visit, TickEnds, ListWorkers,
         Probe, Prune, ScaleUp, ScaleDown, LeaveApp, TerminateVictim, DropKey, DropFromIndex,
         ClearCooldown, ReconcilerStep, Survey, ScanIndex, Compare, CollectKey, CollectDrain,
         CollectFromIndex, SurveyEnds, CreateApp, Tear, HandlerStep, HoldScaler, Rollback, ReleaseScaler,
         Drain, ListPods, TerminateEach, AllTerminated, ForgetEach, ForgetApp, DeleteRow, redisVars
<1>3. \A m \in Machines : Heeds(m)
  <2>1. CASE UNCHANGED podVars
    BY <2>1 DEF podVars, Heeds
  <2>2. CASE ProvisionFails(x)
    BY <2>2 DEF ProvisionFails, Create, Heeds
  <2>3. ASSUME NEW m, Gone(m), UNCHANGED call PROVE \A n \in Machines : Heeds(n)
    BY <2>3 DEF Gone, Heeds, TypeOK, PodsOK
  <2>4. CASE TerminateVictim(x) \/ TerminateEach(x)
    BY <2>1, <2>3, <2>4 DEF TerminateVictim, TerminateEach, Terminate, podVars
  <2> QED BY <2>1, <2>2, <2>4
          DEF AddToIndex, SetKey, Crash, ScalerStep, TickBegins, Visit, TickEnds, ListWorkers, Probe, Prune,
              ScaleUp, ScaleDown, LeaveApp, DropKey, DropFromIndex, ClearCooldown, ReconcilerStep, Survey,
              ScanIndex, Compare, CollectKey, CollectDrain, CollectFromIndex, SurveyEnds, CreateApp, Tear,
              HandlerStep, HoldScaler, Rollback, ReleaseScaler, Drain, ListPods, AllTerminated, ForgetEach,
              ForgetApp, DeleteRow
<1>4. ASSUME NEW r, act' = [act EXCEPT ![x] = r],
             r.at \in {"clear", "token"} => Owes(x) /\ r.m = act[x].m
      PROVE  Steady
  BY <1>1, <1>4 DEF Steady, Owes
<1>5. ASSUME act'[x].at \notin {"clear", "token"}, \A y \in Actors \ {x} : act'[y] = act[y]
      PROVE  Steady
  BY <1>5 DEF Steady, Owes
<1>6. Idle.at = "idle" /\ \A t \in {"app", "provision", "terminate"} : Onward(x, t).at = t
  BY DEF Idle, Onward
<1>7. Steady
  <2> USE <1>1, <1>4 DEF Turn, ActRecords
  <2>1. CASE ProvisionFails(x) \/ AddToIndex(x) \/ SetKey(x) \/ Crash(x)
    <3>1. CASE ProvisionFails(x)
      BY <1>6, <3>1 DEF ProvisionFails, Go
    <3>2. CASE AddToIndex(x)
      BY <3>2 DEF AddToIndex, Go
    <3>3. CASE SetKey(x)
      <4>1. act'[x].at \notin {"clear", "token"}
        <5>1. CASE x \in Apps
          BY <3>3, <5>1 DEF SetKey, Go
        <5>2. CASE x \notin Apps /\ act[x].n = 1
          BY <3>3, <5>2, ZenonT(60) DEF SetKey, Onward, Idle
        <5>3. CASE x \notin Apps /\ act[x].n # 1
          <6>1. act'[x] = [act[x] EXCEPT !.at = "provision", !.n = @ - 1, !.m = None]
            BY <3>3, <5>3 DEF SetKey
          <6>2. \A k : [act[x] EXCEPT !.at = "provision", !.n = k, !.m = None].at = "provision"
            OBVIOUS
          <6> QED BY <6>1, <6>2
        <5> QED BY <5>1, <5>2, <5>3
      <4>2. \A y \in Actors \ {x} : act'[y] = act[y]
        BY <3>3 DEF SetKey, Go
      <4> QED BY <1>5, <4>1, <4>2
    <3>4. CASE Crash(x)
      BY <1>6, <3>4 DEF Crash
    <3> QED BY <2>1, <3>1, <3>2, <3>3, <3>4
  <2>2. CASE ScalerStep(x)
    <3>1. CASE TickBegins(x)
      BY <3>1 DEF TickBegins, Idle
    <3>2. CASE Visit(x)
      BY <3>2 DEF Visit, Idle
    <3>3. CASE TickEnds(x) \/ LeaveApp(x) \/ DropFromIndex(x)
      BY <1>6, <3>3 DEF TickEnds, LeaveApp, DropFromIndex
    <3>4. CASE ListWorkers(x) \/ Prune(x)
      <4>1. act'[x].at \notin {"clear", "token"}
        BY <3>4, ZenonT(60) DEF ListWorkers, Prune
      <4>2. \A y \in Actors \ {x} : act'[y] = act[y]
        BY <3>4 DEF ListWorkers, Prune
      <4> QED BY <1>5, <4>1, <4>2
    <3>5. CASE Probe(x)
      <4>1. act'[x].at \notin {"clear", "token"}
        BY <3>5 DEF Probe
      <4>2. \A y \in Actors \ {x} : act'[y] = act[y]
        BY <3>5 DEF Probe
      <4> QED BY <1>5, <4>1, <4>2
    <3>6. CASE ScaleUp(x)
      BY <3>6 DEF ScaleUp, Onward, Idle
    <3>7. CASE ScaleDown(x)
      BY <3>7 DEF ScaleDown, Onward, Idle
    <3>8. CASE TerminateVictim(x)
      BY <1>6, <3>8 DEF TerminateVictim, Go
    <3>9. CASE DropKey(x)
      BY <3>9 DEF DropKey, Go
    <3>10. CASE ClearCooldown(x)
      BY <3>10 DEF ClearCooldown, Go, Owes
    <3> QED BY <2>2, <3>1, <3>2, <3>3, <3>4, <3>5, <3>6, <3>7, <3>8, <3>9, <3>10 DEF ScalerStep
  <2>3. CASE ReconcilerStep(x)
    <3>1. CASE Survey(x)
      BY <3>1 DEF Survey, Idle
    <3>2. CASE ScanIndex(x)
      <4>1. act'[x].at \notin {"clear", "token"}
        BY <3>2 DEF ScanIndex
      <4>2. \A y \in Actors \ {x} : act'[y] = act[y]
        BY <3>2 DEF ScanIndex
      <4> QED BY <1>5, <4>1, <4>2
    <3>3. CASE Compare(x) \/ CollectDrain(x)
      BY <3>3, ZenonT(60) DEF Compare, CollectDrain
    <3>4. CASE CollectKey(x)
      <4>1. act'[x].at \notin {"clear", "token"}
        BY <3>4 DEF CollectKey
      <4>2. \A y \in Actors \ {x} : act'[y] = act[y]
        BY <3>4 DEF CollectKey
      <4> QED BY <1>5, <4>1, <4>2
    <3>5. CASE CollectFromIndex(x)
      <4>1. act'[x].at \notin {"clear", "token"}
        BY <3>5 DEF CollectFromIndex
      <4>2. \A y \in Actors \ {x} : act'[y] = act[y]
        BY <3>5 DEF CollectFromIndex
      <4> QED BY <1>5, <4>1, <4>2
    <3>6. CASE SurveyEnds(x)
      BY <1>6, <3>6 DEF SurveyEnds, Done
    <3> QED BY <2>3, <3>1, <3>2, <3>3, <3>4, <3>5, <3>6 DEF ReconcilerStep
  <2>4. CASE CreateApp(x) \/ Tear(x)
    BY <2>4 DEF CreateApp, Tear, Idle
  <2>5. CASE HandlerStep(x)
    <3>1. CASE HoldScaler(x) \/ Rollback(x) \/ ReleaseScaler(x) \/ DeleteRow(x)
      BY <1>6, <3>1 DEF HoldScaler, Rollback, ReleaseScaler, DeleteRow, Go
    <3>2. CASE Drain(x) \/ TerminateEach(x) \/ ForgetEach(x)
      BY <3>2 DEF Drain, TerminateEach, ForgetEach, Each
    <3>3. CASE ListPods(x)
      <4>1. act'[x].at \notin {"clear", "token"}
        BY <3>3 DEF ListPods, Done
      <4>2. \A y \in Actors \ {x} : act'[y] = act[y]
        BY <3>3 DEF ListPods, Done
      <4> QED BY <1>5, <4>1, <4>2
    <3>4. CASE AllTerminated(x)
      BY <3>4 DEF AllTerminated, Done
    <3>5. CASE ForgetApp(x)
      BY <1>6, <3>5 DEF ForgetApp, Done
    <3> QED BY <2>5, <3>1, <3>2, <3>3, <3>4, <3>5 DEF HandlerStep
  <2> QED BY <2>1, <2>2, <2>3, <2>4, <2>5
<1> QED BY <1>2, <1>3, <1>7, SteadySteps

\* Agents register with a token, and burn it; clocks only take tokens away.
LEMMA AgentsHeed ==
  ASSUME TypeOK, TypeOK', TokenInv,
         \/ \E m \in Machines : CallStep(m) \/ PollStep(m) \/ GiveUp(m) \/ Heartbeat(m) \/ Expiry(m) \/ Vanish(m)
         \/ \E a \in Apps : Enqueue(a) \/ IdleOut(a) \/ CooldownEnds(a)
  PROVE  TokenInv'
<1>1. UNCHANGED act
  BY OtherTypes
<1>2. Steady
  BY <1>1 DEF Steady, Owes
<1>3. \A m \in token : Newborn(m)
  BY DEF TokenInv, TokenIsOneShot, Newborn
<1> USE DEF TypeOK, PodsOK
<1>4. ASSUME UNCHANGED podVars, token' \subseteq token PROVE TokenInv'
  BY <1>2, <1>4, SteadySteps DEF podVars, Heeds
<1>5. ASSUME NEW m \in Machines, CallStep(m) \/ Heartbeat(m) \/ Leave(m) \/ GiveUp(m)
      PROVE  token' \subseteq token /\ Heeds(m) /\ \A n \in Machines \ {m} : Heeds(n)
  <2> USE DEF Heeds, Newborn, Call, Runs, redisVars
  <2>1. CASE PostRegister(m)
    BY <2>1 DEF PostRegister
  <2>2. CASE BurnToken(m)
    BY <2>2 DEF BurnToken
  <2>3. CASE Enroll(m) \/ HeartbeatJoin(m)
    BY <1>3, <2>3 DEF Enroll, HeartbeatJoin
  <2>4. CASE Join(m)
    BY <1>3, <2>4 DEF Join
  <2>5. CASE HeartbeatReply(m)
    BY <1>3, <2>5 DEF HeartbeatReply
  <2>6. CASE Heartbeat(m)
    BY <1>3, <2>6 DEF Heartbeat
  <2>7. CASE Leave(m) \/ GiveUp(m)
    BY <2>7 DEF Leave, GiveUp
  <2> QED BY <1>5, <2>1, <2>2, <2>3, <2>4, <2>5, <2>6, <2>7 DEF CallStep
<1>6. ASSUME NEW m \in Machines, CallStep(m) \/ Heartbeat(m) \/ Leave(m) \/ GiveUp(m)
      PROVE  TokenInv'
  BY <1>2, <1>5, <1>6, SteadySteps
<1>7. ASSUME NEW m \in Machines, Vanish(m) PROVE TokenInv'
  BY <1>2, <1>7, SteadySteps DEF Vanish, Gone, Heeds, redisVars
<1>8. ASSUME NEW m \in Machines, TakeJob(m) \/ FinishJob(m) PROVE TokenInv'
  BY <1>2, <1>8, SteadySteps DEF TakeJob, FinishJob, Heeds, redisVars
<1>9. ASSUME NEW m \in Machines, Expiry(m) PROVE TokenInv'
  BY <1>4, <1>9 DEF Expiry, KeyExpires, TokenExpires, DrainExpires
<1>10. ASSUME NEW a \in Apps, Enqueue(a) \/ IdleOut(a) \/ CooldownEnds(a) PROVE TokenInv'
  BY <1>4, <1>10 DEF Enqueue, IdleOut, CooldownEnds
<1> QED BY <1>6, <1>7, <1>8, <1>9, <1>10 DEF PollStep

\* Once burned, a token never comes back; until then its agent has not joined.
THEOREM OneShot == Spec => []TokenIsOneShot
<1>1. Init => TokenInv
  BY DEF Init, TokenInv, TokenIsOneShot, Owes, Idle
<1>2. TypeOK /\ TypeOK' /\ TokenInv /\ [Next]_vars => TokenInv'
  <2> SUFFICES ASSUME TypeOK, TypeOK', TokenInv, [Next]_vars PROVE TokenInv'
    OBVIOUS
  <2>1. CASE UNCHANGED vars
    BY <2>1 DEF vars, redisVars, podVars, TokenInv, TokenIsOneShot, Owes, Newborn
  <2>2. CASE Next
    BY <2>2, NewPod, NewToken, ActorsHeed, AgentsHeed DEF Next, Step, Loops, Handlers
  <2> QED BY <2>1, <2>2
<1>3. TokenInv => TokenIsOneShot
  BY DEF TokenInv
<1> QED BY <1>1, <1>2, <1>3, TypeCorrect, PTL DEF Spec

-----------------------------------------------------------------------------
(* A finished delete leaves latecomers only.                               *)

\* The pods of an app that a delete has to tear down.
Due(a) == PodsOf(a) \ latecomers

\* What a handler at each stage has made sure of.
Reckons(a) ==
  /\ act[a].at # "rollback"
  /\ act[a].at \in {"drain", "terminate", "forget"} => act[a].for \in {"restart", "delete"}
  /\ act[a].at = "commit" => act[a].for = "delete"
  /\ act[a].for = "delete" /\ act[a].at = "terminate" => Due(a) \subseteq act[a].left
  /\ act[a].for = "delete" /\ act[a].at \in {"forget", "commit"} => Due(a) = {}

DeleteInv ==
  /\ \A a \in Apps \ row : Due(a) = {}
  /\ \A a \in Handlers : Reckons(a)

\* Once its delete has the list, every new pod of an app is a latecomer.
LEMMA NothingFallsDue ==
  ASSUME TypeOK, Watch, NEW a \in Apps, Listed(a)
  PROVE  Due(a)' \subseteq Due(a) /\ Due(a)' \subseteq cloud'
  BY DEF Watch, Due, PodsOf, TypeOK

\* An app whose handler stands still, and whose row is not removed.
LEMMA StandStill ==
  ASSUME TypeOK, TypeOK', DeleteInv, Watch, NEW a \in Apps,
         a \in row => a \in row', a \in Handlers => act'[a] = act[a]
  PROVE  /\ a \notin row' => Due(a)' = {}
         /\ a \in Handlers => Reckons(a)'
<1>1. a \notin row' => Due(a)' = {}
  BY NothingFallsDue DEF DeleteInv, Listed
<1>2. ASSUME a \in Handlers PROVE Reckons(a)'
  <2>1. Reckons(a) /\ act'[a] = act[a] /\ a \in Actors
    BY <1>2 DEF DeleteInv, Handlers
  <2>2. act[a].for = "delete" /\ act[a].at \in {"terminate", "forget", "commit"}
          => Due(a)' \subseteq Due(a)
    BY <2>1, NothingFallsDue DEF Listed
  <2> QED BY <2>1, <2>2 DEF Reckons
<1> QED BY <1>1, <1>2

\* No step moves an actor but its own, and only its own handler takes an app's row.
LEMMA OwnBusiness ==
  ASSUME TypeOK, NEW x \in Actors,
         \/ Provision(x) \/ ProvisionFails(x) \/ StoreToken(x) \/ AddToIndex(x) \/ SetKey(x) \/ Crash(x)
         \/ ScalerStep(x) \/ ReconcilerStep(x)
         \/ x \in Handlers /\ (CreateApp(x) \/ Tear(x) \/ HandlerStep(x))
  PROVE  /\ \A y \in Actors \ {x} : act'[y] = act[y]
         /\ \A a \in row : a \in row' \/ (a = x /\ (Rollback(x) \/ DeleteRow(x)))
<1>1. \A s, r : Turn(x, s, r) => \A y \in Actors \ {x} : act'[y] = act[y]
  BY DEF Turn, TypeOK, ActsOK
<1>2. \A y \in Actors \ {x} : act'[y] = act[y]
  <2>1. CASE Provision(x) \/ ProvisionFails(x) \/ StoreToken(x) \/ AddToIndex(x)
    BY <1>1, <2>1 DEF Provision, ProvisionFails, StoreToken, AddToIndex, Go
  <2>2. CASE SetKey(x)
    BY <1>1, <2>2 DEF SetKey, Go
  <2>3. CASE Crash(x)
    BY <2>3 DEF Crash, TypeOK, ActsOK
  <2>4. CASE ScalerStep(x)
    BY <1>1, <2>4 DEF ScalerStep, TickBegins, Visit, TickEnds, ListWorkers, Probe, Prune, ScaleUp, ScaleDown,
       LeaveApp, TerminateVictim, DropKey, DropFromIndex, ClearCooldown, Go
  <2>5. CASE ReconcilerStep(x)
    BY <1>1, <2>5 DEF ReconcilerStep, Survey, ScanIndex, Compare, CollectKey, CollectDrain, CollectFromIndex,
       SurveyEnds, Done
  <2>6. CASE CreateApp(x) \/ Tear(x)
    BY <1>1, <2>6 DEF CreateApp, Tear
  <2>7. CASE HandlerStep(x)
    BY <1>1, <2>7 DEF HandlerStep, HoldScaler, Rollback, ReleaseScaler, Drain, ListPods, TerminateEach,
       AllTerminated, ForgetEach, ForgetApp, DeleteRow, Go, Each, Done
  <2> QED BY <2>1, <2>2, <2>3, <2>4, <2>5, <2>6, <2>7
<1>3. \/ row \subseteq row'
      \/ (Rollback(x) \/ DeleteRow(x)) /\ row' = row \ {x}
  BY DEF Provision, ProvisionFails, StoreToken, AddToIndex, SetKey, Crash, ScalerStep, TickBegins, Visit,
     TickEnds, ListWorkers, Probe, Prune, ScaleUp, ScaleDown, LeaveApp, TerminateVictim, DropKey,
     DropFromIndex, ClearCooldown, ReconcilerStep, Survey, ScanIndex, Compare, CollectKey, CollectDrain,
     CollectFromIndex, SurveyEnds, CreateApp, Tear, HandlerStep, HoldScaler, Rollback, ReleaseScaler,
     Drain, ListPods, TerminateEach, AllTerminated, ForgetEach, ForgetApp, DeleteRow
<1> QED BY <1>2, <1>3

\* The provider neither refuses, nor answers late, nor says it did what it did not.
ProviderObeys == {"fail", "lost", "silent"} \cap Faults = {}

\* A handler's own step.
LEMMA OwnHandlerStep ==
  ASSUME ProviderObeys, TypeOK, TypeOK', DeleteInv, Watch, NEW a \in Handlers,
         \/ Provision(a) \/ ProvisionFails(a) \/ StoreToken(a) \/ AddToIndex(a) \/ SetKey(a) \/ Crash(a)
         \/ CreateApp(a) \/ Tear(a) \/ HandlerStep(a)
  PROVE  (a \notin row' => Due(a)' = {}) /\ Reckons(a)'
<1>1. /\ a \in Apps /\ a \in Actors /\ act[a] \in ActRecords /\ Reckons(a)
      /\ \A r : Turn(a, act[a].at, r) => act'[a] = r
  BY DEF Handlers, TypeOK, ActsOK, DeleteInv, Turn
<1>2. a \notin row => Due(a)' = {}
  BY <1>1, NothingFallsDue DEF DeleteInv, Listed
<1>3. ASSUME act'[a].at \notin {"rollback", "drain", "terminate", "forget", "commit"} PROVE Reckons(a)'
  BY <1>3 DEF Reckons
<1> DEFINE Kept == a \in row => a \in row'
<1>4. CASE Provision(a)
  <2>1. act'[a].at = "token" /\ row' = row
    BY <1>1, <1>4, ZenonT(60) DEF Provision, Turn, ActRecords
  <2> QED BY <1>2, <1>3, <2>1
<1>5. CASE ProvisionFails(a)
  BY <1>5 DEF ProvisionFails, ProviderObeys
<1>6. CASE StoreToken(a) \/ AddToIndex(a) \/ SetKey(a) \/ HoldScaler(a)
  <2>1. act'[a].at \in {"index", "key", "uncool", "provision"} /\ row' = row
    BY <1>1, <1>6 DEF StoreToken, AddToIndex, SetKey, HoldScaler, Go, Turn, ActRecords
  <2> QED BY <1>2, <1>3, <2>1
<1>7. CASE Crash(a) \/ ReleaseScaler(a)
  <2>1. act'[a].at = "idle" /\ row' = row
    BY <1>1, <1>7 DEF Crash, ReleaseScaler, Turn, Idle, ActRecords, TypeOK, ActsOK
  <2> QED BY <1>2, <1>3, <2>1
<1>8. CASE CreateApp(a)
  <2>1. act'[a].at \in {"idle", "cool"} /\ a \in row'
    BY <1>1, <1>8 DEF CreateApp, Turn, Idle
  <2> QED BY <1>3, <2>1
<1>9. CASE Rollback(a)
  BY <1>1, <1>9 DEF Rollback, Go, Turn, Reckons
<1>10. CASE Tear(a)
  <2>1. PICK r \in {"restart", "delete"} :
          act'[a] = [Idle EXCEPT !.at = "drain", !.for = r, !.app = a, !.left = index[a], !.got = index[a]]
    BY <1>1, <1>10 DEF Tear, Turn
  <2>2. act'[a].at = "drain" /\ act'[a].for = r
    BY <2>1 DEF Idle
  <2>3. a \in row'
    BY <1>10 DEF Tear
  <2> QED BY <2>2, <2>3 DEF Reckons
<1>11. CASE Drain(a)
  <2>1. act'[a].at = "drain" /\ act'[a].for = act[a].for /\ act[a].at = "drain" /\ row' = row
    BY <1>1, <1>11 DEF Drain, Each, Turn, ActRecords
  <2> QED BY <1>1, <1>2, <2>1 DEF Reckons
<1>12. CASE ListPods(a)
  <2>1. /\ act[a].at = "drain" /\ row' = row /\ cloud' = cloud
        /\ act'[a].at = "terminate" /\ act'[a].for = act[a].for
        /\ PodsOf(a) \subseteq act'[a].left
    <3>1. PICK found \in {IF Filtering THEN PodsOf(a) ELSE cloud} :
            Done(a, "drain", [act[a] EXCEPT !.at = "terminate", !.left = act[a].got \cup found,
                                            !.got = @ \cup found])
      BY <1>12 DEF ListPods, ProviderObeys
    <3>2. /\ act[a].at = "drain"
          /\ act'[a] = [act[a] EXCEPT !.at = "terminate", !.left = act[a].got \cup found,
                                      !.got = @ \cup found]
      BY <1>1, <3>1 DEF Done, Turn
    <3>3. PodsOf(a) \subseteq found
      BY DEF PodsOf
    <3>4. act'[a].at = "terminate" /\ act'[a].for = act[a].for /\ act'[a].left = act[a].got \cup found
      BY <1>1, <3>2 DEF ActRecords
    <3> QED BY <1>12, <3>2, <3>3, <3>4 DEF ListPods, podVars
  <2>2. Due(a)' \subseteq act'[a].left
    BY <2>1 DEF Due, PodsOf
  <2> QED BY <1>1, <1>2, <2>1, <2>2 DEF Reckons
<1>13. CASE TerminateEach(a)
  <2>1. PICK m \in act[a].left :
          /\ act[a].at = "terminate" /\ act' = [act EXCEPT ![a] = [act[a] EXCEPT !.left = @ \ {m}]]
          /\ cloud' = cloud \ {m}
    BY <1>13 DEF TerminateEach, Each, Turn, Terminate, Gone, ProviderObeys
  <2>2. /\ act'[a].at = "terminate" /\ act'[a].for = act[a].for /\ act'[a].left = act[a].left \ {m}
        /\ row' = row
    BY <1>1, <1>13, <2>1 DEF ActRecords, TypeOK, ActsOK, TerminateEach
  <2>3. act[a].for = "delete" => Due(a)' \subseteq Due(a) /\ Due(a)' \subseteq cloud'
    BY <1>1, <2>1, NothingFallsDue DEF Listed
  <2>4. act[a].for = "delete" => Due(a)' \subseteq act'[a].left
    BY <1>1, <2>1, <2>2, <2>3 DEF Reckons
  <2> QED BY <1>1, <1>2, <2>1, <2>2, <2>4 DEF Reckons
<1>14. CASE AllTerminated(a)
  <2>1. /\ act[a].at = "terminate" /\ act[a].left = {} /\ row' = row
        /\ act'[a].at = "forget" /\ act'[a].for = act[a].for
    <3>1. /\ act[a].at = "terminate" /\ act[a].left = {}
          /\ act'[a] = [act[a] EXCEPT !.at = "forget", !.left = act[a].got]
      BY <1>1, <1>14 DEF AllTerminated, Done, Turn
    <3>2. act'[a].at = "forget" /\ act'[a].for = act[a].for
      BY <1>1, <3>1 DEF ActRecords
    <3> QED BY <1>14, <3>1, <3>2 DEF AllTerminated
  <2>2. act[a].for = "delete" => Due(a)' = {}
    BY <1>1, <2>1, NothingFallsDue DEF Listed, Reckons
  <2> QED BY <1>1, <1>2, <2>1, <2>2 DEF Reckons
<1>15. CASE ForgetEach(a)
  <2>1. /\ act[a].at = "forget" /\ row' = row
        /\ act'[a].at = "forget" /\ act'[a].for = act[a].for
    BY <1>1, <1>15 DEF ForgetEach, Each, Turn, ActRecords
  <2>2. act[a].for = "delete" => Due(a)' = {}
    BY <1>1, <2>1, NothingFallsDue DEF Listed, Reckons
  <2> QED BY <1>1, <1>2, <2>1, <2>2 DEF Reckons
<1>16. CASE ForgetApp(a)
  <2>1. CASE act[a].for = "restart"
    <3>1. act'[a].at = "idle" /\ row' = row
      BY <1>1, <1>16, <2>1 DEF ForgetApp, Done, Turn, Idle
    <3> QED BY <1>2, <1>3, <3>1
  <2>2. CASE act[a].for # "restart"
    <3>1. /\ act[a].at = "forget" /\ row' = row
          /\ act'[a].at = "commit" /\ act'[a].for = act[a].for
      BY <1>1, <1>16, <2>2 DEF ForgetApp, Done, Turn, ActRecords
    <3>2. act[a].for = "delete"
      BY <1>1, <2>2, <3>1 DEF Reckons
    <3>3. Due(a)' = {}
      BY <1>1, <3>1, <3>2, NothingFallsDue DEF Listed, Reckons
    <3> QED BY <1>2, <3>1, <3>2, <3>3 DEF Reckons
  <2> QED BY <2>1, <2>2
<1>17. CASE DeleteRow(a)
  <2>1. act[a].at = "commit" /\ act'[a].at = "idle"
    BY <1>1, <1>17 DEF DeleteRow, Turn, Idle
  <2>2. Due(a)' = {}
    BY <1>1, <2>1, NothingFallsDue DEF Listed, Reckons
  <2> QED BY <1>3, <2>1, <2>2
<1> QED BY <1>4, <1>5, <1>6, <1>7, <1>8, <1>9, <1>10, <1>11, <1>12, <1>13, <1>14, <1>15, <1>16, <1>17
        DEF HandlerStep

\* Every step keeps the account.
LEMMA DeleteStep ==
  ASSUME ProviderObeys, TypeOK, TypeOK', DeleteInv, [Next]_vars
  PROVE  DeleteInv'
<1>1. CASE UNCHANGED vars
  BY <1>1 DEF vars, podVars, DeleteInv, Due, PodsOf, Reckons
<1>2. CASE Next
  <2> SUFFICES ASSUME NEW a \in Apps
               PROVE  (a \notin row' => Due(a)' = {}) /\ (a \in Handlers => Reckons(a)')
    BY DEF DeleteInv, Handlers
  <2>1. Watch
    BY <1>2 DEF Next
  <2>2. ASSUME NEW x \in Actors,
               \/ Provision(x) \/ ProvisionFails(x) \/ StoreToken(x) \/ AddToIndex(x) \/ SetKey(x) \/ Crash(x)
               \/ x \in Loops /\ ScalerStep(x)
               \/ x = Reconciler /\ ReconcilerStep(x)
               \/ x \in Handlers /\ (CreateApp(x) \/ Tear(x) \/ HandlerStep(x))
        PROVE  (a \notin row' => Due(a)' = {}) /\ (a \in Handlers => Reckons(a)')
    <3>1. CASE x = a
      <4>1. a \in Handlers /\ a \notin Loops /\ a # Reconciler
        BY <3>1, FleetAssumption DEF Handlers, Loops
      <4> QED BY <2>1, <2>2, <3>1, <4>1, OwnHandlerStep
    <3>2. CASE x # a
      <4>1. (a \in Handlers => act'[a] = act[a]) /\ (a \in row => a \in row')
        BY <2>2, <3>2, OwnBusiness DEF Handlers
      <4> QED BY <2>1, <4>1, StandStill
    <3> QED BY <3>1, <3>2
  <2>3. ASSUME UNCHANGED <<row, act>>
        PROVE  (a \notin row' => Due(a)' = {}) /\ (a \in Handlers => Reckons(a)')
    BY <2>1, <2>3, StandStill
  <2>4. CASE \/ \E m \in Machines : CallStep(m) \/ PollStep(m) \/ GiveUp(m) \/ Heartbeat(m) \/ Expiry(m) \/ Vanish(m)
             \/ \E b \in Apps : Enqueue(b) \/ IdleOut(b) \/ CooldownEnds(b)
    BY <2>3, <2>4, OtherTypes
  <2> QED BY <1>2, <2>2, <2>4 DEF Next, Step, Loops, Handlers
<1> QED BY <1>1, <1>2

\* As long as the provider does what it is asked, a delete that ran to its end
\* leaves no pod of its app but those made after it had the list, whatever the
\* autoscalers of any number of replicas, the agents and the clocks do meanwhile.
THEOREM DeleteIsThorough ==
  ASSUME ProviderObeys PROVE Spec => []DeleteSparesOnlyLatecomers
<1>1. Init => DeleteInv
  BY DEF Init, DeleteInv, Due, PodsOf, Reckons, Idle, Handlers
<1>2. TypeOK /\ TypeOK' /\ DeleteInv /\ [Next]_vars => DeleteInv'
  BY DeleteStep
<1>3. TypeOK /\ DeleteInv => DeleteSparesOnlyLatecomers
  BY FleetAssumption DEF DeleteInv, Due, DeleteSparesOnlyLatecomers
<1> QED BY <1>1, <1>2, <1>3, TypeCorrect, PTL DEF Spec

-----------------------------------------------------------------------------
(* The cap, but for strays.                                                *)

\* The pods of an app that somebody has kept in sight from the start.
Watched(a) == PodsOf(a) \ strays

\* One autoscaler, and no first worker made behind its back.
ScalerAlone == (\A x, y \in Loops : x = y) /\ "create" \notin Requests

\* What the autoscaler has counted, and has still to add, fits the cap.
Counts(x) ==
  /\ act[x].at \in {"probe", "prune"} => Watched(act[x].app) \subseteq act[x].left \cup act[x].got
  /\ act[x].at = "provision" =>
       Cardinality(Watched(act[x].app)) + act[x].n <= Config[act[x].app].max
  /\ act[x].at \in Spawning =>
       Cardinality(Watched(act[x].app)) + act[x].n <= Config[act[x].app].max + 1

CapInv ==
  /\ \A x \in Actors \ Loops : act[x].at \notin Spawning \cup {"provision", "cool"}
  /\ \A m \in cloud \ strays : Tracked(m) \/ InHand(m)
  /\ \A a \in Apps : Cardinality(Watched(a)) <= Config[a].max
  /\ \A x \in Loops : Counts(x)

LEMMA WatchedAreFew ==
  ASSUME TypeOK, NEW a
  PROVE  IsFiniteSet(Watched(a)) /\ Cardinality(Watched(a)) \in Nat
<1>1. Watched(a) \subseteq Machines
  BY DEF Watched, PodsOf, TypeOK, PodsOK
<1> QED BY <1>1, FleetAssumption, FS_Subset, FS_CardinalityType

\* Most steps take pods out of sight, or leave them.
Fewer == \A a \in Apps : Watched(a)' \subseteq Watched(a)

LEMMA FewerAreFewer ==
  ASSUME TypeOK, Fewer, NEW a \in Apps
  PROVE  /\ Cardinality(Watched(a)') \in Nat /\ Cardinality(Watched(a)) \in Nat
         /\ Cardinality(Watched(a)') <= Cardinality(Watched(a))
BY WatchedAreFew, FS_Subset, FS_CardinalityType DEF Fewer

\* No pod of an app comes into sight unless an actor takes it in hand.
LEMMA NobodyAppears ==
  ASSUME TypeOK, Next, \A x \in Actors : ~Provision(x)
  PROVE  Fewer
<1>1. Watch
  BY DEF Next
<1>2. ASSUME cloud' \subseteq cloud PROVE Fewer
  BY <1>1, <1>2 DEF Watch, Fewer, Watched, PodsOf
<1>3. ASSUME NEW x \in Actors, ProvisionFails(x), NEW m \in Machines, Create(m, act[x].app) PROVE Fewer
  <2>1. /\ cloud' = cloud \cup {m} /\ m \notin cloud /\ key'[m] = "none"
        /\ \A y \in Actors : act[y].m # m
    BY <1>3 DEF ProvisionFails, Create, Fresh
  <2>2. m # None
    BY FleetAssumption
  <2>3. \/ act' = [act EXCEPT ![x] = [act[x] EXCEPT !.at = "rollback"]]
        \/ act' = [act EXCEPT ![x] = Onward(x, "app")]
    BY <1>3 DEF ProvisionFails, Go, Turn
  <2>4. \A y \in Actors : act'[y].m # m
    BY <2>1, <2>2, <2>3, ZenonT(60) DEF TypeOK, ActsOK, ActRecords, Onward, Idle
  <2>5. ~(Tracked(m)' \/ InHand(m)')
    BY <2>1, <2>4 DEF Tracked, InHand
  <2> QED BY <1>1, <2>1, <2>5 DEF Watch, Fewer, Watched, PodsOf
<1>4. ASSUME NEW x \in Actors,
             \/ ProvisionFails(x) \/ StoreToken(x) \/ AddToIndex(x) \/ SetKey(x) \/ Crash(x)
             \/ ScalerStep(x) \/ ReconcilerStep(x) \/ CreateApp(x) \/ Tear(x) \/ HandlerStep(x)
      PROVE  cloud' \subseteq cloud \/ (ProvisionFails(x) /\ \E m \in Machines : Create(m, act[x].app))
  <2>1. CASE ProvisionFails(x)
    BY <2>1 DEF ProvisionFails
  <2>2. CASE TerminateVictim(x) \/ TerminateEach(x)
    BY <2>2 DEF TerminateVictim, TerminateEach, Terminate, Gone
  <2> QED BY <1>4, <2>1, <2>2
          DEF StoreToken, AddToIndex, SetKey, Crash, ScalerStep, TickBegins, Visit, TickEnds, ListWorkers,
              Probe, Prune, ScaleUp, ScaleDown, LeaveApp, DropKey, DropFromIndex, ClearCooldown,
              ReconcilerStep, Survey, ScanIndex, Compare, CollectKey, CollectDrain, CollectFromIndex,
              SurveyEnds, CreateApp, Tear, HandlerStep, HoldScaler, Rollback, ReleaseScaler, Drain,
              ListPods, AllTerminated, ForgetEach, ForgetApp, DeleteRow, podVars
<1>5. ASSUME NEW m \in Machines,
             CallStep(m) \/ PollStep(m) \/ GiveUp(m) \/ Heartbeat(m) \/ Expiry(m) \/ Vanish(m)
      PROVE  cloud' \subseteq cloud
  BY <1>5 DEF CallStep, PostRegister, BurnToken, Enroll, Join, HeartbeatJoin, HeartbeatReply, PollStep,
     TakeJob, FinishJob, Leave, GiveUp, Heartbeat, Expiry, KeyExpires, TokenExpires, DrainExpires, Vanish,
     Gone, podVars
<1>6. ASSUME NEW a \in Apps, Enqueue(a) \/ IdleOut(a) \/ CooldownEnds(a) PROVE cloud' \subseteq cloud
  BY <1>6 DEF Enqueue, IdleOut, CooldownEnds, podVars
<1> QED BY <1>2, <1>3, <1>4, <1>5, <1>6 DEF Next, Step, Loops, Handlers

\* An autoscaler that stands still has counted no less than there is.
LEMMA CountStands ==
  ASSUME TypeOK, Fewer, NEW x \in Loops, Counts(x), act'[x] = act[x]
  PROVE  Counts(x)'
<1>1. act[x] \in ActRecords /\ Fit(x, act[x]) /\ x \in Actors
  BY DEF TypeOK, ActsOK, Loops
<1>2. act[x].at \in Spawning \cup {"probe", "prune", "provision"} => act[x].app \in Apps
  BY <1>1 DEF Fit, ActRecords, Spawning
<1>3. act[x].app \in Apps =>
        /\ Watched(act[x].app)' \subseteq Watched(act[x].app)
        /\ Cardinality(Watched(act[x].app)') \in Nat /\ Cardinality(Watched(act[x].app)) \in Nat
        /\ Cardinality(Watched(act[x].app)') <= Cardinality(Watched(act[x].app))
        /\ Config[act[x].app].max \in Nat
  BY FewerAreFewer, FleetAssumption DEF Fewer
<1>4. act[x].n \in Nat
  BY <1>1 DEF ActRecords
<1>5. PICK a : a = act[x].app
  OBVIOUS
<1>6. Watched(act[x].app)' = Watched(a)' /\ act'[x].app = a
  BY <1>5
<1> QED BY <1>2, <1>3, <1>4, <1>5, <1>6 DEF Counts, Spawning

\* Nobody else spawns.
LEMMA OthersNeverSpawn ==
  ASSUME ScalerAlone, TypeOK, CapInv, NEW x \in Actors \ Loops,
         \/ Provision(x) \/ ProvisionFails(x) \/ StoreToken(x) \/ AddToIndex(x) \/ SetKey(x) \/ Crash(x)
         \/ ReconcilerStep(x)
         \/ x \in Handlers /\ (CreateApp(x) \/ Tear(x) \/ HandlerStep(x))
  PROVE  act'[x].at \notin Spawning \cup {"provision", "cool"} /\ ~Provision(x)
<1>1. act[x] \in ActRecords /\ act[x].at \notin Spawning \cup {"provision", "cool"}
  BY DEF TypeOK, ActsOK, CapInv
<1>2. \A r : act' = [act EXCEPT ![x] = r] => act'[x] = r
  BY DEF TypeOK, ActsOK
<1>3. ~(Provision(x) \/ ProvisionFails(x) \/ StoreToken(x) \/ AddToIndex(x) \/ SetKey(x) \/ HoldScaler(x))
  BY <1>1 DEF Provision, ProvisionFails, StoreToken, AddToIndex, SetKey, HoldScaler, Go, Turn, Spawning
<1>4. CASE Crash(x)
  BY <1>3, <1>4 DEF Crash, Idle, Spawning, TypeOK, ActsOK
<1>5. CASE Survey(x) \/ SurveyEnds(x) \/ ReleaseScaler(x) \/ DeleteRow(x)
  <2>1. act'[x].at \in {"scan", "idle"}
    <3>1. CASE Survey(x)
      BY <1>2, <3>1 DEF Survey, Turn, Idle
    <3>2. CASE ~Survey(x)
      <4>1. act'[x] = Idle
        BY <1>2, <1>5, <3>2 DEF SurveyEnds, ReleaseScaler, DeleteRow, Done, Turn
      <4> QED BY <4>1 DEF Idle
    <3> QED BY <3>1, <3>2
  <2> QED BY <1>3, <2>1 DEF Spawning
<1>6. CASE ScanIndex(x) \/ Compare(x) \/ CollectKey(x) \/ CollectDrain(x)
  <2>1. act'[x].at \in {"scan", "gc", "gcdrain", "gcindex"}
    BY <1>1, <1>2, <1>6, ZenonT(60) DEF ScanIndex, Compare, CollectKey, CollectDrain, Turn, ActRecords
  <2> QED BY <1>3, <2>1 DEF Spawning
<1>7. CASE CollectFromIndex(x)
  <2>1. act'[x].at \in {"gcindex", "gc"}
    BY <1>1, <1>2, <1>7 DEF CollectFromIndex, Turn, ActRecords
  <2> QED BY <1>3, <2>1 DEF Spawning
<1>8. ~CreateApp(x)
  BY DEF CreateApp, ScalerAlone
<1>9. CASE Tear(x)
  <2>1. act'[x].at = "drain"
    BY <1>2, <1>9 DEF Tear, Turn, Idle
  <2> QED BY <1>3, <2>1 DEF Spawning
<1>10. CASE Rollback(x) \/ Drain(x) \/ TerminateEach(x) \/ ForgetEach(x)
  <2>1. act'[x].at \in {"uncool", "drain", "terminate", "forget"}
    BY <1>1, <1>2, <1>10 DEF Rollback, Drain, TerminateEach, ForgetEach, Go, Each, Turn, ActRecords
  <2> QED BY <1>3, <2>1 DEF Spawning
<1>11. CASE ListPods(x) \/ AllTerminated(x)
  <2>1. act'[x].at \in {"terminate", "forget"}
    BY <1>1, <1>2, <1>11, ZenonT(60) DEF ListPods, AllTerminated, Done, Turn, ActRecords
  <2> QED BY <1>3, <2>1 DEF Spawning
<1>12. CASE ForgetApp(x)
  <2>1. act'[x].at \in {"idle", "commit"}
    BY <1>1, <1>2, <1>12 DEF ForgetApp, Done, Turn, Idle, ActRecords
  <2> QED BY <1>3, <2>1 DEF Spawning
<1> QED BY <1>3, <1>4, <1>5, <1>6, <1>7, <1>8, <1>9, <1>10, <1>11, <1>12
        DEF ReconcilerStep, HandlerStep

\* What the autoscaler wants is within the cap.
LEMMA WantFits ==
  ASSUME NEW x, Computes(x), act[x] \in ActRecords, act[x].app \in Apps
  PROVE  Want(x) \in Int /\ Want(x) <= Config[act[x].app].max
<1>1. PICK c \in [max : Nat, tasks : Nat, warm : BOOLEAN] : c = Config[act[x].app]
  BY FleetAssumption
<1>2. PICK q \in Nat : q = act[x].q
  BY FleetAssumption DEF ActRecords
<1>3. q > 0 => c.tasks > 0
  BY <1>1, <1>2 DEF Computes
<1> DEFINE share == (q + c.tasks - 1) \div c.tasks
           warm == IF c.warm THEN 1 ELSE 0
<1>4. q > 0 => share \in Int
  BY <1>1, <1>2, <1>3
<1>5. warm \in Int
  OBVIOUS
<1>6. q > 0 => Most(warm, share) \in Int
  BY <1>4, <1>5 DEF Most
<1> HIDE DEF share, warm
<1>7. Desired(c, q) = Least(c.max, IF q = 0 THEN warm ELSE Most(warm, share))
  BY DEF Desired, warm, share
<1>8. Desired(c, q) \in Int /\ Desired(c, q) <= c.max
  BY <1>1, <1>2, <1>5, <1>6, <1>7 DEF Least
<1> QED BY <1>1, <1>2, <1>8 DEF Want

\* The autoscaler's own steps but for the making of a pod: what it lists, it
\* counts or knows to be out of sight; what it adds, is missing.
LEMMA ScalerCounts ==
  ASSUME TypeOK, TypeOK', ScalerAlone, CapInv, Fewer, NEW x \in Loops, NEW a, a = act[x].app,
         \/ ProvisionFails(x) \/ StoreToken(x) \/ AddToIndex(x) \/ SetKey(x) \/ Crash(x)
         \/ ScalerStep(x)
  PROVE  Counts(x)'
<1>1. /\ act[x] \in ActRecords /\ Fit(x, act[x]) /\ Counts(x)
      /\ x \in Actors /\ x \notin Apps
  BY FleetAssumption DEF TypeOK, ActsOK, Loops, CapInv
<1>2. \A r : act' = [act EXCEPT ![x] = r] => act'[x] = r
  BY <1>1 DEF TypeOK, ActsOK
<1>3. ASSUME act'[x].at \notin Spawning \cup {"probe", "prune", "provision"} PROVE Counts(x)'
  BY <1>3 DEF Counts
<1>4. a \in Apps =>
        /\ Watched(a)' \subseteq Watched(a)
        /\ Cardinality(Watched(a)') \in Nat /\ Cardinality(Watched(a)) \in Nat
        /\ Cardinality(Watched(a)') <= Cardinality(Watched(a))
        /\ Cardinality(Watched(a)) <= Config[a].max
        /\ Config[a].max \in Nat
  BY FewerAreFewer, FleetAssumption DEF Fewer, CapInv
<1>5. ASSUME a \in Apps, act'[x].app = a
      PROVE  /\ Watched(act[x].app)' \subseteq Watched(a)
             /\ Cardinality(Watched(act[x].app)') \in Nat
             /\ Cardinality(Watched(act[x].app)') <= Cardinality(Watched(a))
  <2>1. PICK b \in Apps : b = a
    BY <1>5
  <2>2. Watched(act[x].app)' = Watched(b)'
    BY <1>5, <2>1
  <2> QED BY <1>4, <2>1, <2>2
<1>6. CASE ProvisionFails(x)
  <2>1. act'[x].at = "app"
    BY <1>1, <1>2, <1>6 DEF ProvisionFails, Turn, Onward, Idle
  <2> QED BY <1>3, <2>1 DEF Spawning
<1>7. CASE StoreToken(x) \/ AddToIndex(x) \/ ClearCooldown(x)
  <2>1. /\ act[x].at \in Spawning /\ act'[x].at \in Spawning \ {"clear"}
        /\ act'[x].app = a /\ act'[x].n = act[x].n
    BY <1>1, <1>2, <1>7 DEF StoreToken, AddToIndex, ClearCooldown, Go, Turn, ActRecords, Spawning
  <2>2. a \in Apps /\ act[x].n \in Nat
    BY <1>1, <2>1 DEF Fit, ActRecords, Spawning
  <2>3. Cardinality(Watched(a)) + act[x].n <= Config[a].max + 1
    BY <1>1, <2>1 DEF Counts
  <2>4. Cardinality(Watched(act[x].app)') + act'[x].n <= Config[act'[x].app].max + 1
    BY <1>4, <1>5, <2>1, <2>2, <2>3
  <2> QED BY <2>1, <2>4 DEF Counts, Spawning
<1>8. CASE SetKey(x)
  <2>0. act[x].at = "key"
    BY <1>1, <1>8 DEF SetKey, Go, Turn
  <2>1. CASE act[x].n = 1
    <3>1. act'[x].at = "app"
      BY <1>1, <1>2, <1>8, <2>1 DEF SetKey, Turn, Onward, Idle
    <3> QED BY <1>3, <3>1 DEF Spawning
  <2>2. CASE act[x].n # 1
    <3>1. act'[x] = [act[x] EXCEPT !.at = "provision", !.n = act[x].n - 1, !.m = None]
      BY <1>1, <1>2, <1>8, <2>2 DEF SetKey, Turn
    <3>2. act'[x].at = "provision" /\ act'[x].app = a /\ act'[x].n = act[x].n - 1
      BY <1>1, <3>1 DEF ActRecords
    <3>3. a \in Apps /\ act[x].n \in Nat
      BY <1>1, <2>0 DEF Fit, ActRecords, Spawning
    <3>4. Cardinality(Watched(a)) + act[x].n <= Config[a].max + 1
      BY <1>1, <2>0 DEF Counts, Spawning
    <3>5. Cardinality(Watched(act[x].app)') + act'[x].n <= Config[act'[x].app].max
      BY <1>4, <1>5, <3>2, <3>3, <3>4
    <3> QED BY <3>2, <3>5 DEF Counts, Spawning
  <2> QED BY <2>1, <2>2
<1>9. CASE Crash(x)
  <2>1. act'[x].at = "idle"
    BY <1>2, <1>9 DEF Crash, Idle
  <2> QED BY <1>3, <2>1 DEF Spawning
<1>10. CASE TickBegins(x) \/ Visit(x) \/ TickEnds(x)
  <2>1. act'[x].at \in {"app", "list", "idle"}
    <3>1. CASE TickBegins(x)
      BY <1>2, <3>1 DEF TickBegins, Turn, Idle
    <3>2. CASE Visit(x)
      BY <1>2, <3>2 DEF Visit, Turn, Idle
    <3>3. CASE TickEnds(x)
      BY <1>2, <3>3 DEF TickEnds, Turn, Idle
    <3> QED BY <1>10, <3>1, <3>2, <3>3
  <2> QED BY <1>3, <2>1 DEF Spawning
<1>11. CASE LeaveApp(x) \/ ScaleDown(x)
  <2>1. act'[x].at \in {"app", "terminate"}
    BY <1>2, <1>11 DEF LeaveApp, ScaleDown, Turn, Onward, Idle
  <2> QED BY <1>3, <2>1 DEF Spawning
<1>12. CASE TerminateVictim(x) \/ DropKey(x) \/ DropFromIndex(x)
  <2>1. act'[x].at \in {"app", "unkey", "unindex"}
    BY <1>1, <1>2, <1>12, ZenonT(60) DEF TerminateVictim, DropKey, DropFromIndex, Go, Turn, Onward, Idle, ActRecords
  <2> QED BY <1>3, <2>1 DEF Spawning
\* Nobody has a machine in hand while the autoscaler counts.
<1>13. ASSUME act[x].at \notin Spawning, NEW m \in Watched(a) PROVE m \in index[a] /\ key[m] # "none"
  <2>1. ~InHand(m)
    BY <1>13 DEF InHand, CapInv, ScalerAlone, Loops
  <2>2. Tracked(m) /\ owner[m] = a
    BY <1>13, <2>1 DEF CapInv, Watched, PodsOf
  <2> QED BY <2>2 DEF Tracked
<1>14. CASE ListWorkers(x)
  <2>1. /\ act[x].at = "list"
        /\ act'[x] = [act[x] EXCEPT !.at = "probe", !.left = index[a]]
    BY <1>2, <1>14 DEF ListWorkers, Turn
  <2>2. act'[x].at = "probe" /\ act'[x].app = a /\ act'[x].left = index[a]
    BY <1>1, <2>1 DEF ActRecords
  <2>3. a \in Apps
    BY <1>1, <2>1 DEF Fit, ActRecords
  <2>4. Watched(a) \subseteq index[a]
    BY <1>13, <2>1 DEF Spawning
  <2>5. Watched(act[x].app)' \subseteq act'[x].left
    BY <1>5, <2>2, <2>3, <2>4
  <2> QED BY <2>2, <2>5 DEF Counts, Spawning
<1>15. CASE Probe(x)
  <2>1. PICK m \in act[x].left :
          /\ act[x].at = "probe"
          /\ act'[x] = IF key[m] # "none"
                         THEN [act[x] EXCEPT !.left = @ \ {m}, !.got = @ \cup {m}]
                         ELSE [act[x] EXCEPT !.left = @ \ {m}, !.at = "prune", !.m = m]
    BY <1>2, <1>15 DEF Probe, Turn
  <2>2. /\ act'[x].at \in {"probe", "prune"} /\ act'[x].app = a
        /\ act'[x].left = act[x].left \ {m}
        /\ act'[x].got = IF key[m] # "none" THEN act[x].got \cup {m} ELSE act[x].got
    BY <1>1, <2>1 DEF ActRecords
  <2>3. a \in Apps
    BY <1>1, <2>1 DEF Fit, ActRecords
  <2>4. Watched(a) \subseteq act[x].left \cup act[x].got
    BY <1>1, <2>1 DEF Counts
  <2>5. key[m] = "none" => m \notin Watched(a)
    BY <1>13, <2>1 DEF Spawning
  <2>6. Watched(a) \subseteq act'[x].left \cup act'[x].got
    BY <2>2, <2>4, <2>5
  <2>7. Watched(act[x].app)' \subseteq act'[x].left \cup act'[x].got
    BY <1>5, <2>2, <2>3, <2>6
  <2> QED BY <2>2, <2>7 DEF Counts, Spawning
<1>16. CASE Prune(x)
  <2>1. /\ act[x].at = "prune"
        /\ act'[x] = [act[x] EXCEPT !.at = "probe", !.m = None]
    BY <1>2, <1>16 DEF Prune, Turn
  <2>2. /\ act'[x].at = "probe" /\ act'[x].app = a
        /\ act'[x].left = act[x].left /\ act'[x].got = act[x].got
    BY <1>1, <2>1 DEF ActRecords
  <2>3. a \in Apps
    BY <1>1, <2>1 DEF Fit, ActRecords
  <2>4. Watched(a) \subseteq act[x].left \cup act[x].got
    BY <1>1, <2>1 DEF Counts
  <2>5. Watched(act[x].app)' \subseteq act'[x].left \cup act'[x].got
    BY <1>5, <2>2, <2>3, <2>4
  <2> QED BY <2>2, <2>5 DEF Counts, Spawning
<1>17. CASE ScaleUp(x)
  <2>1. /\ act[x].at = "probe" /\ act[x].left = {} /\ Want(x) > Have(x) /\ Computes(x)
        /\ act'[x] = [Onward(x, "provision") EXCEPT !.app = a, !.n = Want(x) - Have(x)]
    BY <1>2, <1>17 DEF ScaleUp, Sampled, Turn
  <2>2. act'[x].at = "provision" /\ act'[x].app = a /\ act'[x].n = Want(x) - Have(x)
    BY <2>1 DEF Onward, Idle
  <2>3. a \in Apps
    BY <1>1, <2>1 DEF Fit, ActRecords
  <2>4. Watched(a) \subseteq act[x].got
    BY <1>1, <2>1 DEF Counts
  <2>5. /\ IsFiniteSet(act[x].got) /\ Have(x) \in Nat
        /\ Cardinality(Watched(a)) <= Have(x)
    BY <1>1, <2>4, FleetAssumption, FS_Subset, FS_CardinalityType DEF ActRecords, Have
  <2>6. Want(x) \in Int /\ Want(x) <= Config[a].max
    BY <1>1, <2>1, <2>3, WantFits
  <2>7. Cardinality(Watched(act[x].app)') + act'[x].n <= Config[act'[x].app].max
    BY <1>4, <1>5, <2>2, <2>3, <2>5, <2>6
  <2> QED BY <2>2, <2>7 DEF Counts, Spawning
<1> QED BY <1>6, <1>7, <1>8, <1>9, <1>10, <1>11, <1>12, <1>14, <1>15, <1>16, <1>17 DEF ScalerStep

\* A pod more in sight, taken in hand by the autoscaler, which had counted on it.
LEMMA ProvisionCounts ==
  ASSUME TypeOK, TypeOK', ScalerAlone, CapInv, Watch, NEW x \in Loops, Provision(x)
  PROVE  /\ \A a \in Apps : Cardinality(Watched(a)') <= Config[a].max
         /\ Counts(x)'
<1>1. /\ act[x] \in ActRecords /\ Fit(x, act[x]) /\ Counts(x)
      /\ x \in Actors /\ x \notin Apps
  BY FleetAssumption DEF TypeOK, ActsOK, Loops, CapInv
<1>2. PICK m \in Machines :
        /\ Create(m, act[x].app) /\ act[x].at = "provision"
        /\ act' = [act EXCEPT ![x] = [act[x] EXCEPT !.at = "clear", !.m = m]]
  BY <1>1 DEF Provision, Turn
<1>3. PICK a \in Apps : a = act[x].app
  BY <1>1, <1>2 DEF Fit, ActRecords
<1>4. /\ act'[x].at = "clear" /\ act'[x].app = a /\ act'[x].n = act[x].n /\ act[x].n \in Nat
      /\ act[x].n > 0
  BY <1>1, <1>2, <1>3 DEF TypeOK, ActsOK, ActRecords, Fit
<1>5. m \notin cloud /\ cloud' = cloud \cup {m} /\ owner[m] = a
  BY <1>2, <1>3 DEF Create, Fresh
<1>6. \A b \in Apps : Watched(b)' \subseteq Watched(b) \cup (IF b = a THEN {m} ELSE {})
  BY <1>5 DEF Watch, Watched, PodsOf
<1>7. \A b \in Apps :
        /\ IsFiniteSet(Watched(b)) /\ Cardinality(Watched(b)) \in Nat
        /\ Cardinality(Watched(b)) <= Config[b].max /\ Config[b].max \in Nat
  BY WatchedAreFew, FleetAssumption DEF CapInv
<1>8. /\ Cardinality(Watched(a)') \in Nat
      /\ Cardinality(Watched(a)') <= Cardinality(Watched(a)) + 1
  <2>1. Watched(a)' \subseteq Watched(a) \cup {m}
    BY <1>6
  <2>2. m \notin Watched(a)
    BY <1>5 DEF Watched, PodsOf
  <2>3. /\ IsFiniteSet(Watched(a) \cup {m})
        /\ Cardinality(Watched(a) \cup {m}) = Cardinality(Watched(a)) + 1
    BY <1>7, <2>2, FS_AddElement
  <2> QED BY <2>1, <2>3, FS_Subset, FS_CardinalityType
<1>9. Cardinality(Watched(a)) + act[x].n <= Config[a].max
  BY <1>1, <1>2, <1>3 DEF Counts
<1>10. ASSUME NEW b \in Apps PROVE Cardinality(Watched(b)') <= Config[b].max
  <2>1. CASE b = a
    BY <1>4, <1>7, <1>8, <1>9, <2>1
  <2>2. CASE b # a
    <3>1. Watched(b)' \subseteq Watched(b)
      BY <1>6, <2>2
    <3>2. Cardinality(Watched(b)') <= Cardinality(Watched(b)) /\ Cardinality(Watched(b)') \in Nat
      BY <1>7, <3>1, FS_Subset, FS_CardinalityType
    <3> QED BY <1>7, <3>2
  <2> QED BY <2>1, <2>2
<1>11. Watched(act[x].app)' = Watched(a)'
  BY <1>4
<1>12. Cardinality(Watched(act[x].app)') + act'[x].n <= Config[act'[x].app].max + 1
  BY <1>4, <1>7, <1>8, <1>9, <1>11
<1> QED BY <1>4, <1>10, <1>12 DEF Counts, Spawning

\* Every step keeps the count.
LEMMA CapStep ==
  ASSUME ScalerAlone, TypeOK, TypeOK', CapInv, [Next]_vars
  PROVE  CapInv'
<1>1. CASE UNCHANGED vars
  BY <1>1 DEF vars, redisVars, podVars, CapInv, Counts, Watched, PodsOf, Tracked, InHand
<1>2. CASE Next
  <2>1. \A m \in cloud' \ strays' : (Tracked(m) \/ InHand(m))'
    BY <1>2 DEF Next, Watch
  <2>2. \A x \in Actors \ Loops : act'[x].at \notin Spawning \cup {"provision", "cool"} /\ ~Provision(x)
    <3> SUFFICES ASSUME NEW x \in Actors \ Loops
                 PROVE  act'[x].at \notin Spawning \cup {"provision", "cool"} /\ ~Provision(x)
      OBVIOUS
    <3>1. ASSUME act'[x] = act[x]
          PROVE  act'[x].at \notin Spawning \cup {"provision", "cool"} /\ ~Provision(x)
      BY <3>1 DEF CapInv, Provision, Turn
    <3>2. CASE UNCHANGED act
      BY <3>1, <3>2
    <3>3. ASSUME NEW y \in Actors,
                 \/ Provision(y) \/ ProvisionFails(y) \/ StoreToken(y) \/ AddToIndex(y) \/ SetKey(y) \/ Crash(y)
                 \/ y \in Loops /\ ScalerStep(y)
                 \/ y = Reconciler /\ ReconcilerStep(y)
                 \/ y \in Handlers /\ (CreateApp(y) \/ Tear(y) \/ HandlerStep(y))
          PROVE  act'[x].at \notin Spawning \cup {"provision", "cool"} /\ ~Provision(x)
      BY <3>1, <3>3, OwnBusiness, OthersNeverSpawn
    <3> QED BY <1>2, <3>2, <3>3, OtherTypes DEF Next, Step, Loops, Handlers
  <2>3. ASSUME NEW x \in Loops, Provision(x) PROVE CapInv'
    <3>1. \A y \in Loops : y = x
      BY DEF ScalerAlone
    <3>2. Watch
      BY <1>2 DEF Next
    <3> QED BY <2>1, <2>2, <2>3, <3>1, <3>2, ProvisionCounts DEF CapInv
  <2>4. CASE \A x \in Actors : ~Provision(x)
    <3>1. Fewer
      BY <1>2, <2>4, NobodyAppears
    <3>2. ASSUME NEW a \in Apps PROVE Cardinality(Watched(a)') <= Config[a].max
      <4>1. Config[a].max \in Nat /\ Cardinality(Watched(a)) <= Config[a].max
        BY FleetAssumption DEF CapInv
      <4> QED BY <3>1, <4>1, FewerAreFewer
    <3>3. ASSUME NEW x \in Loops PROVE Counts(x)'
      <4>1. x \in Actors /\ Counts(x)
        BY DEF Loops, CapInv
      <4>2. ASSUME act'[x] = act[x] PROVE Counts(x)'
        BY <3>1, <4>1, <4>2, CountStands
      <4>3. ASSUME NEW y \in Actors,
                   \/ ProvisionFails(y) \/ StoreToken(y) \/ AddToIndex(y) \/ SetKey(y) \/ Crash(y)
                   \/ y \in Loops /\ ScalerStep(y)
                   \/ y = Reconciler /\ ReconcilerStep(y)
                   \/ y \in Handlers /\ (CreateApp(y) \/ Tear(y) \/ HandlerStep(y))
            PROVE  Counts(x)'
        <5>1. CASE y = x
          <6>1. x \notin Handlers /\ x # Reconciler
            BY FleetAssumption DEF Handlers, Loops
          <6> QED BY <3>1, <4>3, <5>1, <6>1, ScalerCounts
        <5>2. CASE y # x
          BY <4>1, <4>2, <4>3, <5>2, OwnBusiness
        <5> QED BY <5>1, <5>2
      <4>4. CASE UNCHANGED act
        BY <4>2, <4>4
      <4> QED BY <1>2, <2>4, <4>3, <4>4, OtherTypes DEF Next, Step, Loops, Handlers
    <3> QED BY <2>1, <2>2, <3>2, <3>3 DEF CapInv
  <2>5. \A x \in Actors : Provision(x) => x \in Loops
    BY <2>2
  <2> QED BY <2>3, <2>4, <2>5
<1> QED BY <1>1, <1>2

\* One autoscaler keeps every app within its cap, but for strays, whatever else
\* goes wrong: refused and lost calls, late keys, vanishing pods, crashes,
\* restarts of the app's workers, deletes and the reconciler.
THEOREM CapButStrays ==
  ASSUME ScalerAlone PROVE Spec => []OnlyStraysExceedTheCap
<1>1. Init => CapInv
  <2> SUFFICES ASSUME Init PROVE CapInv
    OBVIOUS
  <2>1. \A a \in Apps : Watched(a) = {} /\ Config[a].max \in Nat
    BY FleetAssumption DEF Init, Watched, PodsOf
  <2>2. \A x \in Actors : act[x].at = "idle"
    BY DEF Init, Idle
  <2>3. cloud = {} /\ \A x \in Actors : act[x].at \notin Spawning \cup {"provision", "cool", "probe", "prune"}
    BY <2>2 DEF Init, Spawning
  <2>4. \A a \in Apps : Cardinality(Watched(a)) <= Config[a].max
    BY <2>1, FS_EmptySet
  <2> QED BY <2>3, <2>4 DEF CapInv, Counts, Loops
<1>2. TypeOK /\ TypeOK' /\ CapInv /\ [Next]_vars => CapInv'
  BY CapStep
<1>3. CapInv => OnlyStraysExceedTheCap
  BY DEF CapInv, Watched, OnlyStraysExceedTheCap
<1> QED BY <1>1, <1>2, <1>3, TypeCorrect, PTL DEF Spec

=============================================================================
