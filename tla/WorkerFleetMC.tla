----------------------------- MODULE WorkerFleetMC -----------------------------
(* Instances of WorkerFleet for TLC. *)
EXTENDS WorkerFleet, TLC

CONSTANTS a1, a2, s1, s2,    \* apps and autoscalers
          Max, Tasks, Warm   \* the configuration of every app

ASSUME {a1, a2} \cap {s1, s2} = {}

ConfigMC == [a \in Apps |-> [max |-> Max, tasks |-> Tasks, warm |-> Warm]]
OneOwner == [m \in Machines |-> a1]
OwnOwners == CHOOSE f \in [Machines -> Apps] : \A a \in Apps : \E m \in Machines : f[m] = a
Symmetric == Permutations(Machines)

=============================================================================
