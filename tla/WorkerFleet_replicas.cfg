SPECIFICATION Spec
CONSTANTS
  a1 = a1
  a2 = a2
  s1 = s1
  s2 = s2
  Reconciler = rec
  None = None
  Apps = {a1}
  Machines = {m1, m2}
  owner <- OneOwner
  Scalers = {s1, s2}
  Actors = {s1, s2}
  Deployed = {a1}
  Max = 1
  Tasks = 1
  Warm = FALSE
  Config <- ConfigMC
  Requests = {}
  Filtering = TRUE
  MaxQueue = 1
  Faults = {}
INVARIANTS CapHolds
CHECK_DEADLOCK FALSE
