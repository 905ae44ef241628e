SPECIFICATION Spec
CONSTANTS
  a1 = a1
  a2 = a2
  s1 = s1
  s2 = s2
  Reconciler = rec
  None = None
  Apps = {a1}
  Machines = {m1, m2}
  owner <- OneOwner
  Scalers = {s1}
  Actors = {s1, a1}
  Deployed = {a1}
  Max = 1
  Tasks = 1
  Warm = TRUE
  Config <- ConfigMC
  Requests = {"create", "delete"}
  Filtering = TRUE
  MaxQueue = 0
  Faults = {}
SYMMETRY Symmetric
INVARIANTS TypeOK DeleteSparesOnlyLatecomers TokenIsOneShot
CHECK_DEADLOCK FALSE
