SPECIFICATION Spec
CONSTANTS
  a1 = a1
  a2 = a2
  s1 = s1
  s2 = s2
  Reconciler = rec
  Machines = {m1, m2}
  None = None
  Apps = {a1}
  owner <- OneOwner
  Scalers = {s1}
  Actors = {s1, rec}
  Deployed = {a1}
  Max = 1
  Tasks = 1
  Warm = TRUE
  Config <- ConfigMC
  Requests = {}
  Filtering = TRUE
  MaxQueue = 0
  Faults = {"fail", "lost", "silent", "late", "vanish", "crash"}
SYMMETRY Symmetric
INVARIANTS OnlyStraysExceedTheCap
CHECK_DEADLOCK FALSE
