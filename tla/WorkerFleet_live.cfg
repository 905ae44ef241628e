SPECIFICATION FairSpec
CONSTANTS
  a1 = a1
  a2 = a2
  s1 = s1
  s2 = s2
  Reconciler = rec
  None = None
  Apps = {a1}
  Machines = {m1, m2}
  owner <- OneOwner
  Scalers = {s1}
  Actors = {s1}
  Deployed = {a1}
  Max = 2
  Tasks = 1
  Warm = FALSE
  Config <- ConfigMC
  Requests = {}
  Filtering = TRUE
  MaxQueue = 2
  Faults = {"fail"}
PROPERTIES QueuedJobsAreTaken IdleAppsScaleToZero
CHECK_DEADLOCK FALSE
