SPECIFICATION FairSpec
CONSTANTS
  Benches = {b1}
  Gateways = {g1, g2}
  Calls = {c1, c2}
  Faults = {"db", "provider", "spawn", "s3", "refuse", "crash"}
  MaxStarts = 2
  None = None
INVARIANTS TypeOK CancelledRunsAreDead NoPodIsForgotten
PROPERTIES SettledRowsStay OrphansAreReaped
CHECK_DEADLOCK FALSE
