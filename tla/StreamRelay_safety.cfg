SPECIFICATION Spec
CONSTANTS
  Streams = {r1, r2}
  Workers = {w1}
  Cap = 1
  MaxChunks = 1
  None = None
SYMMETRY Symmetric
INVARIANTS TypeOK StreamMissesNothing CancelStopsTheWorker  EndsAreLast ResultTellsTheEnd
CHECK_DEADLOCK FALSE
