SPECIFICATION Spec
CONSTANTS
  Requests = {r1, r2}
  Workers = {w1, w2}
  Readers = {d1}
  MaxContainers = 1
  TasksPerContainer = 1
  None = None
SYMMETRY Symmetric
INVARIANTS TypeOK SingleCustody NothingVanishes AnswersAreTheWorkers OvershootIsTheBurst
PROPERTIES MarkedAnswerIsStable ImplementsContract
CHECK_DEADLOCK FALSE
