SPECIFICATION Spec
CONSTANTS
  Requests = {r1}
  Workers = {w1}
  Readers = {d1}
  MaxContainers = 1
  TasksPerContainer = 1
  None = None
INVARIANTS PollGetsTheAnswer
CHECK_DEADLOCK FALSE
