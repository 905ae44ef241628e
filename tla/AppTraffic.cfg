SPECIFICATION Spec
CONSTANTS
  Requests = {r1}
  Streams = {s1}
  Workers = {w1}
  MaxContainers = 1
  TasksPerContainer = 2
  MaxChunks = 1
  None = None
PROPERTIES JobsGetServed WorkersAreReleased ClientsAreAnswered
CHECK_DEADLOCK FALSE
