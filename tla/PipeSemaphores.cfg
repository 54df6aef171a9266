\* Two pipelines, the second on a descriptor the first one gave back
SPECIFICATION PipelinesSpec
CONSTANTS
  MAX_PROCESSES = 6
  MAX_SEMS = 4
  NameLength = 2
  NulAfterTable = FALSE
  Names <- MCNames
  Values = {}
  Workload = {}
  Callers <- NoCallers
  MaxValue = 2
  MaxEntries = 1
  MAX_FDS = 7
  BUFFER_SIZE = 1
  MaxStreams = 2
  Lefts = {"counter"}
  Rights = {"filter"}
  MaxBytes = 1
  MaxCall = 1
INVARIANT PipeHasSemaphores
