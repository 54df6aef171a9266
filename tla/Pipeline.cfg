\* One pipeline over a buffer of two bytes that is written one and a half times
SPECIFICATION FairPipelinesSpec
CONSTANTS
  MAX_PROCESSES = 5
  MAX_SEMS = 2
  NameLength = 2
  NulAfterTable = FALSE
  Names <- MCNames
  Values = {}
  Workload = {}
  Callers <- NoCallers
  MaxValue = 2
  MaxEntries = 1
  MAX_FDS = 5
  BUFFER_SIZE = 2
  MaxStreams = 1
  Lefts = {"counter", "loop", "loop_ps"}
  Rights = {"cat", "filter", "counter"}
  MaxBytes = 3
  MaxCall = 2
INVARIANTS UnitsMatchData ReadInOrder EofIsFinal
PROPERTY ReadersEnd
