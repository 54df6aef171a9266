\* Three levels, priority changes of queued, blocked and running processes
SPECIFICATION Spec
CONSTANTS
  MAX_PROCESSES = 4
  MAX_PRIORITY = 3
  DEFAULT_QUANTUM = 1
  AGING_THRESHOLD = 2
  MAX_AGING_BOOST = 1
  ExitCodes = {0}
  Modes = {FALSE}
  Priorities = {1, 2}
  Workload = {"create", "nice", "block", "unblock"}
  MaxCopies = 1
INVARIANTS TypeOK BoostBounded
PROPERTY HighestPriorityFirst
