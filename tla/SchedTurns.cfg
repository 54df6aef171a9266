\* A boost that reaches the top level
SPECIFICATION FairSpec
CONSTANTS
  MAX_PROCESSES = 4
  MAX_PRIORITY = 3
  DEFAULT_QUANTUM = 1
  AGING_THRESHOLD = 2
  MAX_AGING_BOOST = 2
  ExitCodes = {0}
  Modes = {FALSE}
  Priorities = {1, 3}
  Workload = {"create", "yield", "kill", "block", "unblock"}
  MaxCopies = 1
PROPERTY AgedProcessesRun
