\* An exit preempted before it wakes the waiter
SPECIFICATION Spec
CONSTANTS
  MAX_PROCESSES = 3
  MAX_PRIORITY = 2
  DEFAULT_QUANTUM = 1
  AGING_THRESHOLD = 1
  MAX_AGING_BOOST = 1
  ExitCodes = {0}
  Modes = {FALSE}
  Priorities = {1}
  Workload = {"create", "wait", "return"}
  MaxCopies = 1
INVARIANT WaitersReleased
