\* Three slots, every way to block, wake, wait for and end a process
SPECIFICATION Spec
CONSTANTS
  MAX_PROCESSES = 3
  MAX_PRIORITY = 2
  DEFAULT_QUANTUM = 1
  AGING_THRESHOLD = 1
  MAX_AGING_BOOST = 1
  ExitCodes = {0}
  Modes = {TRUE}
  Priorities = {1}
  Workload = {"create", "kill", "block", "unblock", "wait", "return", "ctrlC"}
  MaxCopies = 2
INVARIANTS ReadyIsQueued RunningIsCurrent InitAlwaysRunnable WaitIsRegistered
PROPERTIES NoResurrection ImplementsProcessStates
