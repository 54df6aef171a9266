\* Every operation on semaphores, negative values included, on slots destroyed and used again
\* by names of one length
SPECIFICATION Spec
CONSTANTS
  MAX_PROCESSES = 4
  MAX_SEMS = 2
  NameLength = 3
  NulAfterTable = FALSE
  Names <- MCTwins
  Values <- MCValues
  Workload = {"open", "close", "wait", "post", "destroy", "set", "block", "unblock", "kill"}
  Callers <- MostCallers
  MaxValue = 1
  MaxEntries = 1
INVARIANT SameNameSameSem
 
