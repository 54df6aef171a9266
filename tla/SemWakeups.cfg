\* Waits, posts, kills and stray wake-ups on two semaphores
SPECIFICATION Spec
CONSTANTS
  MAX_PROCESSES = 4
  MAX_SEMS = 2
  NameLength = 3
  NulAfterTable = FALSE
  Names <- MCNames
  Values = {1}
  Workload = {"open", "wait", "post", "unblock", "kill", "start"}
  Callers <- MostCallers
  MaxValue = 1
  MaxEntries = 2
INVARIANTS NoLostWakeup SleeperIsListed SameNameSameSem
