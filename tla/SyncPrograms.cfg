\* The four workers of test_sync, or two writers and two readers of mvar
SPECIFICATION FairSyncSpec
CONSTANTS
  MAX_PROCESSES = 7
  MAX_SEMS = 3
  NameLength = 2
  NulAfterTable = FALSE
  Names <- MCNames
  Values = {}
  Workload = {}
  Callers <- NoCallers
  MaxValue = 1
  MaxEntries = 1
  TOTAL_PAIR_PROCESSES = 2
  Iterations = 1
  writer_count = 2
  reader_count = 2
  mvar_mutex <- MCMutex
  mvar_empty <- MCEmpty
  mvar_full <- MCFull
INVARIANTS MutualExclusion FinalValueIsZero LettersAreReadOnce
PROPERTIES WorkersFinish MvarGoesOn
