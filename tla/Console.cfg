\* A shell, two processes and a few keys after the words typed before
SPECIFICATION FairConsoleSpec
CONSTANTS
  MAX_PROCESSES = 4
  MAX_SEMS = 1
  NameLength = 2
  NulAfterTable = FALSE
  Names <- MCNames
  Values = {}
  Workload = {}
  Callers <- NoCallers
  MaxValue = 1
  MaxEntries = 1
  BUFFER_SIZE = 6
  TAB_SIZE = 2
  Words = {"cat", "loop", "kill", "block", "echo", "&", "|"}
  MAX_BUFFER_SIZE = 4
  Lines <- MCLines
  LateWords = {"C"}
  MaxKeys = 3
INVARIANTS OneReader TypeAheadIsDropped
PROPERTIES ImplementsInputQueue LineIsTaken ShellComesBack
