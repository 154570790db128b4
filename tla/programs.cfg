SPECIFICATION Spec
CONSTANTS
  NULL = NULL
  JUNK = 0
  FREED = FREED
  Copies = {1, 2, 3, 4, 5}
  INITIAL_CAPACITY = 2
  Jobs = {j1, j2, j3}
  Schemes = {"FCFS", "PRI", "PPRI", "PSRTF", "RR", "SJF"}
  Bursts = {1, 3}
  Priorities = {1, 2}
  MaxTime = 2
  Nthread = 3
  Space = 4
  Answers = {0, 2, 4}
  Ntasks = 3
  Lines <- MCLines
  Index <- MCIndex
  Failing = {"no"}
  Pids = {"11", "12"}
  MaxHistory = 3
  Threads = {w1, w2, w3, s1, s2, s3}
  Posters = {s1, s2, s3}
  MaxVals <- MCMaxVals
INVARIANTS JobsAccounted SearchComplete HistoryKept ChildrenAccounted ValueBounded NoLostWakeup
PROPERTIES ImplementsSequence BestRuns EveryLineEnds BlocksOnlyAtBounds
\* Each of the programs comes to an end.
CHECK_DEADLOCK FALSE
