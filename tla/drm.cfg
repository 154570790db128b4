SPECIFICATION Spec
CONSTANTS
  Threads = {t1, t2, t3}
  Drms = {d1, d2, d3}
  NULL = NULL
INVARIANTS TypeOK GraphAcyclic GraphKnowsBlocked UnlockOnlyOwn NoDeadlockAsGiven
\* A drm_wait that returns with mtx locked stops every thread.
CHECK_DEADLOCK FALSE
