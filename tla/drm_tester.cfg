SPECIFICATION TesterSpec
CONSTANTS
  t1 = t1
  t2 = t2
  d1 = d1
  d2 = d2
  Threads = {t1, t2}
  Drms = {d1, d2}
  NULL = NULL
PROPERTIES TesterEnds
\* The program ends.
CHECK_DEADLOCK FALSE
