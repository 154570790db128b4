SPECIFICATION Spec
CONSTANTS
  Pids = {p1, p2}
  Frames = {0, 1, 2, 3, 4}
  TlbSize = 2
  Testing = {t1, t2}
  Data = {d}
  Text = {x}
  NULL = NULL
INVARIANT SwappedPagesReadable
\* A read that faults is undefined, and memory may be exhausted.
CHECK_DEADLOCK FALSE
