SPECIFICATION FairSpec
CONSTANTS
  Pushers = {p1, p2}
  Threads = {p1, p2, c1, c2}
  Data = {d1, d2}
  Nodes = {n1, n2, n3}
  NULL = NULL
  MaxSizes <- MCMaxSizes
INVARIANTS TypeOK NoLostWakeup SizeIsLength ListIsChain DestroyFreesAll
PROPERTIES ImplementsFifo CallsKeepReturning
