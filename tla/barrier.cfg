SPECIFICATION FairSpec
CONSTANTS
  Threads = {t1, t2, t3, t4}
  NULL = NULL
  Rounds = 4
  WrapAfter = 2
INVARIANTS SleepsOnlyInOpenRound
PROPERTIES ImplementsBarrier AllRoundsPass
