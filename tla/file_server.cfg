SPECIFICATION FairSpec
CONSTANTS
  Clients = {c1, c2}
  Names <- MCNames
  NameLength <- MCNameLength
  Requests <- MCRequests
  NULL = NULL
INVARIANTS ListMatchesDisk
PROPERTIES EndsByServedClient AnswersFit EveryClientAnswered
\* A client that breaks off or a header that is refused may end the server.
CHECK_DEADLOCK FALSE
