SPECIFICATION FairSpec
CONSTANTS
  Rules <- MCRules
  Makefiles <- MCMakefiles
  Workers = {w1, w2, w3}
  Teams = {{w1}, {w1, w2}, {w1, w2, w3}}
  NULL = NULL
INVARIANTS DependenciesFirst OneWorkerPerRule Verdict
PROPERTIES SingleWorkerReturns
