SPECIFICATION Spec
CONSTANTS
  Sizes = {0, 3, 20}
  Nums = {2}
  HeapLimit = 47
  NULL = NULL
INVARIANTS FailureReturnsNull
