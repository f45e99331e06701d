SPECIFICATION Spec
CONSTANTS
  Kinds <- BidiOnly
  Elems <- SomeElems
  NULL = NULL
  comp <- ByTens
  Predicates <- SomePredicates
  MaxLen = 3
INVARIANTS SortReturns
CHECK_DEADLOCK FALSE
