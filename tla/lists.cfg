SPECIFICATION Spec
CONSTANTS
  Kinds <- BothKinds
  Elems <- SomeElems
  NULL = NULL
  comp <- ByTens
  Predicates <- SomePredicates
  MaxLen = 4
INVARIANTS TypeOK IsList
PROPERTIES NodesStay CallsReturn ImplementsSequence
CHECK_DEADLOCK FALSE
