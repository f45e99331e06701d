SPECIFICATION Spec
CONSTANTS
  Kinds <- AllKinds
  KeysOf <- SomeKeys
  Vals = {v1, v2}
  NULL = NULL
  MaxLen = 3
  Ranges <- SomeRanges
  TMMAP_GROW <- GrowByTwo
INVARIANTS TypeOK IsTree Ordered LenExact Fits
PROPERTIES PointersStay CallsReturn ImplementsAssoc
