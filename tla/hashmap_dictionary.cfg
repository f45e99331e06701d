SPECIFICATION Spec
CONSTANTS
  ka = ka  kb = kb  kc = kc
  NULL = NULL
  Keys <- ThreeKeys
  Vals = {v1, v2}
  Hashers <- TwoHashers
  SizeMod = 16
  Quantum = 3
  MaxCap = 6
  EnsureArgs <- SmallArgs
  Ops <- NoRemove
  HMAP_GROW <- DefaultGrow
  HMAP_PROBE <- DefaultProbe
INVARIANTS AllReachable SizeExact
PROPERTIES ImplementsDictionary SearchReturns
