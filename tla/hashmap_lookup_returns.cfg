SPECIFICATION Spec
CONSTANTS
  ka = ka  kb = kb  kc = kc
  NULL = NULL
  Keys <- ThreeKeys
  Vals = {v1}
  Hashers <- OneHasher
  SizeMod = 8
  Quantum = 2
  MaxCap = 4
  EnsureArgs <- SmallArgs
  Ops <- Short
  HMAP_GROW <- DefaultGrow
  HMAP_PROBE <- DefaultProbe
PROPERTY LookupReturns
