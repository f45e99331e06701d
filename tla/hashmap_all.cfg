SPECIFICATION Spec
CONSTANTS
  ka = ka  kb = kb  kc = kc
  NULL = NULL
  Keys <- ThreeKeys
  Vals = {v1, v2}
  Hashers <- TwoHashers
  SizeMod = 16
  Quantum = 2
  MaxCap = 4
  EnsureArgs <- SmallArgs
  Ops <- Everything
  HMAP_GROW <- DefaultGrow
  HMAP_PROBE <- DefaultProbe
INVARIANTS TypeOK LenBounds HashesCurrent PutHasRoom NothingLost
PROPERTIES CallsTakeEffect WritersReturn
