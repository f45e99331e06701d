SPECIFICATION PartSpec
CONSTANTS
  Parts = {"list"}
  Elems = {e1, e2}
  Junk = Junk
  NUL = NUL
  MaxLen = 4
  MaxCap = 6
  GROW <- NextThree
  Names = {px, py}
  NULL = NULL
  Freed = Freed
  WORDBITS = 2
  MaxBits = 3
  Values = {1, 2, 3}
  cmp <- Difference
  MaxCount = 5
SYMMETRY Alike
INVARIANT StaysInBlock
