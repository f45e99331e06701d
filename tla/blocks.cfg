SPECIFICATION PartSpec
CONSTANTS
  Parts = {"list", "string", "bits", "heap"}
  Elems = {e1, e2}
  Junk = Junk
  NUL = NUL
  MaxLen = 4
  MaxCap = 6
  GROW <- NextThree
  Names = {px, py}
  NULL = NULL
  Freed = Freed
  WORDBITS = 2
  MaxBits = 3
  Values = {1, 2, 3}
  cmp <- Difference
  MaxCount = 5
SYMMETRY Alike
INVARIANTS TypeOK IsHeap Sorts BlockSafe BlockFits
PROPERTIES ImplementsSequence KeepsTerminator StrayOrigin ImplementsBits
\* the program ends where a null pointer is followed
CHECK_DEADLOCK FALSE
