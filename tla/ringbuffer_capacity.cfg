SPECIFICATION Spec
CONSTANTS
  Elems = {x, y}
  NULL = NULL
  Zero = Zero
  Counts <- SomeCounts
  MaxPolls = 1
PROPERTY RefusedWhenFull
