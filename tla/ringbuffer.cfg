SPECIFICATION Spec
CONSTANTS
  Elems = {x, y}
  NULL = NULL
  Zero = Zero
  Counts <- SomeCounts
  MaxPolls = 2
INVARIANTS TypeOK CursorInside HandsOutInOrder
PROPERTIES ImplementsFifo HandedOutAll ForeachEnds HandsOutLive
