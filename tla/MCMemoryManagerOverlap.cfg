SPECIFICATION Spec
CONSTANTS
  HEAP_BASE = 16
  HEADER = 12
  ALIGN = 4
  CAPACITY = 3
  WORD = 256
  RegionEnds = {112, 94}
  Requests = {0, 1, 4, 20}
CHECK_DEADLOCK FALSE
INVARIANT NoOverlap
