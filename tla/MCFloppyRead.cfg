SPECIFICATION Spec
CONSTANTS
  SECTORS_PER_CYLINDER = 2
  HEAD_COUNT = 2
  COMMAND_ATTEMPT_COUNT = 3
  BYTE = 3
  BUFFER = 9
  WORD = 64
  Addresses <- MCAddresses
  Counts <- MCCounts
  Left <- MCLeft
  MaxCalls = 3
  MaxBreaks = 2
INVARIANTS
  ReadsWithinCylinder
  BufferConfined
CHECK_DEADLOCK FALSE
