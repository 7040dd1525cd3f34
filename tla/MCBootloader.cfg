SPECIFICATION BootSpec
CONSTANTS
  SECTOR_COUNT = 2
  HEAD_COUNT = 2
  CYLINDER_COUNT = 3
  FLOPPY_READ_ATTEMPT_COUNT = 3
  SECTORS_PER_SEGMENT = 2
  BOOT1_SECTORS = 1
  MaxSectors = 5
  MaxFailures = 6
  WORD = 4
  ENTRIES = 2
  SLOTS = 5
  HEAP_BASE = 5
  Maps <- MCMaps
  Residues <- MCResidues
  Kernels <- MCKernels
INVARIANTS
  ImageLoaded
  TableRight
  HeapInUsableMemory
PROPERTY BootEnds
CHECK_DEADLOCK FALSE
