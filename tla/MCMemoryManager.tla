-------------------------- MODULE MCMemoryManager ---------------------------
(* A heap of 96 or 78 bytes behind HEAP_BASE with the 12-byte headers and  *)
(* the 4-byte padding of the code: up to six blocks of the smallest size.  *)
(* A request of 20 bytes can be split again for 1 or 4 bytes once freed;   *)
(* a region that ends off a multiple of 4 leaves an odd last block.        *)
EXTENDS MemoryManager
=============================================================================
