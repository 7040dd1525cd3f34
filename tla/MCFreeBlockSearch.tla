------------------------- MODULE MCFreeBlockSearch --------------------------
(* Every sorted list of up to MaxLen blocks of up to MaxSize bytes, ties   *)
(* included, searched for every size from 0 to one beyond the largest.     *)
EXTENDS FreeBlockSearch

CONSTANTS MaxLen, MaxSize

MCLists == {s \in UNION {[1 .. n -> 1 .. MaxSize] : n \in 0 .. MaxLen} : IsSorted(s)}
MCSizes == 0 .. MaxSize + 1
=============================================================================
