-------------------------- MODULE FreeBlockSearch ---------------------------
(***************************************************************************)
(* The bisection of find_first_gte_free_block                              *)
(* (src/src/kernel/memory-manager/manager.cpp), one action per branch of   *)
(* its loop.  A list is given by the sizes of its blocks, in order.        *)
(* MemoryManager uses what this loop returns; this module shows what that  *)
(* is, for every sorted list.                                              *)
(***************************************************************************)
EXTENDS FreeList

CONSTANTS Lists,   \* the lists the function may be called on
          Sizes    \* the sizes it may be asked for

ASSUME ListsAssumption == \A s \in Lists : s \in Seq(Nat) /\ IsSorted(s)
ASSUME SizesAssumption == Sizes \subseteq Nat

VARIABLES list, t_size, start, end, midpoint, pc

searchVars == <<list, t_size, start, end, midpoint, pc>>

\* freeBlocks[k], which the code does not bounds-check
At(k) == list[k + 1]

SearchInit ==
  /\ list \in Lists
  /\ t_size \in Sizes
  /\ start = 0 /\ end = 0 /\ midpoint = 0
  /\ pc = "entry"

\* The early return: an empty list, or the first block is large enough.
FirstSuffices == Len(list) # 0 => t_size <= At(0)

return_zero ==
  /\ pc = "entry"
  /\ FirstSuffices
  /\ end' = 0
  /\ pc' = "done"
  /\ UNCHANGED <<list, t_size, start, midpoint>>

enter_loop ==
  /\ pc = "entry"
  /\ ~FirstSuffices
  /\ start' = 0
  /\ end' = Len(list)
  /\ midpoint' = (start' + end') \div 2
  /\ pc' = "loop"
  /\ UNCHANGED <<list, t_size>>

\* Mutant: the midpoint's block is skipped when it is large enough itself.
step_EndBeforeMidpoint ==
  /\ pc = "loop" /\ start # midpoint
  /\ IF t_size > At(midpoint)
     THEN start' = midpoint /\ UNCHANGED end
     ELSE end' = midpoint - 1 /\ UNCHANGED start
  /\ midpoint' = (start' + end') \div 2
  /\ UNCHANGED <<list, t_size, pc>>

\* Mutant: start moves past the midpoint.
step_StartAfterMidpoint ==
  /\ pc = "loop" /\ start # midpoint
  /\ IF t_size > At(midpoint)
     THEN start' = midpoint + 1 /\ UNCHANGED end
     ELSE end' = midpoint /\ UNCHANGED start
  /\ midpoint' = (start' + end') \div 2
  /\ UNCHANGED <<list, t_size, pc>>

\* Mutant: the branch for a block that is too small does not move start.
step_StartStays ==
  /\ pc = "loop" /\ start # midpoint
  /\ IF t_size > At(midpoint)
     THEN UNCHANGED <<start, end>>
     ELSE end' = midpoint /\ UNCHANGED start
  /\ midpoint' = (start' + end') \div 2
  /\ UNCHANGED <<list, t_size, pc>>

\* while (start != midpoint) ...
step ==
  /\ pc = "loop" /\ start # midpoint
  /\ IF t_size > At(midpoint)
     THEN start' = midpoint /\ UNCHANGED end
     ELSE end' = midpoint /\ UNCHANGED start
  /\ midpoint' = (start' + end') \div 2
  /\ UNCHANGED <<list, t_size, pc>>

leave_loop ==
  /\ pc = "loop" /\ start = midpoint
  /\ pc' = "done"
  /\ UNCHANGED <<list, t_size, start, end, midpoint>>

\* The callers insert, remove or give up; the function itself is over.
returned == pc = "done" /\ UNCHANGED searchVars

SearchNext == return_zero \/ enter_loop \/ step \/ leave_loop \/ returned

\* The code runs to its return: nothing in it waits.
SearchSpec == SearchInit /\ [][SearchNext]_searchVars /\ WF_searchVars(SearchNext)

-----------------------------------------------------------------------------
SearchTypeOK ==
  /\ list \in Lists
  /\ t_size \in Sizes
  /\ start \in 0 .. Len(list)
  /\ end \in 0 .. Len(list)
  /\ midpoint \in 0 .. Len(list)
  /\ pc \in {"entry", "loop", "done"}

\* find_first_gte_free_block reads no element outside the vector: the midpoint
\* it is about to look at is a position of freeBlocks.
InBounds == pc = "loop" => midpoint < Len(list)

\* What is returned separates the smaller blocks from those that are large
\* enough: every position before it holds a smaller block, every position from
\* it on a block of at least t_size.
ReturnsFirstGte == pc = "done" => IsFirstGte(list, t_size, end)

\* The loop ends for every list: the interval shrinks until start = midpoint.
Terminates == <>(pc = "done")
=============================================================================
