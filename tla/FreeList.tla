------------------------------ MODULE FreeList ------------------------------
(***************************************************************************)
(* The operations of Data::FCVector (src/src/kernel/data/fc_vector.hpp)    *)
(* that the memory manager uses on its list of free blocks, and what the   *)
(* manager's bisection is meant to compute.  Positions are 0-based, as in  *)
(* the code; element k of the vector is element k + 1 of the sequence.     *)
(***************************************************************************)
EXTENDS Integers, Sequences

\* insert: the elements from t_index on move up by one, then the slot is filled.
insert(s, t_index, t_value) ==
  [k \in 1 .. Len(s) + 1 |-> IF k <= t_index THEN s[k]
                             ELSE IF k = t_index + 1 THEN t_value
                             ELSE s[k - 1]]

\* remove: the elements behind t_index move down by one.
remove(s, t_index) ==
  [k \in 1 .. Len(s) - 1 |-> IF k <= t_index THEN s[k] ELSE s[k + 1]]

-----------------------------------------------------------------------------
IsSorted(s) == \A j, k \in 1 .. Len(s) : j <= k => s[j] <= s[k]

\* i separates the elements smaller than t from those that are not.
IsFirstGte(s, t, i) ==
  /\ i \in 0 .. Len(s)
  /\ \A k \in 1 .. Len(s) : k <= i => s[k] < t
  /\ \A k \in 1 .. Len(s) : k > i => s[k] >= t
=============================================================================
