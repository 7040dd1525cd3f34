------------------------------ MODULE MCTimer ------------------------------
(* A counter that wraps after eight ticks and sleeps of up to five, from   *)
(* every value of the counter.                                             *)
EXTENDS Timer
=============================================================================
