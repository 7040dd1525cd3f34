---------------------------- MODULE MCEventQueue ----------------------------
(* A queue of capacity 3 with two key codes: long enough to wrap both      *)
(* indices several times with every fill level.                            *)
EXTENDS EventQueue
=============================================================================
