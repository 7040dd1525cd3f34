---------------------------- MODULE MCFloppyDisk ----------------------------
(* Two drives and a number that is no drive, the code's three attempts, a   *)
(* timeout of four ticks: IRQ6 in time before the first tick or behind it,  *)
(* and too late at each later one.                                          *)
EXTENDS FloppyDisk
=============================================================================
