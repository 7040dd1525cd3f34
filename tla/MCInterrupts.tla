---------------------------- MODULE MCInterrupts ----------------------------
(* The timer, the keyboard and the floppy disk, and two lines of the slave *)
(* that only the handler for everything else answers: one can come while   *)
(* the other is still in service.                                          *)
EXTENDS Interrupts
=============================================================================
