---------------------------- MODULE MCFloppyRead ----------------------------
(***************************************************************************)
(* Two sides of two sectors and a byte that holds three cylinder numbers:  *)
(* three calls of read_data, each for any six sectors of four cylinders.   *)
(***************************************************************************)
EXTENDS FloppyRead

MCAddresses == 0 .. 13
MCCounts == 0 .. 6
MCLeft == [masked : {FALSE}, high : BOOLEAN, page : {0}, base : {5}, address : {7},
           count : {2}, left : {1}, mode : [type : {2}, autoInit : BOOLEAN, down : {TRUE}]]
=============================================================================
