-------------------------- MODULE MCPS2Controller --------------------------
(***************************************************************************)
(* Every kind of device, a BIOS that left the port on or off and the       *)
(* translation on, as many refusals as make a command fail.                *)
(***************************************************************************)
EXTENDS PS2Controller

MCDevices == {"AT", "MF2", "MF2_TRANSLATED", "MOUSE", "UNKNOWN", "NONE"}
MCConfigs == {{0, 1, 2, TRANSLATION}, {2, PORT1_OFF, PORT2_OFF}}
=============================================================================
