----------------------------- MODULE MCKeyboard -----------------------------
(* The bounds are in the configuration: up to three key actions on three   *)
(* keys, two whose scancodes differ only by the E0 prefix and one with a   *)
(* long sequence, an event queue of two entries, so that it overflows, and *)
(* the code's three attempts at a byte.                                    *)
EXTENDS Keyboard
=============================================================================
