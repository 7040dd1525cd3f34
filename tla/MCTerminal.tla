----------------------------- MODULE MCTerminal -----------------------------
(* A screen of three columns and three rows, one visible character, and as *)
(* many lines before the main loop that the screen scrolls twice.          *)
EXTENDS Terminal
=============================================================================
