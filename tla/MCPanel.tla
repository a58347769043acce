-------------------------------- MODULE MCPanel --------------------------------
(* A small instance of Panel: the panel is held still.                       *)
EXTENDS Panel

Upright == {[x |-> 16384, y |-> 0]}
================================================================================
