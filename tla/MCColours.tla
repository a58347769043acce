------------------------------- MODULE MCColours -------------------------------
EXTENDS Colours

(* None, one, neighbours, far apart, all but one and all.                    *)
MasksDef == {{}, {0}, {3}, {0, 1}, {2, 7}, {0, 2, 3}, {1, 2, 3, 4, 5, 6, 7}, Bits}
================================================================================
