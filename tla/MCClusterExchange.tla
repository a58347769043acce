--------------------------- MODULE MCClusterExchange ---------------------------
(* Small instances of ClusterExchange: the panel may be held any way up and  *)
(* slantwise, with the smallest word among its readings, or is kept still.   *)
EXTENDS ClusterExchange

AnyTilt == {[x |-> 16384, y |-> 0], [x |-> -32768, y |-> 4096], [x |-> -4095, y |-> 4095],
            [x |-> 8192, y |-> 8192], [x |-> 0, y |-> -32768]}
Upright == {[x |-> 16384, y |-> 0]}
================================================================================
