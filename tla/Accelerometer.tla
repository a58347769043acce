----------------------------- MODULE Accelerometer -----------------------------
(* Which way up the panel is held, as its accelerometer tells.  A reading is *)
(* the pair of 16-bit words of one burst read.                               *)
EXTENDS Integers

Direction == {"XUp", "YUp", "XDown", "YDown"}
Word      == -32768 .. 32767
Reading   == [x : Word, y : Word]

THRESHOLD == 4096

(* unsigned_abs: the smallest word has a magnitude, too.                     *)
Magnitude(word) == IF word < 0 THEN -word ELSE word

(* A panel that lies flat, or is shaken, keeps its direction.                *)
Indicative(reading) ==
    Magnitude(reading.x) >= THRESHOLD \/ Magnitude(reading.y) >= THRESHOLD

(* The direction a reading leaves: x decides only if its magnitude is the    *)
(* greater one.                                                              *)
Tilted(reading, before) ==
    IF ~Indicative(reading) THEN before
    ELSE IF Magnitude(reading.x) > Magnitude(reading.y)
         THEN IF reading.x > 0 THEN "XUp" ELSE "XDown"
         ELSE IF reading.y > 0 THEN "YUp" ELSE "YDown"
================================================================================
