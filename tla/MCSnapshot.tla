------------------------------ MODULE MCSnapshot -------------------------------
(* A small instance of Snapshot.  Of the three positions, two are on one     *)
(* pixel of the country map; of these, one is on the first pixel of the      *)
(* Randstad window and the other lies just outside it, a metre further west. *)
(* The third is on the window's last pixel.                                  *)
EXTENDS Snapshot, TLC

SomePositions == {[x |-> 77499, y |-> 496250], [x |-> 77500, y |-> 495001],
                  [x |-> 157499, y |-> 416251]}

AnyTilt == Direction

TrainSymmetry == Permutations(Trains)
================================================================================
