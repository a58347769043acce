----------------------------- MODULE MCEnrichment ------------------------------
(* Small instances of Enrichment.  Train numbers are interchangeable, which  *)
(* the safety runs use.                                                      *)
EXTENDS Enrichment, TLC

TrainSymmetry == Permutations(Trains)

AllFaults == {"open", "status", "unreadable", "partial"}
================================================================================
