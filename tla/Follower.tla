------------------------------- MODULE Follower --------------------------------
(* What a display promises that follows something else: it shows what was,   *)
(* possibly late and with parts left out, but everything in the order it     *)
(* happened and nothing that never was.                                      *)
EXTENDS Integers, Sequences

CONSTANTS
    Values,    \* what may be the case
    Initial    \* what is at the start

VARIABLES
    past,      \* all that was the case, up to now
    place      \* the place in it that is shown

Init == past = <<Initial>> /\ place = 1

Happens ==
    /\ \E v \in Values : past' = Append(past, v)
    /\ UNCHANGED place

CatchUp ==
    /\ place' \in place .. Len(past)
    /\ UNCHANGED past

Next == Happens \/ CatchUp

Spec == Init /\ [][Next]_<<past, place>>
================================================================================
