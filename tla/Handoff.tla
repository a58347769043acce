-------------------------------- MODULE Handoff --------------------------------
(* What an exchange of buffers over a pair of Signals promises: the writer   *)
(* puts an item into an empty box, the reader moves the item from the box to *)
(* its own hands.  No item is overwritten in the box or altered in the       *)
(* reader's hands, and none is read twice or out of thin air.                *)
CONSTANTS
    Items,    \* what can be handed over
    Empty,    \* the box holds nothing
    Initial   \* what the reader holds at the start

VARIABLES
    box,      \* the item put and not yet taken
    reading   \* the item the reader works on

Init == box = Empty /\ reading = Initial

Put ==
    /\ box = Empty
    /\ box' \in Items
    /\ UNCHANGED reading

Take ==
    /\ box # Empty
    /\ reading' = box
    /\ box' = Empty

Next == Put \/ Take

Spec == Init /\ [][Next]_<<box, reading>>
================================================================================
