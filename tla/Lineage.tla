-------------------------------- MODULE Lineage --------------------------------
(* Where what the panel shows comes from: the panel with a record of all     *)
(* that the registry and the map mode were, and for each buffer and picture  *)
(* the place in the record it was built from.  The new variables are         *)
(* history: each is given its next value in every step of the panel and none *)
(* of them has a say in which steps there are.                               *)
EXTENDS Panel, Sequences

VARIABLES
    past,       \* the registry's versions and the map modes, up to now
    filledAt,   \* the place in past a buffer was last filled at
    drawnAt,    \* that of drawn,
    sentAt,     \* of reading
    litAt       \* and of lit

historyVars == <<past, filledAt, drawnAt, sentAt, litAt>>
lineageVars == <<panelVars, historyVars>>

Now == [version |-> version, mode |-> mode]

LineageInit ==
    /\ PanelInit
    /\ past = <<Now>>
    /\ filledAt = [b \in Buffers |-> 1]
    /\ drawnAt = 1 /\ sentAt = 1 /\ litAt = 1

(* A change is appended; a buffer that becomes whole again was filled with   *)
(* what is the case; a new picture comes from where its source comes from.   *)
Recorded ==
    /\ past' = IF Now' = Now THEN past ELSE Append(past, Now')
    /\ filledAt' = [b \in Buffers |->
           IF ~snapshot[b].whole /\ snapshot'[b].whole THEN Len(past) ELSE filledAt[b]]
    /\ drawnAt' = IF drawn' = drawn THEN drawnAt ELSE filledAt[clusters]
    /\ sentAt' = IF reading' = reading THEN sentAt ELSE drawnAt
    /\ litAt' = IF lit' = lit THEN litAt ELSE sentAt

LineageSpec == LineageInit /\ [][PanelNext /\ Recorded]_lineageVars

--------------------------------------------------------------------------------
(* Properties.                                                               *)

(* The record is one of what was the case, and the panel shows the place in  *)
(* it that litAt is.                                                         *)
ShowsThePast ==
    /\ past # <<>> /\ past[Len(past)] = Now
    /\ litAt \in 1 .. Len(past) /\ lit = past[litAt]

(* The panel follows the registry and the map mode: whatever three producers *)
(* publish or skip and whichever transfers fail, it shows only what was the  *)
(* case at one time, version and mode together, and all in its order.        *)
Followed == INSTANCE Follower WITH
    Values  <- Picture,
    Initial <- Content(Blank),
    past    <- past,
    place   <- litAt
Follows == Followed!Spec
================================================================================
