--------------------------------- MODULE Panel ---------------------------------
(* From the registry to the light: the cluster exchange between the cores    *)
(* composed with the frame exchange on core 1.                               *)
(*                                                                           *)
(* display_task goes round one loop: it takes and turns a snapshot, draws a  *)
(* frame of it, hands the frame to hub75_task and waits for a buffer.  The   *)
(* frame exchange is represented by what it promises, Handoff, which         *)
(* FrameExchange is shown to keep; a frame is the version and mode it shows. *)
EXTENDS ClusterExchange

VARIABLES
    box,       \* the frame drawn and not yet taken by hub75_task
    reading,   \* the frame the DMA engine sends
    lit        \* what the panel shows: the last frame sent without an error

panelVars == <<vars, box, reading, lit>>

Picture == [version : 0 .. MaxVersion, mode : MapMode]

Frames == INSTANCE Handoff WITH
    Items   <- Picture,
    Empty   <- None,
    Initial <- Content(Blank)

PanelTypeOK ==
    /\ TypeOK
    /\ box \in Picture \cup {None} /\ reading \in Picture /\ lit \in Picture

PanelInit ==
    /\ Init
    /\ Frames!Init
    /\ lit = Content(Blank)

(* fb = rx.wait().await is over when hub75_task has taken the frame: only    *)
(* then the loop begins again.                                               *)
Prepare ==
    /\ box = None \/ dpc # "take"
    /\ TakeFresh \/ NoFresh \/ Recycle \/ Rotate
    /\ UNCHANGED <<box, reading, lit>>

(* draw_trains(fb, clusters) and tx.signal(fb)                               *)
DrawFrame ==
    /\ Draw
    /\ Frames!Put
    /\ box' = drawn'
    /\ UNCHANGED lit

SwapFrame ==
    /\ Frames!Take
    /\ UNCHANGED <<vars, lit>>

(* A transfer that fails changes nothing.                                    *)
SendFrame ==
    /\ lit' = reading
    /\ UNCHANGED <<vars, box, reading>>

DisplayLoop == Prepare \/ DrawFrame

PanelNext ==
    \/ Core0Task /\ UNCHANGED <<box, reading, lit>>
    \/ DisplayLoop \/ SwapFrame \/ SendFrame

(* Core 1 and the task core 0 is polling always get on.  The feed task is    *)
(* polled in the next pass over the run queue once a message is there, which *)
(* is strong fairness, as the other tasks make Core0Idle come and go; that   *)
(* messages keep coming is assumed of the publisher.  A frame is swapped in  *)
(* at the end of a transfer, and not every transfer fails: this supposes     *)
(* that hub75_task does not panic, which FrameExchange allows.  Nothing is   *)
(* assumed of the network the NS API task waits for, nor of the timer and    *)
(* the buttons.                                                              *)
PanelSpec ==
    /\ PanelInit /\ [][PanelNext]_panelVars
    /\ WF_panelVars(DisplayLoop)
    /\ WF_panelVars(SwapFrame)
    /\ WF_panelVars(SendFrame)
    /\ WF_vars(FeedUpsert)
    /\ WF_vars(MapRepublish)
    /\ \A t \in Producers : WF_vars(Refill(t))
    /\ SF_vars(FeedReceive)

--------------------------------------------------------------------------------
(* Properties.                                                               *)

(* The panel never goes back to an older state of the registry: not in the   *)
(* hands of three producers, through two pairs of slots and whichever        *)
(* transfers fail.                                                           *)
LitNeverGoesBack == [][lit'.version >= lit.version]_panelVars

(* A registry change is seen eventually, also when the task that made it     *)
(* found no free buffer and skipped its publish ("the next update will catch *)
(* up", display.rs), and though display_task waits for hub75_task.           *)
ChangeIsLit == \A v \in 1 .. MaxVersion : (version >= v) ~> (lit.version >= v)

(* A map mode that is left alone is eventually the one on the panel, and     *)
(* stays there, also when republish found no free buffer.                    *)
ModeIsLit == \A m \in MapMode : <>[](mode = m) => <>[](lit.mode = m)
================================================================================
