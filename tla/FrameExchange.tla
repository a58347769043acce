----------------------------- MODULE FrameExchange -----------------------------
(* How a rendered frame reaches the LED matrix: double buffering between     *)
(* display_task, which draws, and hub75_task, which keeps the DMA engine     *)
(* sending one of the two frame buffers to the panel.                        *)
(*                                                                           *)
(* Both tasks run on core 1.  hub75_task belongs to an interrupt executor    *)
(* and preempts display_task, so all it does between two awaits is one step  *)
(* here; display_task can be interrupted anywhere.  The DMA engine reads its *)
(* buffer during the whole transfer, while display_task goes on.  A panic of *)
(* hub75_task ends both: the panic handler halts the core.                   *)
EXTENDS Naturals

CONSTANTS
    fb0, fb1,   \* the frame buffers
    None,       \* an empty Signal, or no buffer in display_task's hands
    Torn,       \* contents that are neither one frame nor another
    Frames      \* frames are numbered modulo Frames

FrameBuffers == {fb0, fb1}
Frame        == 0 .. Frames - 1

ASSUME FrameBuffersAssumption == fb0 # fb1 /\ None \notin FrameBuffers
ASSUME FramesAssumption == Frames \in Nat /\ Frames > 3
ASSUME TornAssumption == Torn \notin Frame /\ None \notin Frame /\ Torn # None

VARIABLES
    RX,       \* rendered frames, display_task to hub75_task
    TX,       \* buffers on the way back, hub75_task to display_task
    drawFb,   \* display_task's `fb`
    scanFb,   \* hub75_task's `fb`, the DMA source
    dpc,      \* where display_task stands
    hpc,      \* where hub75_task stands, or "panicked"
    image,    \* image[b]: the frame buffer b shows
    frame,    \* the frame display_task draws next
    sent      \* the last frame that was transferred without an error

vars == <<RX, TX, drawFb, scanFb, dpc, hpc, image, frame, sent>>

TypeOK ==
    /\ RX \in FrameBuffers \cup {None}
    /\ TX \in FrameBuffers \cup {None}
    /\ drawFb \in FrameBuffers \cup {None}
    /\ scanFb \in FrameBuffers
    /\ dpc \in {"erase", "draw", "signal", "wait"}
    /\ hpc \in {"start", "dma", "panicked"}
    /\ image \in [FrameBuffers -> Frame \cup {Torn}]
    /\ frame \in Frame
    /\ sent \in Frame

(* display::start: both buffers are erased, each task is given one.  Frame 0 *)
(* is the blank one.                                                         *)
Init ==
    /\ RX = None
    /\ TX = None
    /\ drawFb = fb0
    /\ scanFb = fb1
    /\ dpc = "erase"
    /\ hpc = "start"
    /\ image = [b \in FrameBuffers |-> 0]
    /\ frame = 1
    /\ sent = 0

--------------------------------------------------------------------------------
(* display_task.                                                             *)

Erase ==
    /\ dpc = "erase"
    /\ image' = [image EXCEPT ![drawFb] = Torn]
    /\ dpc' = "draw"
    /\ UNCHANGED <<RX, TX, drawFb, scanFb, hpc, frame, sent>>

(* Mutation: the frame is handed over erased and undrawn.                    *)
SignalBeforeDraw ==
    /\ dpc = "draw"
    /\ RX' = drawFb
    /\ drawFb' = None
    /\ dpc' = "wait"
    /\ UNCHANGED <<TX, scanFb, hpc, image, frame, sent>>

(* draw_trains *)
Draw ==
    /\ dpc = "draw"
    /\ image' = [image EXCEPT ![drawFb] = frame]
    /\ frame' = (frame + 1) % Frames
    /\ dpc' = "signal"
    /\ UNCHANGED <<RX, TX, drawFb, scanFb, hpc, sent>>

(* Mutation: display_task goes on in the buffer it handed over.              *)
SignalWithoutGiving ==
    /\ dpc = "signal"
    /\ RX' = drawFb
    /\ dpc' = "erase"
    /\ UNCHANGED <<TX, drawFb, scanFb, hpc, image, frame, sent>>

(* tx.signal(fb) gives the buffer away.                                      *)
SignalFrame ==
    /\ dpc = "signal"
    /\ RX' = drawFb
    /\ drawFb' = None
    /\ dpc' = "wait"
    /\ UNCHANGED <<TX, scanFb, hpc, image, frame, sent>>

(* fb = rx.wait().await *)
WaitFrame ==
    /\ dpc = "wait"
    /\ TX # None
    /\ drawFb' = TX
    /\ TX' = None
    /\ dpc' = "erase"
    /\ UNCHANGED <<RX, scanFb, hpc, image, frame, sent>>

Halted == hpc = "panicked"

DisplayTask == ~Halted /\ (Erase \/ Draw \/ SignalFrame \/ WaitFrame)

--------------------------------------------------------------------------------
(* hub75_task.                                                               *)

(* Mutation: the rendered frame is handed back, not the old source.          *)
KeepNewBuffer ==
    /\ TX' = RX
    /\ RX' = None
    /\ UNCHANGED scanFb

(* Mutation: the old source is not handed back.                              *)
SwapWithoutReturning ==
    /\ scanFb' = RX
    /\ RX' = None
    /\ UNCHANGED TX

(* The rendered frame becomes the DMA source, the old source goes back.      *)
Swap ==
    /\ TX' = scanFb
    /\ scanFb' = RX
    /\ RX' = None

(* hub75.render(fb).expect(..): a transfer that cannot be started is a       *)
(* panic, with the frame buffers swapped already.                            *)
Render == hpc' \in {"dma", "panicked"}

(* The first frame is waited for.                                            *)
FirstFrame ==
    /\ hpc = "start"
    /\ RX # None
    /\ Swap
    /\ Render
    /\ UNCHANGED <<drawFb, dpc, image, frame, sent>>

(* The top of the loop: the next transfer is that of a new frame if there is *)
(* one, and of the same frame again otherwise.                               *)
StartTransfer ==
    /\ \/ RX # None /\ Swap
       \/ RX = None /\ UNCHANGED <<RX, TX, scanFb>>
    /\ Render

(* A transfer that ends, also one for which xfer.wait() returns an error, is *)
(* followed by the next one at once.                                         *)
TransferDone ==
    /\ hpc = "dma"
    /\ sent' = image[scanFb]
    /\ StartTransfer
    /\ UNCHANGED <<drawFb, dpc, image, frame>>

(* Mutation: a failed transfer ends the loop, `break` for `continue`.        *)
FailureStops ==
    /\ hpc = "dma"
    /\ hpc' = "stopped"
    /\ UNCHANGED <<RX, TX, scanFb, drawFb, dpc, image, frame, sent>>

TransferFailed ==
    /\ hpc = "dma"
    /\ StartTransfer
    /\ UNCHANGED <<drawFb, dpc, image, frame, sent>>

(* xfer.wait_for_done().await.expect(..): an error reported here is a panic. *)
WaitForDoneFails ==
    /\ hpc = "dma"
    /\ hpc' = "panicked"
    /\ UNCHANGED <<RX, TX, drawFb, scanFb, dpc, image, frame, sent>>

Hub75Task == FirstFrame \/ TransferDone \/ TransferFailed \/ WaitForDoneFails

Next == DisplayTask \/ Hub75Task

Spec == Init /\ [][Next]_vars

(* display_task has core 1 to itself but for short interrupts, every DMA     *)
(* transfer ends, and failures single no frame out.                          *)
FairSpec ==
    /\ Spec
    /\ WF_vars(DisplayTask)
    /\ WF_vars(Hub75Task)
    /\ \A f \in Frame : SF_vars(TransferDone /\ image[scanFb] = f)

--------------------------------------------------------------------------------
(* Properties.                                                               *)

(* Each frame buffer has one owner at any time, and none is dropped by a     *)
(* Signal that is overwritten: exactly one of the four places holds it.      *)
OneOwner ==
    \A b \in FrameBuffers :
        \/ RX = b      /\ b \notin {TX, drawFb, scanFb}
        \/ TX = b      /\ b \notin {RX, drawFb, scanFb}
        \/ drawFb = b  /\ b \notin {RX, TX, scanFb}
        \/ scanFb = b  /\ b \notin {RX, TX, drawFb}

(* The DMA engine never sends a frame that is being erased or drawn.         *)
NoTearing == hpc = "dma" => image[scanFb] # Torn

(* Frames reach the panel in the order they were drawn and none is skipped:  *)
(* display_task cannot draw over a frame that was not sent yet.              *)
InOrder ==
    [][scanFb' # scanFb => image'[scanFb'] = (image[scanFb] + 1) % Frames]_vars

(* The frame exchange hands frames over one by one; the frame being sent     *)
(* never changes under the DMA engine.                                       *)
HandedOver == INSTANCE Handoff WITH
    Items   <- Frame,
    Empty   <- None,
    Initial <- 0,
    box     <- IF RX = None THEN None ELSE image[RX],
    reading <- image[scanFb]
HandsOver == HandedOver!Spec

(* Every frame display_task draws becomes the DMA source eventually: neither *)
(* task waits for the other forever, and a failed transfer delays no frame,  *)
(* unless the core is halted by a panic.                                     *)
EveryFrameScanned == \A f \in Frame : (frame = f) ~> (image[scanFb] = f \/ Halted)

(* The picture does not freeze for an error of xfer.wait(), after which the  *)
(* frame may be replaced instead of being sent again: only the two panics    *)
(* end the refreshing.                                                       *)
KeepsRefreshing == \A f \in Frame : []<>(sent = f \/ Halted)
================================================================================
