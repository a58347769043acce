-------------------------- MODULE FrameExchangeProofs --------------------------
(* What double buffering guarantees for any number of frames: the two tasks  *)
(* alternate so strictly that where display_task stands determines where the *)
(* frame buffers are and what they show.                                     *)
EXTENDS FrameExchange, TLAPS

Successor(f) == (f + 1) % Frames

(* While display_task has a buffer, both Signals are empty; while it waits,  *)
(* the buffer it gave away is in one of them.                                *)
Places ==
    /\ dpc \in {"erase", "draw", "signal"} =>
           RX = None /\ TX = None /\ drawFb # None /\ drawFb # scanFb
    /\ dpc = "wait" =>
           /\ drawFb = None
           /\ \/ RX # None /\ TX = None /\ RX # scanFb
              \/ RX = None /\ TX # None /\ TX # scanFb

(* The frame that is sent is the last but one drawn, or the last one.        *)
Images ==
    /\ image[scanFb] \in Frame
    /\ dpc \in {"erase", "draw"} => frame = Successor(image[scanFb])
    /\ dpc = "signal" =>
           image[drawFb] = Successor(image[scanFb]) /\ frame = Successor(image[drawFb])
    /\ RX # None =>
           image[RX] = Successor(image[scanFb]) /\ frame = Successor(image[RX])
    /\ TX # None => frame = Successor(image[scanFb])

IInv == TypeOK /\ Places /\ Images

USE FrameBuffersAssumption, FramesAssumption, TornAssumption

LEMMA SuccessorType == \A f \in Frame : Successor(f) \in Frame
  BY DEF Successor, Frame

LEMMA InitInv == Init => IInv
<1> SUFFICES ASSUME Init PROVE IInv
  OBVIOUS
<1>1. 0 \in Frame /\ 1 \in Frame /\ Successor(0) = 1
  BY DEF Frame, Successor
<1>2. TypeOK
  BY <1>1 DEF Init, TypeOK, FrameBuffers
<1>3. Places
  BY DEF Init, Places, FrameBuffers
<1>4. Images
  BY <1>1 DEF Init, Images, FrameBuffers
<1> QED
  BY <1>2, <1>3, <1>4 DEF IInv

LEMMA StepInv == IInv /\ [Next]_vars => IInv'
<1> SUFFICES ASSUME IInv, [Next]_vars PROVE IInv'
  OBVIOUS
<1> USE DEF IInv, TypeOK, Places, Images, FrameBuffers
<1>1. CASE Erase
  BY <1>1 DEF Erase
<1>2. CASE Draw
  <2>1. frame' = Successor(frame) /\ frame' \in Frame
    BY <1>2, SuccessorType DEF Draw, Successor
  <2> QED
    BY <1>2, <2>1 DEF Draw
<1>3. CASE SignalFrame
  BY <1>3 DEF SignalFrame
<1>4. CASE WaitFrame
  BY <1>4 DEF WaitFrame
<1>5. CASE FirstFrame
  BY <1>5, SuccessorType DEF FirstFrame, Swap, Render
<1>6. CASE TransferDone
  BY <1>6, SuccessorType DEF TransferDone, StartTransfer, Swap, Render
<1>7. CASE TransferFailed
  BY <1>7, SuccessorType DEF TransferFailed, StartTransfer, Swap, Render
<1>8. CASE WaitForDoneFails
  BY <1>8 DEF WaitForDoneFails
<1>9. CASE UNCHANGED vars
  BY <1>9 DEF vars
<1> QED
  BY <1>1, <1>2, <1>3, <1>4, <1>5, <1>6, <1>7, <1>8, <1>9 DEF Next, DisplayTask, Hub75Task

LEMMA InductiveInvariant == Spec => []IInv
  BY InitInv, StepInv, PTL DEF Spec

--------------------------------------------------------------------------------
(* Every variable keeps its type: neither task ever works without a buffer.  *)
THEOREM TypeCorrect == Spec => []TypeOK
<1>1. IInv => TypeOK
  BY DEF IInv
<1> QED
  BY InductiveInvariant, <1>1, PTL

(* Each frame buffer is in exactly one of the four places it can be in.      *)
THEOREM BuffersHaveOneOwner == Spec => []OneOwner
<1>1. IInv => OneOwner
  BY DEF IInv, TypeOK, Places, OneOwner, FrameBuffers
<1> QED
  BY InductiveInvariant, <1>1, PTL

(* The DMA engine never reads a frame that display_task is still drawing.    *)
THEOREM NothingTorn == Spec => []NoTearing
<1>1. IInv => NoTearing
  BY DEF IInv, Images, NoTearing
<1> QED
  BY InductiveInvariant, <1>1, PTL

(* The frames reach the DMA engine in the order they were drawn, none left   *)
(* out, whichever transfers fail.                                            *)
THEOREM FramesInOrder == Spec => InOrder
<1>1. IInv /\ [Next]_vars =>
          [scanFb' # scanFb => image'[scanFb'] = (image[scanFb] + 1) % Frames]_vars
  <2> SUFFICES ASSUME IInv, Next, scanFb' # scanFb
               PROVE  image'[scanFb'] = (image[scanFb] + 1) % Frames
    OBVIOUS
  <2>1. RX # None /\ scanFb' = RX /\ image' = image
    BY DEF Next, DisplayTask, Hub75Task, Erase, Draw, SignalFrame, WaitFrame, FirstFrame,
           TransferDone, TransferFailed, WaitForDoneFails, StartTransfer, Swap
  <2> QED
    BY <2>1 DEF IInv, Images, Successor
<1> QED
  BY InductiveInvariant, <1>1, PTL DEF Spec, InOrder

Box     == IF RX = None THEN None ELSE image[RX]
Reading == image[scanFb]

LEMMA HandoffStep == IInv /\ [Next]_vars => [HandedOver!Next]_<<Box, Reading>>
<1> SUFFICES ASSUME IInv, [Next]_vars
             PROVE  HandedOver!Next \/ UNCHANGED <<Box, Reading>>
  OBVIOUS
<1>1. CASE UNCHANGED <<RX, scanFb, image>>
  BY <1>1 DEF Box, Reading
<1>2. CASE Erase \/ Draw
  <2>1. RX = None /\ UNCHANGED <<RX, scanFb>> /\ drawFb # scanFb
    BY <1>2 DEF Erase, Draw, IInv, Places
  <2>2. image'[scanFb] = image[scanFb]
    BY <1>2, <2>1 DEF Erase, Draw, IInv, TypeOK
  <2> QED
    BY <2>1, <2>2 DEF Box, Reading
<1>3. CASE SignalFrame
  <2>1. RX = None /\ RX' = drawFb /\ drawFb # None /\ UNCHANGED <<scanFb, image>>
    BY <1>3 DEF SignalFrame, IInv, Places
  <2>2. image[drawFb] \in Frame
    BY <1>3, SuccessorType DEF SignalFrame, IInv, Images
  <2> QED
    BY <2>1, <2>2 DEF HandedOver!Next, HandedOver!Put, Box, Reading
<1>4. CASE RX # None /\ Swap /\ image' = image
  <2>1. image[RX] \in Frame
    BY <1>4, SuccessorType DEF IInv, Images
  <2>2. Box # None /\ Box' = None /\ Reading' = Box
    BY <1>4, <2>1 DEF Swap, Box, Reading
  <2> QED
    BY <2>2 DEF HandedOver!Next, HandedOver!Take, Box, Reading
<1> QED
  BY <1>1, <1>2, <1>3, <1>4 DEF Next, DisplayTask, Hub75Task, Erase, Draw, WaitFrame,
     FirstFrame, TransferDone, TransferFailed, WaitForDoneFails, StartTransfer, vars

(* Double buffering implements the one-place box: a frame that is signalled  *)
(* is taken once, as it was drawn, and does not change while it is sent.     *)
THEOREM ImplementsHandoff == Spec => HandsOver
<1>1. Init => HandedOver!Init
  BY DEF Init, HandedOver!Init, FrameBuffers
<1> QED
  BY InductiveInvariant, <1>1, HandoffStep, PTL
     DEF Spec, HandsOver, HandedOver!Spec, Box, Reading

--------------------------------------------------------------------------------
(* display_task goes on drawing, its buffer erased first, only when the      *)
(* frame it signalled was taken: the Signal is never found full.             *)
THEOREM SignalNeverOverwrites == Spec => [](dpc \in {"erase", "draw", "signal"} => RX = None)
<1>1. IInv => (dpc \in {"erase", "draw", "signal"} => RX = None)
  BY DEF IInv, Places
<1> QED
  BY InductiveInvariant, <1>1, PTL

(* The two tasks never wait for one another: display_task can take a step,   *)
(* or hub75_task holds what it waits for.                                    *)
THEOREM NoCircularWait == Spec => [](dpc # "wait" \/ RX # None \/ TX # None)
<1>1. IInv => (dpc # "wait" \/ RX # None \/ TX # None)
  BY DEF IInv, Places
<1> QED
  BY InductiveInvariant, <1>1, PTL

--------------------------------------------------------------------------------
(* The weak fairness of both tasks, with the condition under which a task    *)
(* can take a step spelt out: a task is not ready again and again, or it     *)
(* takes steps again and again.  DisplayReady is when DisplayTask is         *)
(* enabled; HubReady is narrower than when Hub75Task is, which only makes    *)
(* this hypothesis weaker than the fairness of FairSpec.                     *)
DisplayReady == ~Halted /\ (dpc # "wait" \/ TX # None)
HubReady     == ~Halted /\ RX # None

Scheduled ==
    /\ []<>~DisplayReady \/ []<><<DisplayTask>>_vars
    /\ []<>~HubReady     \/ []<><<Hub75Task>>_vars

(* The way of frame f: it is drawn once the frame before it was signalled,   *)
(* taken, and its successor in the buffer erased.  A panic ends it anywhere. *)
Before(f)    == ~Halted /\ frame = f /\ dpc = "signal"
Offered(f)   == ~Halted /\ frame = f /\ RX # None
Returned(f)  == ~Halted /\ frame = f /\ TX # None
Erasing(f)   == ~Halted /\ frame = f /\ dpc = "erase"
Drawing(f)   == ~Halted /\ frame = f /\ dpc = "draw"
Drawn(f)     == ~Halted /\ dpc = "signal" /\ image[drawFb] = f
Signalled(f) == ~Halted /\ RX # None /\ image[RX] = f
Scanned(f)   == image[scanFb] = f

(* One stage each: a step stays or moves on, and a step of the task whose    *)
(* turn it is moves on.                                                      *)
LEMMA FrameIsScanned ==
    ASSUME NEW f \in Frame
    PROVE  Spec /\ Scheduled => (frame = f ~> Scanned(f) \/ Halted)
<1> USE DEF IInv, TypeOK, Places, Images, FrameBuffers, Next, DisplayTask, Hub75Task,
        Erase, Draw, SignalFrame, WaitFrame, FirstFrame, TransferDone, TransferFailed,
        WaitForDoneFails, StartTransfer, Swap, Render, Halted, DisplayReady, HubReady, vars
<1>0. IInv /\ frame = f =>
          Before(f) \/ Offered(f) \/ Returned(f) \/ Erasing(f) \/ Drawing(f)
          \/ Halted
  BY DEF Before, Offered, Returned, Erasing, Drawing
<1>1. /\ Before(f) => DisplayReady
      /\ IInv /\ Before(f) /\ [Next]_vars => Before(f)' \/ Offered(f)' \/ Halted'
      /\ IInv /\ Before(f) /\ <<DisplayTask>>_vars => Offered(f)' \/ Halted'
  BY DEF Before, Offered
<1>2. /\ Offered(f) => HubReady
      /\ IInv /\ Offered(f) /\ [Next]_vars => Offered(f)' \/ Returned(f)' \/ Halted'
      /\ IInv /\ Offered(f) /\ <<Hub75Task>>_vars => Returned(f)' \/ Halted'
  BY DEF Offered, Returned
<1>3. /\ Returned(f) => DisplayReady
      /\ IInv /\ Returned(f) /\ [Next]_vars => Returned(f)' \/ Erasing(f)' \/ Halted'
      /\ IInv /\ Returned(f) /\ <<DisplayTask>>_vars => Erasing(f)' \/ Halted'
  BY DEF Returned, Erasing
<1>4. /\ Erasing(f) => DisplayReady
      /\ IInv /\ Erasing(f) /\ [Next]_vars => Erasing(f)' \/ Drawing(f)' \/ Halted'
      /\ IInv /\ Erasing(f) /\ <<DisplayTask>>_vars => Drawing(f)' \/ Halted'
  BY DEF Erasing, Drawing
<1>5. /\ Drawing(f) => DisplayReady
      /\ IInv /\ Drawing(f) /\ [Next]_vars => Drawing(f)' \/ Drawn(f)' \/ Halted'
      /\ IInv /\ Drawing(f) /\ <<DisplayTask>>_vars => Drawn(f)' \/ Halted'
  BY DEF Drawing, Drawn
<1>6. /\ Drawn(f) => DisplayReady
      /\ IInv /\ Drawn(f) /\ [Next]_vars => Drawn(f)' \/ Signalled(f)' \/ Halted'
      /\ IInv /\ Drawn(f) /\ <<DisplayTask>>_vars => Signalled(f)' \/ Halted'
  BY DEF Drawn, Signalled
<1>7. /\ Signalled(f) => HubReady
      /\ IInv /\ Signalled(f) /\ [Next]_vars => Signalled(f)' \/ Scanned(f)' \/ Halted'
      /\ IInv /\ Signalled(f) /\ <<Hub75Task>>_vars => Scanned(f)' \/ Halted'
  BY DEF Signalled, Scanned
<1> HIDE DEF IInv, TypeOK, Places, Images, FrameBuffers, Next, DisplayTask, Hub75Task,
        Erase, Draw, SignalFrame, WaitFrame, FirstFrame, TransferDone, TransferFailed,
        WaitForDoneFails, StartTransfer, Swap, Render, Halted, DisplayReady, HubReady, vars
<1>8. Spec /\ Scheduled => (Before(f) ~> Offered(f) \/ Halted)
  BY <1>1, InductiveInvariant, PTL DEF Spec, Scheduled
<1>9. Spec /\ Scheduled => (Offered(f) ~> Returned(f) \/ Halted)
  BY <1>2, InductiveInvariant, PTL DEF Spec, Scheduled
<1>10. Spec /\ Scheduled => (Returned(f) ~> Erasing(f) \/ Halted)
  BY <1>3, InductiveInvariant, PTL DEF Spec, Scheduled
<1>11. Spec /\ Scheduled => (Erasing(f) ~> Drawing(f) \/ Halted)
  BY <1>4, InductiveInvariant, PTL DEF Spec, Scheduled
<1>12. Spec /\ Scheduled => (Drawing(f) ~> Drawn(f) \/ Halted)
  BY <1>5, InductiveInvariant, PTL DEF Spec, Scheduled
<1>13. Spec /\ Scheduled => (Drawn(f) ~> Signalled(f) \/ Halted)
  BY <1>6, InductiveInvariant, PTL DEF Spec, Scheduled
<1>14. Spec /\ Scheduled => (Signalled(f) ~> Scanned(f) \/ Halted)
  BY <1>7, InductiveInvariant, PTL DEF Spec, Scheduled
<1> QED
  BY InductiveInvariant, <1>0, <1>8, <1>9, <1>10, <1>11, <1>12, <1>13, <1>14, PTL

(* Every frame that is drawn becomes the DMA source, whichever transfers end *)
(* with an error, if neither task is kept from running forever and no panic  *)
(* halts the core.                                                           *)
THEOREM EveryFrameIsScanned == Spec /\ Scheduled => EveryFrameScanned
<1> SUFFICES ASSUME NEW f \in Frame
             PROVE  Spec /\ Scheduled => (frame = f ~> image[scanFb] = f \/ Halted)
  BY DEF EveryFrameScanned
<1> QED
  BY FrameIsScanned, PTL DEF Scanned
================================================================================
