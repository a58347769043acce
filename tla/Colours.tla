-------------------------------- MODULE Colours --------------------------------
(* The colour of one pixel from millisecond to millisecond: draw_per_cluster *)
(* lets the members of the pixel take turns, draw_global_pulse lets the      *)
(* values of the axis take turns on the whole map, and both fade from one    *)
(* turn to the next.  The trains of the pixel and the configuration stay.    *)
(*                                                                           *)
(* A mask is the set of the numbers of its bits.                             *)
EXTENDS Integers, Sequences, FiniteSets

CONSTANT Masks   \* the masks a pixel may have

Bits  == 0 .. 7
NoBit == 8       \* the mask 0

ASSUME MasksAssumption == Masks \subseteq SUBSET Bits

SlotMs == 1500
FadeMs == 500
DimDiv == 6

VARIABLES
    viz, col,   \* the configuration
    bits,       \* the mask of the pixel on the axis of col
    now,        \* now_ms modulo the length of the cycle
    rgb         \* the colour of the pixel in a frame drawn now

colourVars == <<viz, col, bits, now, rgb>>

VizMode   == {"PerCluster", "GlobalPulse"}
ColorMode == {"ByType", "ByService"}
Rgb       == [1 .. 3 -> 0 .. 255]
Black     == [i \in 1 .. 3 |-> 0]

--------------------------------------------------------------------------------
(* axis_for.                                                                 *)

(* Unknown, SNG, SLT, Flirt, ICM, DDZ, VIRM, ICNG                            *)
ColorForType ==
    << <<10, 10, 10>>, <<255, 80, 0>>, <<0, 200, 255>>, <<255, 0, 200>>,
       <<255, 220, 0>>, <<0, 255, 80>>, <<80, 80, 255>>, <<255, 255, 255>> >>

(* Unknown, Sprinter, Intercity, IntercityDirect                             *)
ColorForService ==
    << <<10, 10, 10>>, <<0, 200, 255>>, <<255, 220, 0>>, <<255, 40, 40>> >>

ColorFor(b) ==
    CASE col = "ByType" /\ b \in 0 .. 7    -> ColorForType[b + 1]
      [] col = "ByService" /\ b \in 0 .. 3 -> ColorForService[b + 1]
      [] OTHER                             -> Black

(* ACTIVE_TYPE_BITS and ACTIVE_SERVICE_BITS: all but Unknown.                *)
ActiveLen    == IF col = "ByType" THEN 7 ELSE 3
Active(slot) == slot + 1

--------------------------------------------------------------------------------
(* Mixing, in u16 and u8.                                                    *)

Lerp(x, y, t)  == ((((x * (255 - t)) + (y * t)) % 65536) \div 255) % 256
Blend(a, b, t) == [i \in 1 .. 3 |-> Lerp(a[i], b[i], t)]
Dim(c)         == [i \in 1 .. 3 |-> c[i] \div DimDiv]

(* Mutation: the fade counts from the beginning of the slot.                 *)
FadeFromStart(in_slot) == ((in_slot * 255) \div FadeMs) % 256

(* How far the fade at the end of a slot has come.                           *)
FadeT(in_slot) == (((in_slot + FadeMs - SlotMs) * 255) \div FadeMs) % 256

--------------------------------------------------------------------------------
(* Taking turns.                                                             *)

(* Mutation: one bit too many is cleared.                                    *)
NthSetBitAfter(mask, n) ==
    IF n + 1 < Cardinality(mask)
    THEN CHOOSE b \in mask : Cardinality({c \in mask : c < b}) = n + 1
    ELSE NoBit

NthSetBit(mask, n) ==
    IF n < Cardinality(mask)
    THEN CHOOSE b \in mask : Cardinality({c \in mask : c < b}) = n
    ELSE NoBit

PixelColor(active) ==
    IF bits = {} THEN Black
    ELSE IF active \in bits THEN ColorFor(active)
    ELSE Dim(ColorFor(NthSetBit(bits, 0)))

(* n and the plain colour of a slot, in cluster_color and draw_global_pulse  *)
Turns       == IF viz = "PerCluster" THEN Cardinality(bits) ELSE ActiveLen
TurnOf(slot) ==
    IF viz = "PerCluster" THEN ColorFor(NthSetBit(bits, slot)) ELSE PixelColor(Active(slot))

Drawn(phase) ==
    LET slot    == phase \div SlotMs
        in_slot == phase % SlotMs
    IN IF in_slot + FadeMs <= SlotMs THEN TurnOf(slot)
       ELSE Blend(TurnOf(slot), TurnOf((slot + 1) % Turns), FadeT(in_slot))

(* Without members a pixel is black, a single one does not take turns.       *)
Colour(phase) ==
    IF Turns = 0 THEN Black
    ELSE IF Turns = 1 THEN TurnOf(0)
    ELSE Drawn(phase)

--------------------------------------------------------------------------------
Cycle == IF Turns = 0 THEN 1 ELSE Turns * SlotMs

ColoursInit ==
    /\ viz \in VizMode /\ col \in ColorMode
    /\ bits \in (IF col = "ByType" THEN Masks ELSE {m \in Masks : m \subseteq 0 .. 3})
    /\ now = 0
    /\ rgb = Colour(0)

(* Mutation: the phase is not taken modulo the cycle.                        *)
PhaseOn(t) == t

Phase(t) == t % Cycle

Millisecond ==
    /\ now' = Phase(now + 1)
    /\ rgb' = Colour(now')
    /\ UNCHANGED <<viz, col, bits>>

(* Time passes, and display_task draws frame after frame.                    *)
ColoursSpec == ColoursInit /\ [][Millisecond]_colourVars /\ WF_colourVars(Millisecond)

--------------------------------------------------------------------------------
(* Properties.                                                               *)

ColoursTypeOK ==
    /\ viz \in VizMode /\ col \in ColorMode
    /\ bits \in SUBSET Bits
    /\ now \in 0 .. Cycle - 1
    /\ rgb \in Rgb

(* "Linearly cross-fading into the next": no channel of a pixel changes by   *)
(* more than 1 in a millisecond: where a fade begins, where it ends in the   *)
(* next slot, where the cycle starts again, nor by a product that overflows. *)
FadesSmoothly ==
    [][\A i \in 1 .. 3 : rgb'[i] - rgb[i] \in -1 .. 1]_colourVars

(* "Cycle through every set bit", "the whole map highlights one axis value   *)
(* at a time": every member of a pixel has its turn in its own full colour,  *)
(* under the pulse every member but Unknown.                                 *)
Member(b) == b \in bits /\ (viz = "PerCluster" \/ b \in {Active(s) : s \in 0 .. ActiveLen - 1})

EveryMemberShown == \A b \in Bits : Member(b) ~> (rgb = ColorFor(b))
================================================================================
