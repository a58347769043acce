------------------------------- MODULE Geometry --------------------------------
(* Pixels: on which pixel of the canvas a position of the country lies,      *)
(* where a canvas pixel is shown on the display under a map mode, and what   *)
(* rotating the picture does to the 16-bit keys of display pixels.           *)
(*                                                                           *)
(* A position is given in metres of the Dutch grid (RD), in which            *)
(* wgs84_to_canvas gets it from a latitude and a longitude.  Shifts are      *)
(* written as products and quotients of 256, the OR of two words with no bit *)
(* in common as their sum.                                                   *)
EXTENDS Accelerometer

CanvasSide  == 224
DisplaySide == 64

(* The top left corner of the Randstad window, in canvas pixels.             *)
RandstadOffset == [x |-> 62, y |-> 73]

PixelCoord   == [x : 0 .. 255, y : 0 .. 255]
DisplayPixel == [x : 0 .. DisplaySide - 1, y : 0 .. DisplaySide - 1]
Hidden       == [x |-> -1, y |-> -1]    \* canvas_to_display's None

(* The size of a canvas pixel, and the north edge of the bounding box.       *)
MetresPerPixel == 1250
North          == 587500

(* sat_u8: metres from an edge in pixels, as a byte that saturates.          *)
SatU8(metres) ==
    IF metres <= 0 THEN 0
    ELSE IF metres >= 255 * MetresPerPixel THEN 255
    ELSE metres \div MetresPerPixel

(* North is at the top.                                                      *)
RdToCanvas(position) == [x |-> SatU8(position.x), y |-> SatU8(North - position.y)]

IsOnCanvas(coord) == coord.x < CanvasSide /\ coord.y < CanvasSide

OnDisplay(d) == IF d.x < DisplaySide /\ d.y < DisplaySide THEN d ELSE Hidden

(* Mutation: the divisor is the downsampling factor rounded up.              *)
ScaledDownByFour(coord) == OnDisplay([x |-> coord.x \div 4, y |-> coord.y \div 4])

(* canvas_to_display, Netherlands: the canvas downsampled by 3.5.            *)
ScaledDown(coord) ==
    OnDisplay([x |-> ((coord.x * 2) \div 7) % 256, y |-> ((coord.y * 2) \div 7) % 256])

(* canvas_to_display, Randstad: a window of the canvas.                      *)
Windowed(coord) ==
    IF coord.x >= RandstadOffset.x /\ coord.y >= RandstadOffset.y
    THEN OnDisplay([x |-> coord.x - RandstadOffset.x, y |-> coord.y - RandstadOffset.y])
    ELSE Hidden

CanvasToDisplay(coord, mode) ==
    IF ~IsOnCanvas(coord) THEN Hidden
    ELSE IF mode = "Netherlands" THEN ScaledDown(coord) ELSE Windowed(coord)

(* as_u16, and the point draw_trains plots a key at.                         *)
AsU16(d)   == d.x * 256 + d.y
Point(key) == [x |-> key \div 256, y |-> key % 256]

DisplayKey == {AsU16(d) : d \in DisplayPixel}

(* rotate's FLIPPED: one subtraction for both coordinates.                   *)
Flipped(key) == (63 * 256 + 63 - key) % 65536

(* The counter-clockwise and the clockwise quarter turn.                     *)
TurnedCcw(key) == (key \div 256) + ((Flipped(key) * 256) % 65536)
TurnedCw(key)  == ((key * 256) % 65536) + (Flipped(key) \div 256)

Opposite(from, to) ==
    {from, to} = {"XUp", "XDown"} \/ {from, to} = {"YUp", "YDown"}
CounterClockwise(from, to) ==
    <<from, to>> \in {<<"XUp", "YUp">>, <<"YUp", "XDown">>, <<"XDown", "YDown">>, <<"YDown", "XUp">>}

(* Mutation: a quarter turn the wrong way round.                             *)
TransformClockwise(key, from, to) ==
    CASE from = to                  -> key
      [] Opposite(from, to)         -> Flipped(key)
      [] OTHER                      -> TurnedCw(key)

(* rotate: what becomes of one key.                                          *)
Transform(key, from, to) ==
    CASE from = to                  -> key
      [] Opposite(from, to)         -> Flipped(key)
      [] CounterClockwise(from, to) -> TurnedCcw(key)
      [] OTHER                      -> TurnedCw(key)
================================================================================
