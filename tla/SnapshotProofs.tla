---------------------------- MODULE SnapshotProofs -----------------------------
(* The arithmetic of map modes and rotation, for every pixel; and, for every *)
(* registry, that the buffer has room, that its keys stay on the panel, and  *)
(* that it comes to show what the registry holds.                            *)
EXTENDS Snapshot, FiniteSetTheorems, TLAPS

--------------------------------------------------------------------------------
(* Keys.                                                                     *)

(* as_u16 loses nothing: the point draw_trains takes apart is the pixel that *)
(* was put together.                                                         *)
THEOREM KeysRoundTrip ==
    ASSUME NEW d \in DisplayPixel
    PROVE  Point(AsU16(d)) = d
<1>1. d.x \in 0 .. 63 /\ d.y \in 0 .. 63 /\ d = [x |-> d.x, y |-> d.y]
  BY DEF DisplayPixel, DisplaySide
<1>2. (d.x * 256 + d.y) \div 256 = d.x
  BY <1>1
<1>3. (d.x * 256 + d.y) % 256 = d.y
  BY <1>1
<1> QED
  BY <1>1, <1>2, <1>3 DEF Point, AsU16

(* One subtraction turns the pixel half way round: no borrow passes from one *)
(* coordinate to the other.                                                  *)
LEMMA FlippedTurns ==
    ASSUME NEW d \in DisplayPixel
    PROVE  Flipped(AsU16(d)) = AsU16([x |-> 63 - d.x, y |-> 63 - d.y])
<1>1. d.x \in 0 .. 63 /\ d.y \in 0 .. 63
  BY DEF DisplayPixel, DisplaySide
<1> QED
  BY <1>1 DEF Flipped, AsU16

(* The transform of each entry of rotate's table is the turn of the panel it *)
(* stands for.                                                               *)
LEMMA CcwTurns ==
    ASSUME NEW d \in DisplayPixel
    PROVE  TurnedCcw(AsU16(d)) = AsU16(QuarterTurn(d))
<1> DEFINE f == (63 - d.x) * 256 + (63 - d.y)
<1>1. d.x \in 0 .. 63 /\ d.y \in 0 .. 63
  BY DEF DisplayPixel, DisplaySide
<1>2. Flipped(AsU16(d)) = f
  BY FlippedTurns DEF AsU16
<1>3. AsU16(d) \div 256 = d.x
  BY <1>1 DEF AsU16
<1>4. (f * 256) % 65536 = (63 - d.y) * 256
  BY <1>1
<1> QED
  BY <1>1, <1>2, <1>3, <1>4 DEF TurnedCcw, QuarterTurn, AsU16

LEMMA CwTurns ==
    ASSUME NEW d \in DisplayPixel
    PROVE  TurnedCw(AsU16(d)) = AsU16([x |-> d.y, y |-> 63 - d.x])
<1> DEFINE f == (63 - d.x) * 256 + (63 - d.y)
<1>1. d.x \in 0 .. 63 /\ d.y \in 0 .. 63
  BY DEF DisplayPixel, DisplaySide
<1>2. Flipped(AsU16(d)) = f
  BY FlippedTurns DEF AsU16
<1>3. f \div 256 = 63 - d.x
  BY <1>1
<1>4. ((d.x * 256 + d.y) * 256) % 65536 = d.y * 256
  BY <1>1
<1> QED
  BY <1>1, <1>2, <1>3, <1>4 DEF TurnedCw, AsU16

(* Four quarter turns are none, and a clockwise turn undoes a                *)
(* counter-clockwise one: however the board is moved about, the picture is   *)
(* as it would be had it been turned once.                                   *)
THEOREM TurnsUndo ==
    ASSUME NEW d \in DisplayPixel
    PROVE  /\ TurnedCw(TurnedCcw(AsU16(d))) = AsU16(d)
           /\ TurnedCcw(TurnedCcw(AsU16(d))) = Flipped(AsU16(d))
           /\ Flipped(Flipped(AsU16(d))) = AsU16(d)
<1>1. /\ d.x \in 0 .. 63 /\ d.y \in 0 .. 63
      /\ d = [x |-> d.x, y |-> d.y]
  BY DEF DisplayPixel, DisplaySide
<1>2. QuarterTurn(d) \in DisplayPixel
  BY <1>1 DEF QuarterTurn, DisplayPixel, DisplaySide
<1>3. [x |-> 63 - d.x, y |-> 63 - d.y] \in DisplayPixel
  BY <1>1 DEF DisplayPixel, DisplaySide
<1>4. TurnedCw(TurnedCcw(AsU16(d))) = AsU16(d)
  BY <1>1, <1>2, CcwTurns, CwTurns DEF QuarterTurn, AsU16
<1>5. TurnedCcw(TurnedCcw(AsU16(d))) = Flipped(AsU16(d))
  BY <1>1, <1>2, CcwTurns, FlippedTurns DEF QuarterTurn, AsU16
<1>6. Flipped(Flipped(AsU16(d))) = AsU16(d)
  BY <1>1, <1>3, FlippedTurns DEF AsU16
<1> QED
  BY <1>4, <1>5, <1>6

(* rotate never makes a key of no pixel.                                     *)
LEMMA TransformKeeps ==
    ASSUME NEW key \in DisplayKey, NEW from, NEW to
    PROVE  Transform(key, from, to) \in DisplayKey
<1>1. PICK d \in DisplayPixel : key = AsU16(d)
  BY DEF DisplayKey
<1>2. d.x \in 0 .. 63 /\ d.y \in 0 .. 63
  BY DEF DisplayPixel, DisplaySide
<1>3. /\ [x |-> 63 - d.x, y |-> 63 - d.y] \in DisplayPixel
      /\ [x |-> 63 - d.y, y |-> d.x] \in DisplayPixel
      /\ [x |-> d.y, y |-> 63 - d.x] \in DisplayPixel
  BY <1>2 DEF DisplayPixel, DisplaySide
<1>4. Flipped(key) \in DisplayKey
  BY <1>1, <1>3, FlippedTurns DEF DisplayKey
<1>5. TurnedCcw(key) \in DisplayKey
  BY <1>1, <1>3, CcwTurns DEF DisplayKey, QuarterTurn
<1>6. TurnedCw(key) \in DisplayKey
  BY <1>1, <1>3, CwTurns DEF DisplayKey
<1> QED
  BY <1>4, <1>5, <1>6 DEF Transform

(* A canvas pixel is shown on the panel or not at all.                       *)
LEMMA ShownOnPanel ==
    ASSUME NEW coord \in PixelCoord, NEW m \in MapMode
    PROVE  CanvasToDisplay(coord, m) \in DisplayPixel \cup {Hidden}
<1>1. coord.x \in 0 .. 255 /\ coord.y \in 0 .. 255
  BY DEF PixelCoord
<1>2. ScaledDown(coord) \in DisplayPixel \cup {Hidden}
  BY <1>1 DEF ScaledDown, OnDisplay, DisplayPixel, DisplaySide
<1>3. Windowed(coord) \in DisplayPixel \cup {Hidden}
  BY <1>1 DEF Windowed, OnDisplay, DisplayPixel, DisplaySide, RandstadOffset
<1> QED
  BY <1>2, <1>3 DEF CanvasToDisplay

(* Downsampling and windowing show every pixel of the canvas where the map   *)
(* has it, and nothing else, at every edge of the canvas and the window.     *)
THEOREM ShownInPlace ==
    ASSUME NEW coord \in PixelCoord, NEW d \in DisplayPixel, mode \in MapMode
    PROVE  ShowsAt(coord, d) <=> CanvasToDisplay(coord, mode) = d
<1>1. /\ coord.x \in 0 .. 255 /\ coord.y \in 0 .. 255
      /\ d.x \in 0 .. 63 /\ d.y \in 0 .. 63
      /\ d = [x |-> d.x, y |-> d.y]
      /\ d # Hidden
  BY DEF PixelCoord, DisplayPixel, DisplaySide, Hidden
<1>2. CASE ~IsOnCanvas(coord)
  <2>1. CanvasToDisplay(coord, mode) = Hidden
    BY <1>2 DEF CanvasToDisplay
  <2>2. ~(coord.x \in 0 .. 223 /\ coord.y \in 0 .. 223)
    BY <1>1, <1>2 DEF IsOnCanvas, CanvasSide
  <2> QED
    BY <1>1, <2>1, <2>2 DEF ShowsAt
<1>3. CASE IsOnCanvas(coord) /\ mode = "Netherlands"
  <2> DEFINE e == [x |-> (coord.x * 2) \div 7, y |-> (coord.y * 2) \div 7]
  <2>1. coord.x \in 0 .. 223 /\ coord.y \in 0 .. 223
    BY <1>1, <1>3 DEF IsOnCanvas, CanvasSide
  <2>2. /\ (coord.x * 2) \div 7 \in 0 .. 63
        /\ (coord.y * 2) \div 7 \in 0 .. 63
    BY <2>1
  <2>3. CanvasToDisplay(coord, mode) = e
    <3>1. CanvasToDisplay(coord, mode) = ScaledDown(coord)
      BY <1>3 DEF CanvasToDisplay
    <3>2. ScaledDown(coord) = e
      BY <2>2 DEF ScaledDown, OnDisplay, DisplaySide
    <3> QED
      BY <3>1, <3>2
  <2>4. /\ d.x = (coord.x * 2) \div 7 <=> 7 * d.x <= 2 * coord.x /\ 2 * coord.x < 7 * (d.x + 1)
        /\ d.y = (coord.y * 2) \div 7 <=> 7 * d.y <= 2 * coord.y /\ 2 * coord.y < 7 * (d.y + 1)
    <3>1. \A a \in 0 .. 223, b \in 0 .. 63 :
             b = (a * 2) \div 7 <=> 7 * b <= 2 * a /\ 2 * a < 7 * (b + 1)
      OBVIOUS
    <3> QED
      BY <1>1, <2>1, <3>1
  <2>5. e = d <=> d.x = (coord.x * 2) \div 7 /\ d.y = (coord.y * 2) \div 7
    BY <1>1
  <2> QED
    BY <1>3, <2>1, <2>3, <2>4, <2>5 DEF ShowsAt
<1>4. CASE IsOnCanvas(coord) /\ mode = "Randstad"
  <2>1. coord.x \in 0 .. 223 /\ coord.y \in 0 .. 223
    BY <1>1, <1>4 DEF IsOnCanvas, CanvasSide
  <2>2. CanvasToDisplay(coord, mode) = Windowed(coord)
    BY <1>4 DEF CanvasToDisplay
  <2>3. Windowed(coord) = d <=> d.x = coord.x - 62 /\ d.y = coord.y - 73
    BY <1>1, <2>1 DEF Windowed, OnDisplay, DisplaySide, RandstadOffset, Hidden
  <2> QED
    BY <1>4, <2>1, <2>2, <2>3 DEF ShowsAt
<1> QED
  BY <1>2, <1>3, <1>4 DEF MapMode

--------------------------------------------------------------------------------
(* The buffer.                                                               *)

(* What the walk has pushed and what it may still push fit together.         *)
Room ==
    /\ Len(out) <= Cardinality(Trains)
    /\ pc = "walk" => Len(out) + Cardinality(todo) <= Cardinality(Trains)

(* Where the two indices of the collapse stand to each other.                *)
Indices ==
    /\ pc # "walk" => todo = {}
    /\ pc \in {"walk", "collapse"} => write <= read
    /\ pc = "merge" => write < read

IInv == TypeOK /\ Room /\ Indices

LEMMA TodoFinite == TypeOK => IsFiniteSet(todo) /\ IsFiniteSet(DOMAIN reg)
BY TrainsAssumption, FS_Subset DEF TypeOK

(* sat_u8 keeps every distance within a byte, however far off a position is. *)
LEMMA SaturatesToByte ==
    ASSUME NEW metres \in Int
    PROVE  SatU8(metres) \in 0 .. 255
<1>1. CASE metres <= 0
  BY <1>1 DEF SatU8
<1>2. CASE metres >= 255 * MetresPerPixel
  BY <1>2 DEF SatU8, MetresPerPixel
<1>3. CASE 0 < metres /\ metres < 255 * MetresPerPixel
  BY <1>3 DEF SatU8, MetresPerPixel
<1> QED
  BY <1>1, <1>2, <1>3 DEF MetresPerPixel

LEMMA PixelsTyped == Pixels \subseteq PixelCoord
<1> SUFFICES ASSUME NEW position \in Positions PROVE RdToCanvas(position) \in PixelCoord
  BY DEF Pixels
<1>1. position.x \in Int /\ position.y \in Int
  BY PositionsAssumption
<1>2. North - position.y \in Int
  BY <1>1 DEF North
<1>3. SatU8(position.x) \in 0 .. 255 /\ SatU8(North - position.y) \in 0 .. 255
  BY <1>1, <1>2, SaturatesToByte
<1> QED
  BY <1>3 DEF RdToCanvas, PixelCoord

LEMMA ClusterTyped ==
    ASSUME TypeOK, NEW n \in DOMAIN reg, CanvasToDisplay(reg[n].pixel, mode) # Hidden
    PROVE  Cluster(n) \in PixelData
<1>1. reg[n] \in TrainState
  BY DEF TypeOK
<1>2. reg[n].pixel \in PixelCoord /\ reg[n].typ \in Types /\ reg[n].service \in Services
  BY <1>1, PixelsTyped DEF TrainState
<1>3. CanvasToDisplay(reg[n].pixel, mode) \in DisplayPixel
  BY <1>2, ShownOnPanel DEF TypeOK
<1> QED
  BY <1>2, <1>3 DEF Cluster, PixelData, DisplayKey

LEMMA PermutedTyped ==
    ASSUME NEW s \in Seq(PixelData), NEW t \in Permuted(s)
    PROVE  t \in Seq(PixelData) /\ Len(t) = Len(s)
<1>1. PICK p \in [DOMAIN s -> DOMAIN s] : t = [i \in DOMAIN s |-> s[p[i]]]
  BY DEF Permuted, Arranged
<1>2. DOMAIN s = 1 .. Len(s) /\ \A i \in 1 .. Len(s) : s[p[i]] \in PixelData
  BY <1>1
<1> QED
  BY <1>1, <1>2

LEMMA Initially == Init => IInv
<1> SUFFICES ASSUME Init PROVE IInv
  OBVIOUS
<1>1. TypeOK
  BY DEF Init, TypeOK, MapMode, Direction
<1>2. Room
  BY TrainsAssumption, FS_CardinalityType DEF Init, Room
<1>3. Indices
  BY DEF Init, Indices
<1> QED
  BY <1>1, <1>2, <1>3 DEF IInv

(* A change of the registry or the mode finds no rebuild under way.          *)
LEMMA BecomesKeeps ==
    ASSUME IInv, NEW newReg, NEW newMode \in MapMode, Becomes(newReg, newMode),
           DOMAIN newReg \subseteq Trains, newReg \in [DOMAIN newReg -> TrainState]
    PROVE  IInv'
<1>1. todo = {}
  BY DEF IInv, Indices, Becomes
<1>2. TypeOK'
  BY <1>1 DEF IInv, TypeOK, Becomes
<1>3. Room' /\ Indices'
  BY <1>1 DEF IInv, Room, Indices, Becomes
<1> QED
  BY <1>2, <1>3 DEF IInv

LEMMA WalkKeeps ==
    ASSUME IInv, NEW n \in Trains, Walk(n)
    PROVE  IInv'
<1> USE DEF Walk
<1>1. n \in DOMAIN reg
  BY DEF IInv, TypeOK
<1>2. /\ out' \in Seq(PixelData)
      /\ Len(out') \in {Len(out), Len(out) + 1}
  BY <1>1, ClusterTyped DEF IInv, TypeOK
<1>3. Cardinality(todo') = Cardinality(todo) - 1 /\ Cardinality(todo) \in Nat
  BY TodoFinite, FS_RemoveElement, FS_CardinalityType DEF IInv
<1>4. Cardinality(Trains) \in Nat /\ Cardinality(todo') \in Nat
  BY TrainsAssumption, TodoFinite, FS_RemoveElement, FS_CardinalityType DEF IInv
<1>5. TypeOK'
  BY <1>2 DEF IInv, TypeOK
<1>6. Room'
  BY <1>2, <1>3, <1>4 DEF IInv, TypeOK, Room
<1>7. Indices'
  BY DEF IInv, Indices
<1> QED
  BY <1>5, <1>6, <1>7 DEF IInv

LEMMA CollapseKeeps ==
    ASSUME IInv, TakeFirst \/ Merge \/ EndRun \/ Truncate
    PROVE  IInv'
<1>1. CASE TakeFirst
  <2>1. out[read + 1] \in PixelData /\ write + 1 \in 1 .. Len(out)
    BY <1>1 DEF IInv, TypeOK, Indices, TakeFirst
  <2>2. out' \in Seq(PixelData) /\ Len(out') = Len(out)
    BY <1>1, <2>1 DEF IInv, TypeOK, TakeFirst
  <2> QED
    BY <1>1, <2>2 DEF IInv, TypeOK, Room, Indices, TakeFirst
<1>2. CASE Merge
  <2> DEFINE e == [out[write + 1] EXCEPT !.types    = @ \cup out[read + 1].types,
                                         !.services = @ \cup out[read + 1].services]
  <2>1. /\ read + 1 \in 1 .. Len(out) /\ write + 1 \in 1 .. Len(out)
        /\ out[read + 1] \in PixelData /\ out[write + 1] \in PixelData
    BY <1>2 DEF IInv, TypeOK, Indices, Merge, SameRun
  <2>2. e \in PixelData
    BY <2>1 DEF PixelData
  <2>3. out' = [out EXCEPT ![write + 1] = e]
    BY <1>2, <2>1 DEF Merge, PixelData, IInv, TypeOK
  <2>4. out' \in Seq(PixelData) /\ Len(out') = Len(out)
    BY <2>1, <2>2, <2>3 DEF IInv, TypeOK
  <2>5. TypeOK'
    BY <1>2, <2>1, <2>4 DEF IInv, TypeOK, Merge
  <2>6. Room' /\ Indices'
    BY <1>2, <2>4 DEF IInv, TypeOK, Room, Indices, Merge
  <2> QED
    BY <2>5, <2>6 DEF IInv
<1>3. CASE EndRun
  BY <1>3 DEF IInv, TypeOK, Room, Indices, EndRun
<1>4. CASE Truncate
  <2>1. out' \in Seq(PixelData) /\ Len(out') = write
    BY <1>4 DEF IInv, TypeOK, Truncate
  <2>2. Cardinality(Trains) \in Nat
    BY TrainsAssumption, FS_CardinalityType
  <2>3. TypeOK'
    BY <1>4, <2>1 DEF IInv, TypeOK, Truncate
  <2>4. Room' /\ Indices'
    BY <1>4, <2>1, <2>2 DEF IInv, TypeOK, Room, Indices, Truncate
  <2> QED
    BY <2>3, <2>4 DEF IInv
<1> QED
  BY <1>1, <1>2, <1>3, <1>4

LEMMA StepKeeps == IInv /\ [Next]_vars => IInv'
<1> SUFFICES ASSUME IInv, [Next]_vars PROVE IInv'
  OBVIOUS
<1>1. ASSUME NEW n \in Trains, Update(n) PROVE IInv'
  <2>1. PICK state \in TrainState :
            Becomes([m \in DOMAIN reg \cup {n} |-> IF m = n THEN state ELSE reg[m]], mode)
    BY <1>1 DEF Update
  <2> QED
    BY <2>1, BecomesKeeps DEF IInv, TypeOK
<1>2. ASSUME NEW n \in Trains, Evict(n) PROVE IInv'
  BY <1>2, BecomesKeeps DEF Evict, IInv, TypeOK
<1>3. CASE ChangeMode
  BY <1>3, BecomesKeeps DEF ChangeMode, IInv, TypeOK
<1>4. CASE Start
  <2>1. Cardinality(DOMAIN reg) <= Cardinality(Trains) /\ Cardinality(DOMAIN reg) \in Nat
    BY TrainsAssumption, TodoFinite, FS_Subset, FS_CardinalityType DEF IInv, TypeOK
  <2>2. Cardinality(Trains) \in Nat
    BY TrainsAssumption, FS_CardinalityType
  <2> QED
    BY <1>4, <2>1, <2>2 DEF IInv, TypeOK, Room, Indices, Start, Direction
<1>5. ASSUME NEW n \in Trains, Walk(n) PROVE IInv'
  BY <1>5, WalkKeeps
<1>6. CASE Sort
  <2>1. out' \in Seq(PixelData) /\ Len(out') = Len(out)
    BY <1>6, PermutedTyped DEF Sort, IInv, TypeOK
  <2>2. write <= read
    BY <1>6 DEF Sort, IInv, Indices
  <2>3. TypeOK'
    BY <1>6, <2>1 DEF Sort, IInv, TypeOK
  <2>4. Room' /\ Indices'
    BY <1>6, <2>1, <2>2 DEF Sort, IInv, Room, Indices
  <2> QED
    BY <2>3, <2>4 DEF IInv
<1>7. CASE TakeFirst \/ Merge \/ EndRun \/ Truncate
  BY <1>7, CollapseKeeps
<1>8. CASE Rotate
  <2>1. PICK to \in Tilts :
            /\ out' = [i \in DOMAIN out |-> [out[i] EXCEPT !.key = Transform(@, direction, to)]]
            /\ direction' = to
    BY <1>8 DEF Rotate
  <2>2. \A i \in DOMAIN out :
            [out[i] EXCEPT !.key = Transform(@, direction, to)] \in PixelData
    <3> TAKE i \in DOMAIN out
    <3>1. out[i] \in PixelData
      BY DEF IInv, TypeOK
    <3>2. Transform(out[i].key, direction, to) \in DisplayKey
      BY <3>1, TransformKeeps DEF PixelData
    <3> QED
      BY <3>1, <3>2 DEF PixelData
  <2>3. out' \in Seq(PixelData) /\ Len(out') = Len(out)
    BY <2>1, <2>2 DEF IInv, TypeOK
  <2>4. TypeOK'
    BY <1>8, <2>1, <2>3, TiltsAssumption DEF Rotate, IInv, TypeOK
  <2>5. Room' /\ Indices'
    BY <1>8, <2>3 DEF Rotate, IInv, Room, Indices
  <2> QED
    BY <2>4, <2>5 DEF IInv
<1>9. CASE UNCHANGED vars
  BY <1>9 DEF vars, IInv, TypeOK, Room, Indices
<1> QED
  BY <1>1, <1>2, <1>3, <1>4, <1>5, <1>6, <1>7, <1>8, <1>9 DEF Next, Rebuild

LEMMA AlwaysIInv == Spec => []IInv
BY Initially, StepKeeps, PTL DEF Spec

(* Whatever the registry holds and however the board is tilted, every key in *)
(* the buffer is the key of a pixel of the panel.                            *)
THEOREM TypeCorrect == Spec => []TypeOK
<1>1. IInv => TypeOK
  BY DEF IInv
<1> QED
  BY <1>1, AlwaysIInv, PTL

(* No push of rebuild_clusters_into is one too many: push_unchecked is used  *)
(* as its comment promises, because the buffer is cleared first and each     *)
(* train is pushed at most once.                                             *)
THEOREM PushesAlwaysFit == Spec => []PushesFit
<1>1. IInv => PushesFit
  BY DEF IInv, Room, PushesFit
<1> QED
  BY <1>1, AlwaysIInv, PTL

(* What the walk has pushed and what it may still push fit into as many      *)
(* entries as the map has.                                                   *)
RoomOfMap ==
    /\ pc # "stale" => Len(out) <= Cardinality(DOMAIN reg)
    /\ pc = "walk" => Len(out) + Cardinality(todo) <= Cardinality(DOMAIN reg)

LEMMA StepKeepsRoomOfMap == IInv /\ RoomOfMap /\ [Next]_vars => RoomOfMap'
<1> SUFFICES ASSUME IInv, RoomOfMap, [Next]_vars PROVE RoomOfMap'
  OBVIOUS
<1> USE DEF RoomOfMap
<1>1. /\ TypeOK /\ Len(out) \in Nat /\ out \in Seq(PixelData) /\ write \in 0 .. Len(out) /\ todo \subseteq DOMAIN reg
      /\ Cardinality(todo) \in Nat /\ Cardinality(DOMAIN reg) \in Nat
  BY TodoFinite, FS_CardinalityType DEF IInv, TypeOK
<1>2. CASE (\E n \in Trains : Update(n) \/ Evict(n)) \/ ChangeMode
  BY <1>2 DEF Update, Evict, ChangeMode, Becomes
<1>3. CASE Start
  <2>1. Len(<<>>) = 0  OBVIOUS
  <2> QED  BY <1>1, <1>3, <2>1 DEF Start
<1>4. ASSUME NEW n \in Trains, Walk(n) PROVE RoomOfMap'
  <2>1. Len(out') \in {Len(out), Len(out) + 1}
    <3>1. n \in DOMAIN reg  BY <1>1, <1>4 DEF Walk
    <3> QED  BY <1>1, <1>4, <3>1, ClusterTyped DEF Walk
  <2>2. Cardinality(todo') = Cardinality(todo) - 1 /\ Cardinality(todo') \in Nat
    <3>1. IsFiniteSet(todo) /\ n \in todo /\ todo' = todo \ {n}  BY <1>1, <1>4, TodoFinite DEF Walk
    <3>2. IsFiniteSet(todo') /\ Cardinality(todo') = Cardinality(todo) - 1
        BY <3>1, FS_RemoveElement
    <3> QED  BY <3>2, FS_CardinalityType
  <2>3. pc = "walk" /\ reg' = reg  BY <1>4 DEF Walk
  <2>4. Len(out') + Cardinality(todo') <= Cardinality(DOMAIN reg')  BY <1>1, <2>1, <2>2, <2>3
  <2>5. Len(out') <= Cardinality(DOMAIN reg')  BY <1>1, <2>1, <2>2, <2>3, <2>4
  <2> QED  BY <2>4, <2>5
<1>5. CASE Sort
  <2>1. Len(out') = Len(out)  BY <1>1, <1>5, PermutedTyped DEF Sort
  <2>2. pc = "walk" /\ pc' = "collapse" /\ reg' = reg  BY <1>5 DEF Sort
  <2> QED  BY <1>1, <2>1, <2>2
<1>6. CASE TakeFirst \/ Merge \/ EndRun
  <2>1. Len(out') = Len(out)  BY <1>1, <1>6 DEF TakeFirst, Merge, EndRun
  <2> QED  BY <1>6, <2>1 DEF TakeFirst, Merge, EndRun
<1>7. CASE Truncate
  <2>1. Len(out') = write  BY <1>1, <1>7 DEF Truncate
  <2> QED  BY <1>1, <1>7, <2>1 DEF Truncate
<1>8. CASE Rotate
  <2>1. Len(out') = Len(out)  BY <1>1, <1>8 DEF Rotate
  <2> QED  BY <1>8, <2>1 DEF Rotate
<1>9. CASE UNCHANGED vars
  BY <1>9 DEF vars
<1> QED
  BY <1>2, <1>3, <1>4, <1>5, <1>6, <1>7, <1>8, <1>9 DEF Next, Rebuild

(* A snapshot never has more entries than the map: with the capacity of the  *)
(* map (AllFits of EnrichmentProofs) this is what rebuild_clusters_into's    *)
(* unchecked pushes rely on, however many train numbers there are.           *)
THEOREM NoMoreThanTheMap == Spec => [](pc # "stale" => Len(out) <= Cardinality(DOMAIN reg))
<1>1. Init => RoomOfMap
  BY DEF Init, RoomOfMap
<1>2. RoomOfMap => (pc # "stale" => Len(out) <= Cardinality(DOMAIN reg))
  BY DEF RoomOfMap
<1> QED
  BY <1>1, <1>2, StepKeepsRoomOfMap, AlwaysIInv, PTL DEF Spec

--------------------------------------------------------------------------------
(* What the buffer says.                                                     *)

(* Held, with the direction as a parameter.                                  *)
HeldAt(d, to) ==
    CASE to = "XUp"   -> d
      [] to = "YUp"   -> QuarterTurn(d)
      [] to = "XDown" -> QuarterTurn(QuarterTurn(d))
      [] OTHER        -> QuarterTurn(QuarterTurn(QuarterTurn(d)))

LEMMA QuarterTurns ==
    ASSUME NEW d \in DisplayPixel
    PROVE  /\ QuarterTurn(d) \in DisplayPixel
           /\ QuarterTurn(QuarterTurn(d)) = [x |-> 63 - d.x, y |-> 63 - d.y]
           /\ QuarterTurn(QuarterTurn(QuarterTurn(d))) = [x |-> d.y, y |-> 63 - d.x]
           /\ QuarterTurn(QuarterTurn(QuarterTurn(QuarterTurn(d)))) = d
<1>1. /\ d.x \in 0 .. 63 /\ d.y \in 0 .. 63
      /\ d = [x |-> d.x, y |-> d.y]
  BY DEF DisplayPixel, DisplaySide
<1>2. QuarterTurn(d) \in DisplayPixel
  BY <1>1 DEF QuarterTurn, DisplayPixel, DisplaySide
<1>3. QuarterTurn(QuarterTurn(d)) = [x |-> 63 - d.x, y |-> 63 - d.y]
  BY <1>1 DEF QuarterTurn
<1>4. 63 - (63 - d.x) = d.x /\ 63 - (63 - d.y) = d.y
  BY <1>1
<1>5. QuarterTurn(QuarterTurn(QuarterTurn(d))) = [x |-> d.y, y |-> 63 - d.x]
  BY <1>3, <1>4 DEF QuarterTurn
<1>6. QuarterTurn(QuarterTurn(QuarterTurn(QuarterTurn(d)))) = d
  BY <1>1, <1>4, <1>5 DEF QuarterTurn
<1> QED
  BY <1>2, <1>3, <1>5, <1>6

LEMMA HeldOnPanel ==
    ASSUME NEW d \in DisplayPixel, NEW to
    PROVE  HeldAt(d, to) \in DisplayPixel
BY QuarterTurns DEF HeldAt

(* No two pixels are turned to the same place.                               *)
LEMMA HeldApart ==
    ASSUME NEW d \in DisplayPixel, NEW e \in DisplayPixel, NEW to,
           HeldAt(d, to) = HeldAt(e, to)
    PROVE  d = e
<1>1. ASSUME NEW a \in DisplayPixel, NEW b \in DisplayPixel, QuarterTurn(a) = QuarterTurn(b)
      PROVE  a = b
  BY <1>1, QuarterTurns
<1>2. ASSUME NEW a \in DisplayPixel PROVE QuarterTurn(a) \in DisplayPixel
  BY QuarterTurns
<1>3. CASE to = "XUp"
  BY <1>3 DEF HeldAt
<1>4. CASE to = "YUp"
  BY <1>1, <1>4 DEF HeldAt
<1>5. CASE to = "XDown"
  BY <1>1, <1>2, <1>5 DEF HeldAt
<1>6. CASE to \notin {"XUp", "YUp", "XDown"}
  BY <1>1, <1>2, <1>6 DEF HeldAt
<1> QED
  BY <1>3, <1>4, <1>5, <1>6

(* From wherever to wherever the board is tilted, a key is rotated to where  *)
(* its pixel belongs.                                                        *)
LEMMA TransformTurns ==
    ASSUME NEW d \in DisplayPixel, NEW from \in Direction, NEW to \in Direction
    PROVE  Transform(AsU16(HeldAt(d, from)), from, to) = AsU16(HeldAt(d, to))
<1> DEFINE e == HeldAt(d, from)
<1>1. e \in DisplayPixel
  BY HeldOnPanel
<1>2. /\ Flipped(AsU16(e)) = AsU16(QuarterTurn(QuarterTurn(e)))
      /\ TurnedCcw(AsU16(e)) = AsU16(QuarterTurn(e))
      /\ TurnedCw(AsU16(e)) = AsU16(QuarterTurn(QuarterTurn(QuarterTurn(e))))
  BY <1>1, FlippedTurns, CcwTurns, CwTurns, QuarterTurns
<1>3. /\ QuarterTurn(d) \in DisplayPixel
      /\ QuarterTurn(QuarterTurn(QuarterTurn(QuarterTurn(d)))) = d
  BY QuarterTurns
<1>4. CASE from = "XUp"
  BY <1>2, <1>4 DEF HeldAt, Transform, Opposite, CounterClockwise, Direction
<1>5. CASE from = "YUp"
  BY <1>2, <1>3, <1>5 DEF HeldAt, Transform, Opposite, CounterClockwise, Direction
<1>6. CASE from = "XDown"
  BY <1>2, <1>3, <1>6 DEF HeldAt, Transform, Opposite, CounterClockwise, Direction
<1>7. CASE from = "YDown"
  BY <1>2, <1>3, <1>7 DEF HeldAt, Transform, Opposite, CounterClockwise, Direction
<1> QED
  BY <1>4, <1>5, <1>6, <1>7 DEF Direction

(* The trains the map shows, and those the walk has come to.                 *)
Visible == {n \in DOMAIN reg : CanvasToDisplay(reg[n].pixel, mode) # Hidden}
Merged == Visible \ todo

(* The key of the entry a train belongs to, as the buffer is turned.         *)
KeyOf(n) == AsU16(Held(CanvasToDisplay(reg[n].pixel, mode)))

(* The entries that count: those that are final, the one being merged into,  *)
(* and those that have not been looked at.                                   *)
Final == IF pc = "merge" THEN write + 1 ELSE write
Ahead == read + 1 .. Len(out)
Live  == (1 .. Final) \cup Ahead

(* The indices before and after the collapse, and the orientation during it. *)
Standing ==
    /\ pc = "walk" => write = 0 /\ read = 0
    /\ pc = "done" => write = Len(out) /\ read = Len(out)
    /\ pc \in {"walk", "collapse", "merge"} => direction = "XUp"

(* A live entry says nothing that is not so ...                              *)
Sound ==
    pc # "stale" =>
        \A i \in Live :
            /\ \E n \in Merged : KeyOf(n) = out[i].key
            /\ \A t \in out[i].types :
                  \E n \in Merged : KeyOf(n) = out[i].key /\ reg[n].typ = t
            /\ \A s \in out[i].services :
                  \E n \in Merged : KeyOf(n) = out[i].key /\ reg[n].service = s

(* ... and every train is in one.                                            *)
Complete ==
    pc # "stale" =>
        \A n \in Merged : \E i \in Live :
            /\ out[i].key = KeyOf(n)
            /\ reg[n].typ \in out[i].types
            /\ reg[n].service \in out[i].services

(* What lies ahead is sorted and not below what is final, of which no two    *)
(* entries have one key.                                                     *)
Ordered ==
    /\ pc \in {"collapse", "merge"} =>
          /\ \A i, j \in Ahead : i < j => out[i].key <= out[j].key
          /\ \A i \in 1 .. write, j \in Ahead : out[i].key < out[j].key
    /\ pc = "merge" =>
          /\ \A i \in 1 .. write : out[i].key < out[write + 1].key
          /\ \A j \in Ahead : out[write + 1].key <= out[j].key
    /\ pc \in {"collapse", "merge", "done"} =>
          \A i, j \in 1 .. write : out[i].key = out[j].key => i = j

DInv == IInv /\ Standing /\ Sound /\ Complete /\ Ordered

--------------------------------------------------------------------------------
LEMMA KeyTyped ==
    ASSUME TypeOK, NEW n \in Visible
    PROVE  /\ n \in DOMAIN reg /\ reg[n] \in TrainState
           /\ reg[n].pixel \in PixelCoord
           /\ CanvasToDisplay(reg[n].pixel, mode) \in DisplayPixel
           /\ KeyOf(n) = AsU16(HeldAt(CanvasToDisplay(reg[n].pixel, mode), direction))
<1>1. n \in DOMAIN reg /\ reg[n] \in TrainState
  BY DEF TypeOK, Visible
<1>2. reg[n].pixel \in PixelCoord
  BY <1>1, PixelsTyped DEF TrainState
<1>3. CanvasToDisplay(reg[n].pixel, mode) \in DisplayPixel
  BY <1>2, ShownOnPanel DEF TypeOK, Visible
<1>4. KeyOf(n) = AsU16(HeldAt(CanvasToDisplay(reg[n].pixel, mode), direction))
  BY DEF KeyOf, Held, HeldAt
<1> QED
  BY <1>1, <1>2, <1>3, <1>4

LEMMA KeysAreNumbers == DisplayKey \subseteq Nat
BY DEF DisplayKey, AsU16, DisplayPixel, DisplaySide

LEMMA LiveInBuffer ==
    ASSUME IInv
    PROVE  /\ Live \subseteq DOMAIN out /\ Ahead \subseteq DOMAIN out
           /\ DOMAIN out = 1 .. Len(out) /\ write \in Nat /\ read \in Nat /\ Len(out) \in Nat
           /\ \A i \in DOMAIN out : out[i] \in PixelData /\ out[i].key \in Nat
<1>1. DOMAIN out = 1 .. Len(out) /\ write \in Nat /\ read \in Nat /\ Len(out) \in Nat
  BY DEF IInv, TypeOK
<1>2. write <= Len(out) /\ read <= Len(out) /\ (pc = "merge" => write + 1 <= Len(out))
  BY <1>1 DEF IInv, TypeOK, Indices
<1>3. Live \subseteq DOMAIN out /\ Ahead \subseteq DOMAIN out
  BY <1>1, <1>2 DEF Live, Ahead, Final
<1>4. \A i \in DOMAIN out : out[i] \in PixelData
  BY DEF IInv, TypeOK
<1>5. \A i \in DOMAIN out : out[i].key \in Nat
  BY <1>4, KeysAreNumbers DEF PixelData
<1> QED
  BY <1>1, <1>3, <1>4, <1>5

(* Entries may change places, as long as the live ones stay the same set.    *)
LEMMA SameEntries ==
    ASSUME Sound, Complete, pc # "stale", UNCHANGED <<reg, mode, todo, direction>>,
           \A i \in Live' : \E j \in Live : out'[i] = out[j],
           \A j \in Live : \E i \in Live' : out'[i] = out[j]
    PROVE  Sound' /\ Complete'
<1>1. Merged' = Merged /\ \A n : KeyOf(n)' = KeyOf(n)
  BY DEF Merged, Visible, KeyOf, Held
<1>2. Sound'
  <2> SUFFICES ASSUME NEW i \in Live'
               PROVE  /\ \E n \in Merged : KeyOf(n) = out'[i].key
                      /\ \A t \in out'[i].types :
                            \E n \in Merged : KeyOf(n) = out'[i].key /\ reg[n].typ = t
                      /\ \A s \in out'[i].services :
                            \E n \in Merged : KeyOf(n) = out'[i].key /\ reg[n].service = s
    BY <1>1 DEF Sound
  <2>1. PICK j \in Live : out'[i] = out[j]
    OBVIOUS
  <2> QED
    BY <2>1 DEF Sound
<1>3. Complete'
  <2> SUFFICES ASSUME NEW n \in Merged
               PROVE  \E i \in Live' : /\ out'[i].key = KeyOf(n)
                                       /\ reg[n].typ \in out'[i].types
                                       /\ reg[n].service \in out'[i].services
    BY <1>1 DEF Complete
  <2>1. PICK j \in Live : /\ out[j].key = KeyOf(n)
                          /\ reg[n].typ \in out[j].types
                          /\ reg[n].service \in out[j].services
    BY DEF Complete
  <2>2. PICK i \in Live' : out'[i] = out[j]
    OBVIOUS
  <2> QED
    BY <2>1, <2>2
<1> QED
  BY <1>2, <1>3

LEMMA WalkTells ==
    ASSUME DInv, NEW n \in Trains, Walk(n)
    PROVE  Standing' /\ Sound' /\ Complete' /\ Ordered'
<1>1. /\ pc = "walk" /\ pc' = "walk" /\ n \in todo /\ todo' = todo \ {n}
      /\ UNCHANGED <<reg, mode, write, read, direction>>
      /\ n \in DOMAIN reg /\ direction = "XUp" /\ write = 0 /\ read = 0
  BY DEF Walk, DInv, IInv, TypeOK, Standing
<1>2. Standing' /\ Ordered'
  BY <1>1 DEF Standing, Ordered
<1>3. /\ Visible' = Visible
      /\ \A m : KeyOf(m)' = KeyOf(m)
  BY <1>1 DEF Visible, KeyOf, Held
<1>4. Live = 1 .. Len(out) /\ Live' = 1 .. Len(out') /\ Len(out) \in Nat
  BY <1>1 DEF Live, Final, Ahead, DInv, IInv, TypeOK
<1>5. CASE CanvasToDisplay(reg[n].pixel, mode) = Hidden
  <2>1. out' = out /\ Live' = Live
    BY <1>1, <1>4, <1>5 DEF Walk
  <2>2. Merged' = Merged
    BY <1>1, <1>3, <1>5 DEF Merged, Visible
  <2>3. Sound'
    BY <1>1, <1>3, <2>1, <2>2 DEF Sound, DInv
  <2>4. Complete'
    BY <1>1, <1>3, <2>1, <2>2 DEF Complete, DInv
  <2> QED
    BY <1>2, <2>3, <2>4
<1>6. CASE CanvasToDisplay(reg[n].pixel, mode) # Hidden
  <2> DEFINE last == Len(out) + 1
  <2>1. out' = Append(out, Cluster(n)) /\ out \in Seq(PixelData) /\ Cluster(n) \in PixelData
    BY <1>1, <1>6, ClusterTyped DEF Walk, DInv, IInv, TypeOK
  <2>2. /\ \A i \in Live : i \in Live' /\ out'[i] = out[i]
        /\ last \in Live' /\ out'[last] = Cluster(n)
        /\ Live' = Live \cup {last}
    BY <1>4, <2>1
  <2>3. Merged' = Merged \cup {n}
    BY <1>1, <1>3, <1>6 DEF Merged, Visible
  <2>4. /\ Cluster(n).key = KeyOf(n) /\ Cluster(n).types = {reg[n].typ}
        /\ Cluster(n).services = {reg[n].service}
    BY <1>1 DEF Cluster, KeyOf, Held
  <2> HIDE DEF last
  <2>5. Sound'
    <3> SUFFICES ASSUME NEW i \in Live'
                 PROVE  /\ \E m \in Merged' : KeyOf(m) = out'[i].key
                        /\ \A t \in out'[i].types :
                              \E m \in Merged' : KeyOf(m) = out'[i].key /\ reg[m].typ = t
                        /\ \A s \in out'[i].services :
                              \E m \in Merged' : KeyOf(m) = out'[i].key /\ reg[m].service = s
      BY <1>1, <1>3 DEF Sound
    <3>1. CASE i \in Live
      BY <1>1, <2>2, <2>3, <3>1 DEF Sound, DInv
    <3>2. CASE i = last
      BY <2>2, <2>3, <2>4, <3>2
    <3> QED
      BY <2>2, <3>1, <3>2
  <2>6. Complete'
    <3> SUFFICES ASSUME NEW m \in Merged'
                 PROVE  \E i \in Live' : /\ out'[i].key = KeyOf(m)
                                         /\ reg[m].typ \in out'[i].types
                                         /\ reg[m].service \in out'[i].services
      BY <1>1, <1>3 DEF Complete
    <3>1. CASE m \in Merged
      BY <1>1, <2>2, <3>1 DEF Complete, DInv
    <3>2. CASE m = n
      BY <2>2, <2>4, <3>2
    <3> QED
      BY <2>3, <3>1, <3>2
  <2> QED
    BY <1>2, <2>5, <2>6
<1> QED
  BY <1>5, <1>6

(* A permutation of a buffer leaves out none of its entries.                 *)
LEMMA PermutedSame ==
    ASSUME NEW s \in Seq(PixelData), NEW t \in Permuted(s)
    PROVE  /\ \A i \in DOMAIN s : \E j \in DOMAIN s : t[i] = s[j]
           /\ \A j \in DOMAIN s : \E i \in DOMAIN s : t[i] = s[j]
<1>1. PICK p \in [DOMAIN s -> DOMAIN s] :
         /\ t = [i \in DOMAIN s |-> s[p[i]]]
         /\ \A i, j \in DOMAIN s : p[i] = p[j] => i = j
  BY DEF Permuted, Arranged
<1>2. DOMAIN s = 1 .. Len(s) /\ Len(s) \in Nat
  OBVIOUS
<1>3. IsFiniteSet(DOMAIN s)
  BY <1>2, FS_Interval
<1>4. p \in Injection(DOMAIN s, DOMAIN s)
  BY <1>1, Zenon DEF Injection, IsInjective
<1>5. p \in Surjection(DOMAIN s, DOMAIN s)
  BY <1>3, <1>4, FS_Injection
<1>6. \A j \in DOMAIN s : \E i \in DOMAIN s : p[i] = j
  BY <1>5 DEF Surjection
<1> QED
  BY <1>1, <1>6

LEMMA SortTells ==
    ASSUME DInv, Sort
    PROVE  Standing' /\ Sound' /\ Complete' /\ Ordered'
<1>1. /\ pc = "walk" /\ pc' = "collapse"
      /\ UNCHANGED <<reg, mode, todo, write, read, direction>>
      /\ direction = "XUp" /\ write = 0 /\ read = 0
  BY DEF Sort, DInv, Standing
<1>2. out \in Seq(PixelData) /\ out' \in Permuted(out) /\ Sorted(out')
  BY DEF Sort, DInv, IInv, TypeOK
<1>3. out' \in Seq(PixelData) /\ Len(out') = Len(out)
  BY <1>2, PermutedTyped
<1>4. /\ Live = DOMAIN out /\ Live' = DOMAIN out /\ Ahead' = DOMAIN out'
      /\ DOMAIN out = 1 .. Len(out) /\ DOMAIN out' = 1 .. Len(out)
  BY <1>1, <1>2, <1>3 DEF Live, Final, Ahead
<1>5. Sound' /\ Complete'
  BY <1>1, <1>2, <1>4, PermutedSame, SameEntries DEF DInv
<1>6. Standing'
  BY <1>1 DEF Standing
<1>7. Ordered'
  BY <1>1, <1>2, <1>4 DEF Ordered, Sorted
<1> QED
  BY <1>5, <1>6, <1>7

LEMMA TakeFirstTells ==
    ASSUME DInv, IInv', TakeFirst
    PROVE  Standing' /\ Sound' /\ Complete' /\ Ordered'
<1>1. /\ pc = "collapse" /\ pc' = "merge" /\ read < Len(out) /\ read' = read + 1
      /\ out' = [out EXCEPT ![write + 1] = out[read + 1]]
      /\ UNCHANGED <<reg, mode, todo, write, direction>>
      /\ write <= read
  BY DEF TakeFirst, DInv, IInv, Indices
<1>2. /\ DOMAIN out = 1 .. Len(out) /\ write \in Nat /\ read \in Nat /\ Len(out) \in Nat
      /\ \A i \in DOMAIN out : out[i].key \in Nat
  BY LiveInBuffer DEF DInv
<1>3. Len(out') = Len(out) /\ DOMAIN out' = DOMAIN out
  BY <1>1 DEF DInv, IInv, TypeOK
<1>4. /\ Live = (1 .. write) \cup Ahead
      /\ Live' = (1 .. write) \cup {write + 1} \cup Ahead'
      /\ Ahead = {read + 1} \cup Ahead'
      /\ Ahead' \subseteq Ahead /\ read + 1 \in Ahead
  BY <1>1, <1>2, <1>3 DEF Live, Final, Ahead
<1>5. /\ out'[write + 1] = out[read + 1]
      /\ \A i \in 1 .. write : out'[i] = out[i]
      /\ \A i \in Ahead' : out'[i] = out[i] /\ i > read + 1 /\ i \in Nat
  BY <1>1, <1>2, <1>3 DEF Ahead
<1>6. Sound' /\ Complete'
  <2>1. \A i \in Live' : \E j \in Live : out'[i] = out[j]
    BY <1>4, <1>5
  <2>2. \A j \in Live : \E i \in Live' : out'[i] = out[j]
    BY <1>4, <1>5
  <2> QED
    BY <1>1, <2>1, <2>2, SameEntries DEF DInv
<1>7. Standing'
  BY <1>1 DEF Standing, DInv
<1>8. Ordered'
  <2>1. /\ \A i, j \in Ahead : i < j => out[i].key <= out[j].key
        /\ \A i \in 1 .. write, j \in Ahead : out[i].key < out[j].key
        /\ \A i, j \in 1 .. write : out[i].key = out[j].key => i = j
    BY <1>1 DEF Ordered, DInv
  <2>2. /\ \A i, j \in Ahead' : i < j => out'[i].key <= out'[j].key
        /\ \A i \in 1 .. write, j \in Ahead' : out'[i].key < out'[j].key
        /\ \A i, j \in 1 .. write : out'[i].key = out'[j].key => i = j
    BY <1>4, <1>5, <2>1
  <2>3. \A i \in 1 .. write : out'[i].key < out'[write + 1].key
    BY <1>4, <1>5, <2>1
  <2>4. \A j \in Ahead' : out'[write + 1].key <= out'[j].key
    BY <1>2, <1>4, <1>5, <2>1
  <2> QED
    BY <1>1, <2>2, <2>3, <2>4 DEF Ordered
<1> QED
  BY <1>6, <1>7, <1>8

LEMMA EndRunTells ==
    ASSUME DInv, EndRun
    PROVE  Standing' /\ Sound' /\ Complete' /\ Ordered'
<1>1. /\ pc = "merge" /\ pc' = "collapse" /\ ~SameRun /\ write' = write + 1
      /\ UNCHANGED <<reg, mode, out, todo, read, direction>>
      /\ write < read
  BY DEF EndRun, DInv, IInv, Indices
<1>2. /\ DOMAIN out = 1 .. Len(out) /\ write \in Nat /\ read \in Nat /\ Len(out) \in Nat
      /\ \A i \in DOMAIN out : out[i].key \in Nat
      /\ read <= Len(out)
  BY LiveInBuffer DEF DInv, IInv, TypeOK
<1>3. Live' = Live /\ Ahead' = Ahead
  BY <1>1 DEF Live, Final, Ahead
<1>4. Sound' /\ Complete'
  BY <1>1, <1>3, SameEntries DEF DInv
<1>5. Standing'
  BY <1>1 DEF Standing, DInv
<1>6. Ordered'
  <2>1. /\ \A i, j \in Ahead : i < j => out[i].key <= out[j].key
        /\ \A i \in 1 .. write, j \in Ahead : out[i].key < out[j].key
        /\ \A i \in 1 .. write : out[i].key < out[write + 1].key
        /\ \A j \in Ahead : out[write + 1].key <= out[j].key
        /\ \A i, j \in 1 .. write : out[i].key = out[j].key => i = j
    BY <1>1 DEF Ordered, DInv
  <2>2. \A j \in Ahead : out[write + 1].key < out[j].key
    <3> SUFFICES ASSUME NEW j \in Ahead PROVE out[write + 1].key < out[j].key
      OBVIOUS
    <3>1. /\ read + 1 \in Ahead /\ j \in DOMAIN out /\ read + 1 \in DOMAIN out
          /\ write + 1 \in DOMAIN out /\ read < Len(out)
      BY <1>1, <1>2 DEF Ahead
    <3>2. out[read + 1].key # out[write + 1].key
      BY <1>1, <3>1 DEF SameRun
    <3>3. out[write + 1].key < out[read + 1].key
      BY <1>2, <2>1, <3>1, <3>2
    <3>4. out[read + 1].key <= out[j].key
      BY <1>2, <2>1, <3>1 DEF Ahead
    <3> QED
      BY <1>2, <3>1, <3>3, <3>4
  <2>3. 1 .. write' = (1 .. write) \cup {write + 1}
    BY <1>1, <1>2
  <2>4. \A i, j \in 1 .. write' : out[i].key = out[j].key => i = j
    <3>1. \A i \in 1 .. write : out[i].key # out[write + 1].key
      BY <1>1, <1>2, <2>1
    <3> QED
      BY <2>1, <2>3, <3>1
  <2>5. \A i \in 1 .. write', j \in Ahead : out[i].key < out[j].key
    BY <2>1, <2>2, <2>3
  <2> QED
    BY <1>1, <1>3, <2>1, <2>4, <2>5 DEF Ordered
<1> QED
  BY <1>4, <1>5, <1>6

LEMMA TruncateTells ==
    ASSUME DInv, Truncate
    PROVE  Standing' /\ Sound' /\ Complete' /\ Ordered'
<1>1. /\ pc = "collapse" /\ pc' = "done" /\ read = Len(out) /\ read' = write
      /\ out' = SubSeq(out, 1, write)
      /\ UNCHANGED <<reg, mode, todo, write, direction>>
      /\ write <= read
  BY DEF Truncate, DInv, IInv, Indices
<1>2. DOMAIN out = 1 .. Len(out) /\ write \in Nat /\ read \in Nat /\ Len(out) \in Nat
  BY LiveInBuffer DEF DInv
<1>3. /\ Len(out') = write /\ \A i \in 1 .. write : out'[i] = out[i]
  BY <1>1, <1>2 DEF DInv, IInv, TypeOK
<1>4. Live = 1 .. write /\ Live' = 1 .. write
  BY <1>1, <1>2, <1>3 DEF Live, Final, Ahead
<1>5. Sound' /\ Complete'
  BY <1>1, <1>3, <1>4, SameEntries DEF DInv
<1>6. Standing'
  BY <1>1, <1>3 DEF Standing
<1>7. Ordered'
  BY <1>1, <1>3 DEF Ordered, DInv
<1> QED
  BY <1>5, <1>6, <1>7

LEMMA MergeTells ==
    ASSUME DInv, Merge
    PROVE  Standing' /\ Sound' /\ Complete' /\ Ordered'
<1> DEFINE w == write + 1
           r == read + 1
<1>1. /\ pc = "merge" /\ pc' = "merge" /\ read < Len(out) /\ read' = read + 1
      /\ out[r].key = out[w].key
      /\ UNCHANGED <<reg, mode, todo, write, direction>>
      /\ write < read
  BY DEF Merge, SameRun, DInv, IInv, Indices
<1>2. /\ DOMAIN out = 1 .. Len(out) /\ write \in Nat /\ read \in Nat /\ Len(out) \in Nat
      /\ \A i \in DOMAIN out : out[i] \in PixelData /\ out[i].key \in Nat
  BY LiveInBuffer DEF DInv
<1>3. w \in DOMAIN out /\ r \in DOMAIN out /\ w # r
  BY <1>1, <1>2
<1>4. /\ DOMAIN out' = DOMAIN out /\ Len(out') = Len(out)
      /\ \A i \in DOMAIN out : i # w => out'[i] = out[i]
  BY <1>1, <1>2, <1>3 DEF Merge, DInv, IInv, TypeOK
<1>5. /\ out'[w].key = out[w].key
      /\ out'[w].types = out[w].types \cup out[r].types
      /\ out'[w].services = out[w].services \cup out[r].services
  BY <1>2, <1>3 DEF Merge, PixelData
<1>6. /\ Live = (1 .. write) \cup {w} \cup Ahead
      /\ Live' = (1 .. write) \cup {w} \cup Ahead'
      /\ Ahead = {r} \cup Ahead'
  BY <1>1, <1>2, <1>4 DEF Live, Final, Ahead
<1>7. /\ \A i \in 1 .. write : i \in DOMAIN out /\ i # w
      /\ \A i \in Ahead' : i \in DOMAIN out /\ i # w /\ i # r
  BY <1>1, <1>2, <1>4 DEF Ahead
<1>8. Merged' = Merged /\ \A n : KeyOf(n)' = KeyOf(n)
  BY <1>1 DEF Merged, Visible, KeyOf, Held
<1> HIDE DEF w, r
<1>9. Sound'
  <2> SUFFICES ASSUME NEW i \in Live'
               PROVE  /\ \E n \in Merged : KeyOf(n) = out'[i].key
                      /\ \A t \in out'[i].types :
                            \E n \in Merged : KeyOf(n) = out'[i].key /\ reg[n].typ = t
                      /\ \A s \in out'[i].services :
                            \E n \in Merged : KeyOf(n) = out'[i].key /\ reg[n].service = s
    BY <1>1, <1>8 DEF Sound
  <2>1. CASE i # w
    <3>1. i \in Live /\ out'[i] = out[i]
      BY <1>4, <1>6, <1>7, <2>1
    <3> QED
      BY <1>1, <3>1 DEF Sound, DInv
  <2>2. CASE i = w
    <3>1. w \in Live /\ r \in Live
      BY <1>6
    <3>2. \E n \in Merged : KeyOf(n) = out'[w].key
      BY <1>1, <1>5, <3>1 DEF Sound, DInv
    <3>3. \A t \in out'[w].types : \E n \in Merged : KeyOf(n) = out'[w].key /\ reg[n].typ = t
      BY <1>1, <1>5, <3>1 DEF Sound, DInv
    <3>4. \A s \in out'[w].services :
             \E n \in Merged : KeyOf(n) = out'[w].key /\ reg[n].service = s
      BY <1>1, <1>5, <3>1 DEF Sound, DInv
    <3> QED
      BY <2>2, <3>2, <3>3, <3>4
  <2> QED
    BY <2>1, <2>2
<1>10. Complete'
  <2> SUFFICES ASSUME NEW n \in Merged
               PROVE  \E i \in Live' : /\ out'[i].key = KeyOf(n)
                                       /\ reg[n].typ \in out'[i].types
                                       /\ reg[n].service \in out'[i].services
    BY <1>1, <1>8 DEF Complete
  <2>1. PICK j \in Live : /\ out[j].key = KeyOf(n)
                          /\ reg[n].typ \in out[j].types
                          /\ reg[n].service \in out[j].services
    BY <1>1 DEF Complete, DInv
  <2>2. CASE j \in {w, r}
    BY <1>1, <1>5, <1>6, <2>1, <2>2
  <2>3. CASE j \notin {w, r}
    BY <1>4, <1>6, <1>7, <2>1, <2>3
  <2> QED
    BY <2>2, <2>3
<1>11. Standing'
  BY <1>1 DEF Standing, DInv
<1>12. Ordered'
  <2>1. /\ \A i, j \in Ahead : i < j => out[i].key <= out[j].key
        /\ \A i \in 1 .. write, j \in Ahead : out[i].key < out[j].key
        /\ \A i \in 1 .. write : out[i].key < out[w].key
        /\ \A j \in Ahead : out[w].key <= out[j].key
        /\ \A i, j \in 1 .. write : out[i].key = out[j].key => i = j
    BY <1>1 DEF Ordered, DInv, w
  <2>2. \A i \in DOMAIN out : out'[i].key = out[i].key
    BY <1>4, <1>5
  <2>3. \A i, j \in Ahead' : i < j => out'[i].key <= out'[j].key
    BY <1>6, <1>7, <2>1, <2>2
  <2>4. \A i \in 1 .. write, j \in Ahead' : out'[i].key < out'[j].key
    BY <1>6, <1>7, <2>1, <2>2
  <2>5. \A i \in 1 .. write : out'[i].key < out'[w].key
    BY <1>3, <1>7, <2>1, <2>2
  <2>6. \A j \in Ahead' : out'[w].key <= out'[j].key
    BY <1>3, <1>6, <1>7, <2>1, <2>2
  <2>7. \A i, j \in 1 .. write : out'[i].key = out'[j].key => i = j
    BY <1>7, <2>1, <2>2
  <2> QED
    BY <1>1, <2>3, <2>4, <2>5, <2>6, <2>7 DEF Ordered, w
<1> QED
  BY <1>9, <1>10, <1>11, <1>12

LEMMA RotateTells ==
    ASSUME DInv, Rotate
    PROVE  Standing' /\ Sound' /\ Complete' /\ Ordered'
<1>1. PICK to \in Tilts :
          /\ out' = [i \in DOMAIN out |-> [out[i] EXCEPT !.key = Transform(@, direction, to)]]
          /\ direction' = to
  BY DEF Rotate
<1>2. /\ pc = "done" /\ pc' = "done" /\ UNCHANGED <<reg, mode, todo, write, read>>
      /\ direction \in Direction /\ to \in Direction /\ TypeOK
      /\ write = Len(out) /\ read = Len(out)
  BY TiltsAssumption DEF Rotate, DInv, IInv, TypeOK, Standing
<1>3. /\ DOMAIN out = 1 .. Len(out) /\ Len(out) \in Nat
      /\ \A i \in DOMAIN out : out[i] \in PixelData
  BY LiveInBuffer DEF DInv
<1>4. /\ DOMAIN out' = DOMAIN out /\ Len(out') = Len(out)
      /\ \A i \in DOMAIN out : /\ out'[i].key = Transform(out[i].key, direction, to)
                               /\ out'[i].types = out[i].types
                               /\ out'[i].services = out[i].services
  BY <1>1, <1>3 DEF PixelData, DInv, IInv, TypeOK
<1>5. Live = DOMAIN out /\ Live' = DOMAIN out
  BY <1>2, <1>3, <1>4 DEF Live, Final, Ahead
<1>6. Merged' = Merged /\ Merged \subseteq Visible
  BY <1>2 DEF Merged, Visible
<1>7. ASSUME NEW n \in Merged PROVE KeyOf(n)' = Transform(KeyOf(n), direction, to)
  <2> DEFINE d == CanvasToDisplay(reg[n].pixel, mode)
  <2>1. d \in DisplayPixel /\ KeyOf(n) = AsU16(HeldAt(d, direction))
    BY <1>2, <1>6, KeyTyped
  <2>2. KeyOf(n)' = AsU16(HeldAt(d, to))
    BY <1>1, <1>2 DEF KeyOf, Held, HeldAt
  <2> QED
    BY <1>2, <2>1, <2>2, TransformTurns
<1>8. Sound'
  <2> SUFFICES ASSUME NEW i \in DOMAIN out
               PROVE  /\ \E n \in Merged : KeyOf(n)' = out'[i].key
                      /\ \A t \in out'[i].types :
                            \E n \in Merged : KeyOf(n)' = out'[i].key /\ reg[n].typ = t
                      /\ \A s \in out'[i].services :
                            \E n \in Merged : KeyOf(n)' = out'[i].key /\ reg[n].service = s
    BY <1>2, <1>5, <1>6 DEF Sound
  <2> QED
    BY <1>2, <1>4, <1>5, <1>7 DEF Sound, DInv
<1>9. Complete'
  <2> SUFFICES ASSUME NEW n \in Merged
               PROVE  \E i \in DOMAIN out : /\ out'[i].key = KeyOf(n)'
                                            /\ reg[n].typ \in out'[i].types
                                            /\ reg[n].service \in out'[i].services
    BY <1>2, <1>5, <1>6 DEF Complete
  <2> QED
    BY <1>2, <1>4, <1>5, <1>7 DEF Complete, DInv
<1>10. Standing'
  BY <1>2, <1>4 DEF Standing
<1>11. Ordered'
  <2> SUFFICES ASSUME NEW i \in DOMAIN out, NEW j \in DOMAIN out, out'[i].key = out'[j].key
               PROVE  i = j
    BY <1>2, <1>3 DEF Ordered
  <2>1. PICK m \in Merged : KeyOf(m) = out[i].key
    BY <1>2, <1>5 DEF Sound, DInv
  <2>2. PICK n \in Merged : KeyOf(n) = out[j].key
    BY <1>2, <1>5 DEF Sound, DInv
  <2> DEFINE d == CanvasToDisplay(reg[m].pixel, mode)
             e == CanvasToDisplay(reg[n].pixel, mode)
  <2>3. /\ d \in DisplayPixel /\ KeyOf(m) = AsU16(HeldAt(d, direction))
        /\ e \in DisplayPixel /\ KeyOf(n) = AsU16(HeldAt(e, direction))
    BY <1>2, <1>6, KeyTyped
  <2>4. AsU16(HeldAt(d, to)) = AsU16(HeldAt(e, to))
    <3>1. /\ Transform(KeyOf(m), direction, to) = AsU16(HeldAt(d, to))
          /\ Transform(KeyOf(n), direction, to) = AsU16(HeldAt(e, to))
      BY <1>2, <2>3, TransformTurns
    <3>2. Transform(out[i].key, direction, to) = Transform(out[j].key, direction, to)
      BY <1>4
    <3> QED
      BY <2>1, <2>2, <3>1, <3>2
  <2>5. HeldAt(d, to) = HeldAt(e, to)
    BY <2>3, <2>4, HeldOnPanel, KeysRoundTrip
  <2>6. d = e
    BY <2>3, <2>5, HeldApart
  <2>7. out[i].key = out[j].key
    BY <2>1, <2>2, <2>3, <2>6
  <2> QED
    BY <1>2, <1>3, <2>7 DEF Ordered, DInv
<1> QED
  BY <1>8, <1>9, <1>10, <1>11

LEMMA BufferTells == DInv /\ [Next]_vars => DInv'
<1> SUFFICES ASSUME DInv, [Next]_vars PROVE DInv'
  OBVIOUS
<1>1. IInv'
  BY StepKeeps DEF DInv
<1>2. ASSUME pc' = "stale" PROVE Standing' /\ Sound' /\ Complete' /\ Ordered'
  BY <1>2 DEF Standing, Sound, Complete, Ordered
<1>3. ASSUME NEW n \in Trains, Update(n) \/ Evict(n) PROVE pc' = "stale"
  BY <1>3 DEF Update, Evict, Becomes
<1>4. CASE ChangeMode
  BY <1>1, <1>2, <1>4 DEF ChangeMode, Becomes, DInv
<1>5. CASE Start
  <2>1. Live' = {} /\ Merged' = {}
    BY <1>5 DEF Start, Live, Final, Ahead, Merged, Visible
  <2>2. Standing' /\ Sound' /\ Complete' /\ Ordered'
    BY <1>5, <2>1 DEF Start, Standing, Sound, Complete, Ordered
  <2> QED
    BY <1>1, <2>2 DEF DInv
<1>6. CASE UNCHANGED vars
  <2>1. Live' = Live /\ Ahead' = Ahead /\ Merged' = Merged /\ \A n : KeyOf(n)' = KeyOf(n)
    BY <1>6 DEF vars, Live, Final, Ahead, Merged, Visible, KeyOf, Held
  <2>2. Sound' /\ Complete'
    BY <1>6, <2>1 DEF vars, Sound, Complete, DInv
  <2>3. Standing' /\ Ordered'
    BY <1>6, <2>1 DEF vars, Standing, Ordered, DInv
  <2> QED
    BY <1>1, <2>2, <2>3 DEF DInv
<1>7. CASE Rotate
  BY <1>1, <1>7, RotateTells DEF DInv
<1>8. CASE Sort \/ TakeFirst \/ Merge \/ EndRun \/ Truncate
  BY <1>1, <1>8, SortTells, TakeFirstTells, MergeTells, EndRunTells, TruncateTells DEF DInv
<1>9. ASSUME NEW n \in Trains, Walk(n) PROVE DInv'
  BY <1>1, <1>9, WalkTells DEF DInv
<1> QED
  BY <1>1, <1>2, <1>3, <1>4, <1>5, <1>6, <1>7, <1>8, <1>9 DEF DInv, Next, Rebuild

LEMMA TellsFirst == Init => DInv
BY Initially DEF Init, DInv, Standing, Sound, Complete, Ordered

(* A complete buffer that tells nothing but the truth is the picture of the  *)
(* registry.                                                                 *)
LEMMA ToldIsShown == DInv => DrawsRegistry
<1> SUFFICES ASSUME DInv, pc = "done" PROVE DrawsRegistry
  BY DEF DrawsRegistry
<1> DEFINE Place(n) == CanvasToDisplay(reg[n].pixel, mode)
           Seen(d)  == [at |-> Held(d), types |-> {reg[n].typ : n \in At(d)},
                        services |-> {reg[n].service : n \in At(d)}]
           Told(i)  == [at |-> Point(out[i].key), types |-> out[i].types,
                        services |-> out[i].services]
<1>1. /\ TypeOK /\ mode \in MapMode /\ direction \in Direction
      /\ DOMAIN out = 1 .. Len(out) /\ Len(out) \in Nat
      /\ Live = DOMAIN out
      /\ Merged = Visible
  <2>1. TypeOK /\ mode \in MapMode /\ direction \in Direction
    BY DEF DInv, IInv, TypeOK
  <2>2. DOMAIN out = 1 .. Len(out) /\ Len(out) \in Nat
    BY LiveInBuffer DEF DInv
  <2>3. Live = DOMAIN out
    BY <2>2 DEF DInv, Standing, Live, Final, Ahead
  <2>4. Merged = Visible
    BY DEF DInv, IInv, Indices, Merged
  <2> QED
    BY <2>1, <2>2, <2>3, <2>4
<1>2. ASSUME NEW d \in DisplayPixel PROVE At(d) = {n \in Visible : Place(n) = d}
  <2>1. d # Hidden
    BY DEF DisplayPixel, DisplaySide, Hidden
  <2>2. \A n \in DOMAIN reg : ShowsAt(reg[n].pixel, d) <=> Place(n) = d
    <3> TAKE n \in DOMAIN reg
    <3>1. reg[n].pixel \in PixelCoord
      BY <1>1, PixelsTyped DEF TypeOK, TrainState
    <3> QED
      BY <1>1, <3>1, ShownInPlace
  <2> QED
    BY <2>1, <2>2 DEF At, Visible
<1>3. ASSUME NEW n \in Visible
      PROVE  Place(n) \in Shown /\ Place(n) \in DisplayPixel /\ n \in At(Place(n))
  BY <1>1, <1>2, KeyTyped DEF Shown
<1>4. ASSUME NEW d \in Shown PROVE d \in DisplayPixel /\ \E n \in Visible : Place(n) = d
  BY <1>2 DEF Shown
<1>5. \A n \in Visible : KeyOf(n) = AsU16(Held(Place(n)))
  BY DEF KeyOf
<1>6. ASSUME NEW d \in DisplayPixel
      PROVE  Held(d) = HeldAt(d, direction) /\ Held(d) \in DisplayPixel
  BY <1>6, HeldOnPanel DEF Held, HeldAt
<1>7. ASSUME NEW d \in DisplayPixel, NEW e \in DisplayPixel,
             AsU16(Held(d)) = AsU16(Held(e))
      PROVE  d = e
  BY <1>6, <1>7, KeysRoundTrip, HeldApart
<1>8. \A i \in DOMAIN out : \E n \in Visible : KeyOf(n) = out[i].key
  BY <1>1 DEF DInv, Sound
<1>9. \A i, j \in DOMAIN out : out[i].key = out[j].key => i = j
  BY <1>1 DEF DInv, Ordered, Standing
<1> HIDE DEF Place
<1>10. ASSUME NEW i \in DOMAIN out, NEW d \in DisplayPixel, out[i].key = AsU16(Held(d))
       PROVE  /\ Point(out[i].key) = Held(d)
              /\ out[i].types = {reg[n].typ : n \in At(d)}
              /\ out[i].services = {reg[n].service : n \in At(d)}
  <2>1. Point(out[i].key) = Held(d)
    BY <1>6, <1>10, KeysRoundTrip
  <2>2. \A n \in Visible : KeyOf(n) = out[i].key <=> n \in At(d)
    BY <1>2, <1>3, <1>5, <1>7, <1>10
  <2>3. \A n \in At(d) : n \in Visible /\ reg[n].typ \in out[i].types
                                       /\ reg[n].service \in out[i].services
    <3> TAKE n \in At(d)
    <3>1. n \in Visible /\ KeyOf(n) = out[i].key
      BY <1>2, <2>2
    <3>2. PICK j \in DOMAIN out : /\ out[j].key = KeyOf(n) /\ reg[n].typ \in out[j].types
                                  /\ reg[n].service \in out[j].services
      BY <1>1, <3>1 DEF DInv, Complete
    <3> QED
      BY <1>9, <3>1, <3>2
  <2>4. \A t \in out[i].types : \E n \in At(d) : reg[n].typ = t
    BY <1>1, <2>2 DEF DInv, Sound
  <2>5. \A s \in out[i].services : \E n \in At(d) : reg[n].service = s
    BY <1>1, <2>2 DEF DInv, Sound
  <2> QED
    BY <2>1, <2>3, <2>4, <2>5
<1>11. \A i \in DOMAIN out : \E d \in Shown : out[i].key = AsU16(Held(d))
  BY <1>3, <1>5, <1>8
<1>12. \A d \in Shown : \E i \in DOMAIN out : out[i].key = AsU16(Held(d))
  <2> TAKE d \in Shown
  <2>1. PICK n \in Visible : Place(n) = d
    BY <1>4
  <2>2. PICK i \in DOMAIN out : out[i].key = KeyOf(n)
    BY <1>1 DEF DInv, Complete
  <2> QED
    BY <1>5, <2>1, <2>2
<1>13. {Told(i) : i \in DOMAIN out} = {Seen(d) : d \in Shown}
  <2>1. \A i \in DOMAIN out : \E d \in Shown : Told(i) = Seen(d)
    <3> TAKE i \in DOMAIN out
    <3>1. PICK d \in Shown : out[i].key = AsU16(Held(d))
      BY <1>11
    <3> QED
      BY <1>4, <1>10, <3>1
  <2>2. \A d \in Shown : \E i \in DOMAIN out : Told(i) = Seen(d)
    <3> TAKE d \in Shown
    <3>1. PICK i \in DOMAIN out : out[i].key = AsU16(Held(d))
      BY <1>12
    <3> QED
      BY <1>4, <1>10, <3>1
  <2> HIDE DEF Told, Seen
  <2> QED
    BY <2>1, <2>2
<1>14. Len(out) = Cardinality(Shown)
  <2> DEFINE f == [i \in 1 .. Len(out) |-> CHOOSE d \in Shown : out[i].key = AsU16(Held(d))]
  <2>1. \A i \in 1 .. Len(out) : f[i] \in Shown /\ out[i].key = AsU16(Held(f[i]))
    BY <1>1, <1>11
  <2>2. f \in [1 .. Len(out) -> Shown]
    BY <2>1
  <2> HIDE DEF f
  <2>3. \A i, j \in 1 .. Len(out) : f[i] = f[j] => i = j
    BY <1>1, <1>9, <2>1
  <2>4. \A d \in Shown : \E i \in 1 .. Len(out) : f[i] = d
    BY <1>1, <1>4, <1>7, <1>12, <2>1
  <2>5. f \in Bijection(1 .. Len(out), Shown)
    BY <2>2, <2>3, <2>4, Zenon DEF Bijection, Injection, Surjection, IsInjective
  <2>6. ExistsBijection(1 .. Len(out), Shown)
    BY <2>5 DEF ExistsBijection
  <2>7. IsFiniteSet(1 .. Len(out)) /\ Cardinality(1 .. Len(out)) = Len(out)
    <3>1. Len(out) \in Int /\ 1 \in Int /\ Len(out) >= 0
      BY <1>1
    <3>2. /\ IsFiniteSet(1 .. Len(out))
          /\ Cardinality(1 .. Len(out)) = IF 1 > Len(out) THEN 0 ELSE Len(out) - 1 + 1
      BY <3>1, FS_Interval
    <3> QED
      BY <3>1, <3>2
  <2> QED
    BY <2>6, <2>7, FS_Bijection
<1> QED
  BY <1>13, <1>14 DEF DrawsRegistry

(* The panel draws the registry: once a rebuild is through, there is exactly *)
(* one entry for each pixel with a train, at its place on the panel however  *)
(* the board has been tilted, with all the types and services there, for any *)
(* number of trains at any positions and in whatever order the unstable sort *)
(* leaves entries of one key.                                                *)
THEOREM PanelDrawsRegistry == Spec => []DrawsRegistry
BY TellsFirst, BufferTells, ToldIsShown, PTL DEF Spec
================================================================================
