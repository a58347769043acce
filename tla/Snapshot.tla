------------------------------- MODULE Snapshot --------------------------------
(* From the registry to the pixels of the panel: rebuild_clusters_into fills *)
(* a buffer with one entry for every visible train, sorts it and collapses   *)
(* the runs of entries on one pixel in place, and rotate then turns what is  *)
(* in the buffer every time the board is tilted.                             *)
(*                                                                           *)
(* The registry does not change during a rebuild (the caller holds its lock),*)
(* and who owns the buffer when is ClusterExchange's part.  A bit mask is    *)
(* the set of its bits.                                                      *)
EXTENDS Geometry, FiniteSets, Sequences

CONSTANTS
    Trains,    \* train numbers; the buffer has room for as many entries
    Positions, \* where trains may be, in metres of the Dutch grid
    Types,     \* TrainType
    Services,  \* ServiceType
    Tilts      \* the directions the accelerometer may report

MapMode == {"Netherlands", "Randstad"}

ASSUME TrainsAssumption == IsFiniteSet(Trains)
ASSUME PositionsAssumption == Positions \subseteq [x : Int, y : Int]
ASSUME TiltsAssumption  == Tilts \subseteq Direction

VARIABLES
    reg,        \* the registry: the pixel, type and service of a train
    mode,       \* the map mode the snapshot is built for
    pc,         \* where rebuild_clusters_into stands
    out,        \* the buffer
    todo,       \* trains its walk of the map has not reached
    write,      \* entries that are final
    read,       \* entries that have been looked at
    direction   \* the orientation of the buffer

vars == <<reg, mode, pc, out, todo, write, read, direction>>

(* A sighting is stored as the canvas pixel its position lies on.            *)
Pixels == {RdToCanvas(position) : position \in Positions}

TrainState == [pixel : Pixels, typ : Types, service : Services]
PixelData  == [key : DisplayKey, types : SUBSET Types, services : SUBSET Services]

TypeOK ==
    /\ DOMAIN reg \subseteq Trains
    /\ reg \in [DOMAIN reg -> TrainState]
    /\ mode \in MapMode
    /\ pc \in {"stale", "walk", "collapse", "merge", "done"}
    /\ out \in Seq(PixelData)
    /\ todo \subseteq DOMAIN reg
    /\ write \in 0 .. Len(out)
    /\ read \in 0 .. Len(out)
    /\ direction \in Direction

Init ==
    /\ reg = [n \in {} |-> 0]
    /\ mode \in MapMode
    /\ pc = "stale"
    /\ out = <<>>
    /\ todo = {}
    /\ write = 0
    /\ read = 0
    /\ direction = "XUp"

--------------------------------------------------------------------------------
(* What makes a snapshot stale: a train is sighted, enriched, evicted, or    *)
(* the map mode changes.                                                     *)
Becomes(newReg, newMode) ==
    /\ pc \in {"stale", "done"}
    /\ reg' = newReg
    /\ mode' = newMode
    /\ pc' = "stale"
    /\ UNCHANGED <<out, todo, write, read, direction>>

Update(n) ==
    \E state \in TrainState :
        Becomes([m \in DOMAIN reg \cup {n} |-> IF m = n THEN state ELSE reg[m]], mode)

Evict(n) ==
    /\ n \in DOMAIN reg
    /\ Becomes([m \in DOMAIN reg \ {n} |-> reg[m]], mode)

ChangeMode == \E m \in MapMode \ {mode} : Becomes(reg, m)

--------------------------------------------------------------------------------
(* rebuild_clusters_into.                                                    *)

(* Mutation: the last snapshot is not cleared.                               *)
StartWithout ==
    /\ pc = "stale"
    /\ todo' = DOMAIN reg
    /\ pc' = "walk"
    /\ direction' = "XUp"
    /\ write' = 0
    /\ read' = 0
    /\ UNCHANGED <<reg, mode, out>>

Start ==
    /\ pc = "stale"
    /\ out' = <<>>
    /\ todo' = DOMAIN reg
    /\ pc' = "walk"
    /\ direction' = "XUp"
    /\ write' = 0
    /\ read' = 0
    /\ UNCHANGED <<reg, mode>>

Cluster(n) ==
    [key |-> AsU16(CanvasToDisplay(reg[n].pixel, mode)),
     types |-> {reg[n].typ}, services |-> {reg[n].service}]

(* Mutation: hidden trains are not passed over.                              *)
WalkAll(n) ==
    /\ pc = "walk"
    /\ n \in todo
    /\ todo' = todo \ {n}
    /\ out' = Append(out, Cluster(n))
    /\ UNCHANGED <<reg, mode, pc, write, read, direction>>

(* The map is walked in an order of its own; hidden trains are passed over.  *)
Walk(n) ==
    /\ pc = "walk"
    /\ n \in todo
    /\ todo' = todo \ {n}
    /\ out' = IF CanvasToDisplay(reg[n].pixel, mode) = Hidden
              THEN out ELSE Append(out, Cluster(n))
    /\ UNCHANGED <<reg, mode, pc, write, read, direction>>

(* What an unstable sort may leave.                                          *)
Sorted(s) == \A i, j \in DOMAIN s : i < j => s[i].key <= s[j].key
Arranged(s, p) == [i \in DOMAIN s |-> s[p[i]]]
Permuted(s) ==
    {Arranged(s, p) : p \in {q \in [DOMAIN s -> DOMAIN s] :
                                 \A i, j \in DOMAIN s : q[i] = q[j] => i = j}}

(* Mutation: the entries are left in the order of the walk.                  *)
SkipSort ==
    /\ pc = "walk"
    /\ todo = {}
    /\ pc' = "collapse"
    /\ UNCHANGED <<reg, mode, out, todo, write, read, direction>>

Sort ==
    /\ pc = "walk"
    /\ todo = {}
    /\ out' \in {s \in Permuted(out) : Sorted(s)}
    /\ pc' = "collapse"
    /\ UNCHANGED <<reg, mode, todo, write, read, direction>>

(* The next run of entries begins: its first entry moves down to out[write]. *)
TakeFirst ==
    /\ pc = "collapse"
    /\ read < Len(out)
    /\ out' = [out EXCEPT ![write + 1] = out[read + 1]]
    /\ read' = read + 1
    /\ pc' = "merge"
    /\ UNCHANGED <<reg, mode, todo, write, direction>>

SameRun == read < Len(out) /\ out[read + 1].key = out[write + 1].key

(* Mutation: only the types are merged.                                      *)
MergeTypes ==
    /\ pc = "merge"
    /\ SameRun
    /\ out' = [out EXCEPT ![write + 1].types = @ \cup out[read + 1].types]
    /\ read' = read + 1
    /\ UNCHANGED <<reg, mode, pc, todo, write, direction>>

Merge ==
    /\ pc = "merge"
    /\ SameRun
    /\ out' = [out EXCEPT ![write + 1].types    = @ \cup out[read + 1].types,
                          ![write + 1].services = @ \cup out[read + 1].services]
    /\ read' = read + 1
    /\ UNCHANGED <<reg, mode, pc, todo, write, direction>>

EndRun ==
    /\ pc = "merge"
    /\ ~SameRun
    /\ write' = write + 1
    /\ pc' = "collapse"
    /\ UNCHANGED <<reg, mode, out, todo, read, direction>>

Truncate ==
    /\ pc = "collapse"
    /\ read = Len(out)
    /\ out' = SubSeq(out, 1, write)
    /\ read' = write
    /\ pc' = "done"
    /\ UNCHANGED <<reg, mode, todo, write, direction>>

Rebuild ==
    \/ Start \/ (\E n \in Trains : Walk(n)) \/ Sort
    \/ TakeFirst \/ Merge \/ EndRun \/ Truncate

--------------------------------------------------------------------------------
(* The display task turns the buffer in place.                               *)
Rotate ==
    /\ pc = "done"
    /\ \E to \in Tilts :
        /\ out' = [i \in DOMAIN out |-> [out[i] EXCEPT !.key = Transform(@, direction, to)]]
        /\ direction' = to
    /\ UNCHANGED <<reg, mode, pc, todo, write, read>>

Next ==
    \/ \E n \in Trains : Update(n) \/ Evict(n)
    \/ ChangeMode
    \/ Rebuild
    \/ Rotate

Spec == Init /\ [][Next]_vars

--------------------------------------------------------------------------------
(* Properties.                                                               *)

(* "At most MAX_TRAINS entries in the map, so all fit" (registry.rs): what   *)
(* is pushed unchecked fits the buffer, which has room for as many entries   *)
(* as the map has.                                                           *)
PushesFit == Len(out) <= Cardinality(Trains)

(* Where the map shows a canvas pixel, told by areas: 3.5 canvas pixels to a *)
(* display pixel of the whole country, one to one in the window.             *)
ShowsAt(coord, d) ==
    /\ coord.x \in 0 .. 223 /\ coord.y \in 0 .. 223
    /\ IF mode = "Netherlands"
       THEN /\ 7 * d.x <= 2 * coord.x /\ 2 * coord.x < 7 * (d.x + 1)
            /\ 7 * d.y <= 2 * coord.y /\ 2 * coord.y < 7 * (d.y + 1)
       ELSE d.x = coord.x - 62 /\ d.y = coord.y - 73

(* A quarter turn of the panel, and how many of them a direction stands for. *)
QuarterTurn(d) == [x |-> 63 - d.y, y |-> d.x]
Held(d) ==
    CASE direction = "XUp"   -> d
      [] direction = "YUp"   -> QuarterTurn(d)
      [] direction = "XDown" -> QuarterTurn(QuarterTurn(d))
      [] OTHER               -> QuarterTurn(QuarterTurn(QuarterTurn(d)))

(* The trains the map shows at a display pixel.                              *)
At(d) == {n \in DOMAIN reg : ShowsAt(reg[n].pixel, d)}
Shown == {d \in DisplayPixel : At(d) # {}}

(* Once a rebuild is through, and however often the board is tilted after    *)
(* it, there is exactly one entry for each pixel that shows a train, at the  *)
(* place the panel is turned to, and it names all types and services there.  *)
DrawsRegistry ==
    pc = "done" =>
        /\ {[at |-> Point(out[i].key), types |-> out[i].types, services |-> out[i].services] :
                i \in DOMAIN out}
             = {[at |-> Held(d), types |-> {reg[n].typ : n \in At(d)},
                 services |-> {reg[n].service : n \in At(d)}] : d \in Shown}
        /\ Len(out) = Cardinality(Shown)
================================================================================
