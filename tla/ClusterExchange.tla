---------------------------- MODULE ClusterExchange ----------------------------
(* How a change of the train registry reaches the display task.              *)
(*                                                                           *)
(* Two cluster buffers circulate between the tasks of core 0 (the feed, the  *)
(* NS API poller and the map-mode controller) and the display task of core 1 *)
(* through two one-slot Signals: FREE_CLUSTERS carries buffers the display   *)
(* is done with, FRESH_CLUSTERS the snapshots it has not taken yet.          *)
(*                                                                           *)
(* Core 0 runs one cooperative executor: a task gives the processor up only  *)
(* at an await that cannot proceed, and between taking a free buffer and     *)
(* publishing it there is none (the registry lock is never held across an    *)
(* await, so it is never contended).  Core 1 runs in parallel: its steps     *)
(* interleave with every step of core 0.                                     *)
(*                                                                           *)
(* The registry is abstracted to a version number, a snapshot to the version *)
(* and map mode it was built from, the orientation its coordinates are in,   *)
(* and whether it is whole: rebuild_clusters_into clears its target and then *)
(* fills it, and a reader in between would see a torn one.                   *)
EXTENDS Accelerometer

CONSTANTS
    clusters0, clusters1,  \* the two ClusterVec buffers
    None,                  \* an empty Signal, a task that holds no buffer
    Readings,              \* what the accelerometer may read
    MaxVersion             \* bound on the number of registry changes

Buffers   == {clusters0, clusters1}
MapMode   == {"Netherlands", "Randstad"}
Producers == {"feed", "ns_api", "map_mode"}

ASSUME BuffersAssumption == clusters0 # clusters1 /\ None \notin Buffers
ASSUME ReadingsAssumption == Readings \subseteq Reading
ASSUME MaxVersionAssumption == MaxVersion \in Nat
ASSUME NoneAssumption == None \notin [version : 0 .. MaxVersion, mode : MapMode]

VARIABLES
    free,       \* FREE_CLUSTERS
    fresh,      \* FRESH_CLUSTERS
    held,       \* held[t]: the free buffer task t of core 0 has claimed
    pc,         \* pc[t]: where task t of core 0 stands
    version,    \* the registry, as the number of changes made to it
    mode,       \* MODE
    changed,    \* CHANGED is signalled
    due,        \* the controller's AUTO_INTERVAL timer has expired
    tilt,       \* the accelerometer task's current direction
    clusters,   \* the display task's `clusters`
    old,        \* the buffer the display task is about to recycle
    direction,  \* the orientation the display task believes `clusters` is in
    dpc,        \* where the display task stands
    snapshot,   \* snapshot[b]: the contents of buffer b
    drawn       \* the version and mode the last rendered frame showed

core0 == <<held, pc, version, mode, changed, due>>
core1 == <<clusters, old, direction, dpc, drawn>>
vars  == <<free, fresh, tilt, snapshot, core0, core1>>

Snapshot == [version : 0 .. MaxVersion, mode : MapMode, turn : Direction, whole : BOOLEAN]
Content(s) == [version |-> s.version, mode |-> s.mode]
Blank    == [version |-> 0, mode |-> "Netherlands", turn |-> "XUp", whole |-> TRUE]

TypeOK ==
    /\ free \in Buffers \cup {None}
    /\ fresh \in Buffers \cup {None}
    /\ held \in [Producers -> Buffers \cup {None}]
    /\ pc \in [Producers -> {"idle", "fetching", "take", "lock", "clear", "fill", "publish"}]
    /\ version \in 0 .. MaxVersion
    /\ mode \in MapMode
    /\ changed \in BOOLEAN
    /\ due \in BOOLEAN
    /\ tilt \in Direction
    /\ clusters \in Buffers
    /\ old \in Buffers \cup {None}
    /\ direction \in Direction
    /\ dpc \in {"take", "recycle", "rotate", "draw"}
    /\ snapshot \in [Buffers -> Snapshot]
    /\ drawn \in [version : 0 .. MaxVersion, mode : MapMode]

(* display::start: one buffer goes to the producers, one to display_task.    *)
Init ==
    /\ free = clusters1
    /\ fresh = None
    /\ held = [t \in Producers |-> None]
    /\ pc = [t \in Producers |-> "idle"]
    /\ version = 0
    /\ mode = "Netherlands"
    /\ changed = FALSE
    /\ due = FALSE
    /\ tilt = "XUp"
    /\ clusters = clusters0
    /\ old = None
    /\ direction = "XUp"
    /\ dpc = "take"
    /\ snapshot = [b \in Buffers |-> Blank]
    /\ drawn = Content(Blank)

--------------------------------------------------------------------------------
(* Core 0.                                                                   *)

(* No task of core 0 is between two awaits: another may be polled.           *)
Core0Idle == \A t \in Producers : pc[t] \in {"idle", "fetching"}

Goto(t, label) == pc' = [pc EXCEPT ![t] = label]

(* Mutation: the slot keeps the buffer that was claimed.                     *)
PeekFree(t) ==
    /\ held' = [held EXCEPT ![t] = free]
    /\ UNCHANGED free

(* FREE_CLUSTERS.try_take(): the buffer if there is one, and an empty slot.  *)
TryTakeFree(t) ==
    /\ held' = [held EXCEPT ![t] = free]
    /\ free' = None

(* A registry change: `upsert`, `evict_older_than`, `set_type`, `set_service`. *)
Change ==
    /\ version < MaxVersion
    /\ version' = version + 1

(* Mutation: published between clearing and filling.                         *)
PublishUnfilled(t) ==
    /\ pc[t] = "clear"
    /\ snapshot' = [snapshot EXCEPT ![held[t]].whole = FALSE]
    /\ Goto(t, "publish")
    /\ UNCHANGED <<free, fresh, tilt, held, version, mode, changed, due, core1>>

(* rebuild_clusters_into begins with clearing its target ...                 *)
Clear(t) ==
    /\ pc[t] = "clear"
    /\ snapshot' = [snapshot EXCEPT ![held[t]].whole = FALSE]
    /\ Goto(t, "fill")
    /\ UNCHANGED <<free, fresh, tilt, held, version, mode, changed, due, core1>>

(* Mutation: the buffer is rebuilt only if it was built for another mode.    *)
FillForNewModeOnly(t) ==
    /\ pc[t] = "fill"
    /\ snapshot' = [snapshot EXCEPT ![held[t]] =
           [version |-> IF @.mode = mode THEN @.version ELSE version,
            mode |-> mode, turn |-> "XUp", whole |-> TRUE]]
    /\ Goto(t, "publish")
    /\ UNCHANGED <<free, fresh, tilt, held, version, mode, changed, due, core1>>

(* Mutation: the map mode is ignored.                                        *)
FillForDefaultMode(t) ==
    /\ pc[t] = "fill"
    /\ snapshot' = [snapshot EXCEPT ![held[t]] =
           [version |-> version, mode |-> "Netherlands", turn |-> "XUp", whole |-> TRUE]]
    /\ Goto(t, "publish")
    /\ UNCHANGED <<free, fresh, tilt, held, version, mode, changed, due, core1>>

(* ... and then fills it from the registry, under the current map mode, in   *)
(* the panel's default orientation.                                          *)
Fill(t) ==
    /\ pc[t] = "fill"
    /\ snapshot' = [snapshot EXCEPT ![held[t]] =
           [version |-> version, mode |-> mode, turn |-> "XUp", whole |-> TRUE]]
    /\ Goto(t, "publish")
    /\ UNCHANGED <<free, fresh, tilt, held, version, mode, changed, due, core1>>

(* publish_clusters: Signal::signal overwrites whatever the slot held.       *)
Publish(t) ==
    /\ pc[t] = "publish"
    /\ fresh' = held[t]
    /\ held' = [held EXCEPT ![t] = None]
    /\ Goto(t, "idle")
    /\ UNCHANGED <<free, tilt, snapshot, version, mode, changed, due, core1>>

(* feed::run, a message: the buffer is claimed before the lock is taken ...  *)
FeedReceive ==
    /\ Core0Idle
    /\ pc["feed"] = "idle"
    /\ TryTakeFree("feed")
    /\ Goto("feed", "lock")
    /\ UNCHANGED <<fresh, tilt, snapshot, version, mode, changed, due, core1>>

(* ... and the registry is updated with or without one.                      *)
FeedUpsert ==
    /\ pc["feed"] = "lock"
    /\ Change \/ UNCHANGED version
    /\ Goto("feed", IF held["feed"] = None THEN "idle" ELSE "clear")
    /\ UNCHANGED <<free, fresh, tilt, snapshot, held, mode, changed, due, core1>>

(* ns_api::run: a sweep starts with a request and waits for the network.     *)
NsRequest ==
    /\ Core0Idle
    /\ pc["ns_api"] = "idle"
    /\ Goto("ns_api", "fetching")
    /\ UNCHANGED <<free, fresh, tilt, snapshot, held, version, mode, changed, due, core1>>

(* A response: the types or the service it resolves are set under the lock.  *)
NsEnrich ==
    /\ Core0Idle
    /\ pc["ns_api"] = "fetching"
    /\ Change
    /\ UNCHANGED <<free, fresh, tilt, snapshot, held, pc, mode, changed, due, core1>>

(* publish_snapshot at the end of the sweep: nothing without a free buffer.  *)
NsPublish ==
    /\ Core0Idle
    /\ pc["ns_api"] = "fetching"
    /\ TryTakeFree("ns_api")
    /\ Goto("ns_api", IF free = None THEN "idle" ELSE "clear")
    /\ UNCHANGED <<fresh, tilt, snapshot, version, mode, changed, due, core1>>

OtherMode(m) == IF m = "Netherlands" THEN "Randstad" ELSE "Netherlands"

(* map_mode::run: select() polls the timer before the signal, so an expired  *)
(* deadline flips the mode even when a manual change is waiting.             *)
MapAuto ==
    /\ due
    /\ mode' = OtherMode(mode)
    /\ due' = FALSE
    /\ UNCHANGED changed

MapManual ==
    /\ ~due
    /\ changed
    /\ changed' = FALSE
    /\ UNCHANGED <<mode, due>>

MapWake ==
    /\ Core0Idle
    /\ pc["map_mode"] = "idle"
    /\ MapAuto \/ MapManual
    /\ Goto("map_mode", "take")
    /\ UNCHANGED <<free, fresh, tilt, snapshot, held, version, core1>>

(* republish: nothing without a free buffer, a later publish catches up.     *)
MapRepublish ==
    /\ pc["map_mode"] = "take"
    /\ TryTakeFree("map_mode")
    /\ Goto("map_mode", IF free = None THEN "idle" ELSE "clear")
    /\ UNCHANGED <<fresh, tilt, snapshot, version, mode, changed, due, core1>>

(* The input task's long press: map_mode::toggle.                            *)
Toggle ==
    /\ Core0Idle
    /\ mode' = OtherMode(mode)
    /\ changed' = TRUE
    /\ UNCHANGED <<free, fresh, tilt, snapshot, held, pc, version, due, core1>>

(* AUTO_INTERVAL passes while the controller waits; every loop of it starts  *)
(* a new timer.                                                              *)
Deadline ==
    /\ pc["map_mode"] = "idle"
    /\ due' = TRUE
    /\ UNCHANGED <<free, fresh, tilt, snapshot, held, pc, version, mode, changed, core1>>

(* The accelerometer task stores the direction it reads, or keeps the last   *)
(* one: it also does if the read fails.                                      *)
Tilt ==
    /\ Core0Idle
    /\ \E reading \in Readings : tilt' = Tilted(reading, tilt)
    /\ UNCHANGED <<free, fresh, snapshot, core0, core1>>

--------------------------------------------------------------------------------
(* Core 1: display_task.                                                     *)

(* FRESH_CLUSTERS.try_take(), and mem::replace when it yields a buffer.      *)
TakeFresh ==
    /\ dpc = "take"
    /\ fresh # None
    /\ old' = clusters
    /\ clusters' = fresh
    /\ fresh' = None
    /\ dpc' = "recycle"
    /\ UNCHANGED <<free, tilt, snapshot, core0, direction, drawn>>

NoFresh ==
    /\ dpc = "take"
    /\ fresh = None
    /\ dpc' = "rotate"
    /\ UNCHANGED <<free, fresh, tilt, snapshot, core0, clusters, old, direction, drawn>>

(* Mutation: the new snapshot is thought to be turned already.               *)
RecycleKeepingDirection ==
    /\ dpc = "recycle"
    /\ free' = old
    /\ old' = None
    /\ dpc' = "rotate"
    /\ UNCHANGED <<fresh, tilt, snapshot, core0, clusters, direction, drawn>>

(* Mutation: the new buffer is handed back instead of the old one.           *)
RecycleTheNewBuffer ==
    /\ dpc = "recycle"
    /\ free' = clusters
    /\ old' = None
    /\ direction' = "XUp"
    /\ dpc' = "rotate"
    /\ UNCHANGED <<fresh, tilt, snapshot, core0, clusters, drawn>>

(* Mutation: the old buffer is dropped.                                      *)
ForgetToRecycle ==
    /\ dpc = "recycle"
    /\ old' = None
    /\ direction' = "XUp"
    /\ dpc' = "rotate"
    /\ UNCHANGED <<free, fresh, tilt, snapshot, core0, clusters, drawn>>

(* FREE_CLUSTERS.signal(old) overwrites the slot; the new snapshot is in the *)
(* default orientation.                                                      *)
Recycle ==
    /\ dpc = "recycle"
    /\ free' = old
    /\ old' = None
    /\ direction' = "XUp"
    /\ dpc' = "rotate"
    /\ UNCHANGED <<fresh, tilt, snapshot, core0, clusters, drawn>>

Quarters(d) == CASE d = "XUp" -> 0 [] d = "YUp" -> 1 [] d = "XDown" -> 2 [] OTHER -> 3
Turned(turn, n) ==
    CHOOSE d \in Direction : Quarters(d) = (Quarters(turn) + n) % 4

(* rotate(): the quarter turns that take `from` to `to` are applied to every *)
(* coordinate the buffer holds, whatever orientation they are really in.     *)
Rotated(s, from, to) ==
    [s EXCEPT !.turn = Turned(@, (4 + Quarters(to) - Quarters(from)) % 4)]

Rotate ==
    /\ dpc = "rotate"
    /\ snapshot' = [snapshot EXCEPT ![clusters] = Rotated(@, direction, tilt)]
    /\ direction' = tilt
    /\ dpc' = "draw"
    /\ UNCHANGED <<free, fresh, tilt, core0, clusters, old, drawn>>

(* draw_trains reads the buffer; the frame is then swapped for another one   *)
(* (FrameExchange) and the loop starts again.                                *)
Draw ==
    /\ dpc = "draw"
    /\ drawn' = Content(snapshot[clusters])
    /\ dpc' = "take"
    /\ UNCHANGED <<free, fresh, tilt, snapshot, core0, clusters, old, direction>>

--------------------------------------------------------------------------------
DisplayTask == TakeFresh \/ NoFresh \/ Recycle \/ Rotate \/ Draw
Refill(t)   == Clear(t) \/ Fill(t) \/ Publish(t)

Core0Task ==
    \/ FeedReceive \/ FeedUpsert
    \/ NsRequest \/ NsEnrich \/ NsPublish
    \/ MapWake \/ MapRepublish
    \/ \E t \in Producers : Refill(t)
    \/ Toggle \/ Deadline \/ Tilt

Next == Core0Task \/ DisplayTask

Spec == Init /\ [][Next]_vars

--------------------------------------------------------------------------------
(* Properties.                                                               *)

Owners == Producers \cup {"FREE", "FRESH", "display", "recycling"}
Owned(o) ==
    CASE o = "FREE"      -> free
      [] o = "FRESH"     -> fresh
      [] o = "display"   -> clusters
      [] o = "recycling" -> old
      [] OTHER           -> held[o]

(* A buffer is never in two hands (the `&'static mut` references really are  *)
(* unique) and is never lost: a Signal that is overwritten would drop the    *)
(* only reference to a buffer and freeze the panel for good.                 *)
OneOwner ==
    \A b \in Buffers :
        \E o \in Owners : Owned(o) = b /\ \A p \in Owners : Owned(p) = b => p = o

(* What the display draws is a snapshot some task finished building: core 1  *)
(* never reads a buffer that is being cleared or filled on core 0.           *)
DrawsWhole == dpc \in {"rotate", "draw"} => snapshot[clusters].whole

(* What the display draws is turned the way the panel is held, although the  *)
(* buffers arrive unturned and are turned in place, step by step.            *)
DrawsUpright == dpc = "draw" => snapshot[clusters].turn = direction

(* The panel never goes back to an older state of the registry.              *)
NeverGoesBack == [][drawn'.version >= drawn.version]_vars

(* The exchange hands snapshots over one by one: none is overwritten before  *)
(* the display took it, and none changes while the display works on it.      *)
HandedOver == INSTANCE Handoff WITH
    Items   <- [version : 0 .. MaxVersion, mode : MapMode],
    Empty   <- None,
    Initial <- Content(Blank),
    box     <- IF fresh = None THEN None ELSE Content(snapshot[fresh]),
    reading <- Content(snapshot[clusters])
HandsOver == HandedOver!Spec

(* The timer flips the mode "if no manual change happens" (map_mode.rs): it  *)
(* never undoes one the controller has not seen yet.                         *)
ManualChangeKept == [][(due /\ ~due' /\ mode' # mode) => ~changed]_vars
================================================================================
