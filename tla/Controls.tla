------------------------------- MODULE Controls --------------------------------
(* The two buttons, what they change, and what of it survives a reset: the   *)
(* input task, the display configuration and map mode it changes, and the    *)
(* persist task that writes the configuration to flash.                      *)
(*                                                                           *)
(* A contact chatters for a while after it was closed or opened.  A future   *)
(* that waits for an edge or a level of a pin notes one that comes while it  *)
(* waits, and nothing before or after.  The input task runs some ticks after *)
(* the future it awaits is ready: core 0 is busy with other tasks.  The map  *)
(* mode is also flipped by its controller, which is ClusterExchange's part.  *)
(*                                                                           *)
(* All tasks here run on core 0: what lies between two awaits is one step.   *)
(* A flash write does not yield, and an interrupted one leaves the old item  *)
(* or the new one (sequential-storage).                                      *)
EXTENDS Integers

CONSTANTS
    Settling,   \* a contact chatters less than this many ticks
    Debounce,   \* DEBOUNCE
    LongPress,  \* LONG_PRESS
    Latency,    \* ticks the input task may be late
    Rest,       \* ticks between releasing a button and pressing it again
    None,       \* no save requested, nothing stored, no button handled
    MaxPresses  \* bound on the number of presses

VizMode   == {"PerCluster", "GlobalPulse"}
ColorMode == {"ByType", "ByService"}
MapMode   == {"Netherlands", "Randstad"}
Button    == {"up", "down"}
DisplayConfig == [viz : VizMode, col : ColorMode]

(* A stored configuration: one byte for each of its choices.                 *)
Item == (0 .. 1) \X (0 .. 1)

ASSUME TicksAssumption ==
    /\ Settling \in Nat \ {0} /\ Debounce \in Nat /\ LongPress \in Nat
    /\ Latency \in Nat /\ Rest \in Nat
(* What contacts and fingers do: a contact settles within the debounce and   *)
(* long-press times, and a button rests until a stray edge is dealt with.    *)
ASSUME TimingAssumption ==
    /\ Settling <= Debounce /\ Settling <= LongPress
    /\ Settling + Debounce + 2 * Latency <= Rest
ASSUME PressesAssumption == MaxPresses \in Nat
ASSUME NoneAssumption == None \notin DisplayConfig \cup Button \cup Item

VARIABLES
    finger,      \* finger[b]: button b is pressed
    level,       \* level[b]: what its pin reads; pressed is low
    settle,      \* settle[b]: ticks its contact goes on chattering
    ipc,         \* what the input task waits for
    edge,        \* the button it is handling
    timer,       \* ticks until its timer expires
    noted,       \* the buttons for which its futures noted an edge or a level
    late,        \* ticks since it could have gone on
    config,      \* CONFIG
    mode,        \* MODE
    saveSignal,  \* SAVE_SIGNAL
    flash,       \* the stored configuration
    unsaved,     \* history: the last write failed, or the defaults are used
    presses,     \* history: the number of presses
    held,        \* history: ticks the last press of a button lasted (so far)
    rest,        \* history: ticks since a button was released
    credit,      \* history: presses of a button that have not acted yet
    quiet        \* history: the last press had the buttons for itself

pins  == <<finger, level, settle>>
input == <<ipc, edge, timer, noted, late>>
store == <<saveSignal, flash, unsaved>>
history == <<presses, held, rest, credit, quiet>>
vars  == <<pins, input, config, mode, store, history>>

(* A press this long has passed the confirming sample ...                    *)
Confirmed == Debounce + 2 * Latency + 1
(* ... and one this long, whose edge may be one of its last chattering, the  *)
(* long-press threshold.                                                     *)
Longest   == Settling + Debounce + LongPress + 3 * Latency + 1

TypeOK ==
    /\ finger \in [Button -> BOOLEAN]
    /\ level \in [Button -> {"low", "high"}]
    /\ settle \in [Button -> Nat]
    /\ ipc \in {"boot", "listen", "debounce", "hold", "release"}
    /\ edge \in Button \cup {None}
    /\ timer \in Nat
    /\ noted \in SUBSET Button
    /\ late \in Nat
    /\ config \in DisplayConfig
    /\ mode \in MapMode
    /\ saveSignal \in DisplayConfig \cup {None}
    /\ flash \in Item \cup {None}
    /\ unsaved \in BOOLEAN
    /\ presses \in Nat
    /\ held \in [Button -> Nat]
    /\ rest \in [Button -> Nat]
    /\ credit \in [Button -> Int]
    /\ quiet \in [Button -> BOOLEAN]

Default == [viz |-> "PerCluster", col |-> "ByType"]

Init ==
    /\ finger = [b \in Button |-> FALSE]
    /\ level = [b \in Button |-> "high"]
    /\ settle = [b \in Button |-> 0]
    /\ ipc = "boot"
    /\ edge = None
    /\ timer = 0
    /\ noted = {}
    /\ late = 0
    /\ config = Default
    /\ mode = "Netherlands"
    /\ saveSignal = None
    /\ flash = None
    /\ unsaved = TRUE
    /\ presses = 0
    /\ held = [b \in Button |-> 0]
    /\ rest = [b \in Button |-> Rest]
    /\ credit = [b \in Button |-> 0]
    /\ quiet = [b \in Button |-> FALSE]

--------------------------------------------------------------------------------
(* Pins and time.                                                            *)

Other(b) == IF b = "up" THEN "down" ELSE "up"
Resting(b) == IF finger[b] THEN "low" ELSE "high"

(* What the futures of the task note when the pins go to newLevel.           *)
Note(newLevel) ==
    noted' = noted \cup
        {b \in Button :
            \/ ipc = "listen" /\ level[b] = "high" /\ newLevel[b] = "low"
            \/ ipc \in {"hold", "release"} /\ b = edge /\ newLevel[b] = "high"}

PinsGoTo(newLevel) == level' = newLevel /\ Note(newLevel)

Press(b) ==
    /\ ~finger[b]
    /\ rest[b] = Rest
    /\ presses < MaxPresses
    /\ presses' = presses + 1
    /\ finger' = [finger EXCEPT ![b] = TRUE]
    /\ settle' = [settle EXCEPT ![b] = Settling]
    /\ PinsGoTo([level EXCEPT ![b] = "low"])
    /\ held' = [held EXCEPT ![b] = 0]
    /\ credit' = [credit EXCEPT ![b] = 1]
    /\ quiet' = [quiet EXCEPT ![b] = ipc = "listen" /\ ~finger[Other(b)] /\ rest[Other(b)] = Rest,
                              ![Other(b)] = FALSE]
    /\ UNCHANGED <<ipc, edge, timer, late, config, mode, store, rest>>

Release(b) ==
    /\ finger[b]
    /\ finger' = [finger EXCEPT ![b] = FALSE]
    /\ settle' = [settle EXCEPT ![b] = Settling]
    /\ PinsGoTo([level EXCEPT ![b] = "high"])
    /\ rest' = [rest EXCEPT ![b] = 0]
    /\ UNCHANGED <<ipc, edge, timer, late, config, mode, store, presses, held, credit, quiet>>

Chatter(b) ==
    /\ settle[b] > 0
    /\ PinsGoTo([level EXCEPT ![b] = IF @ = "low" THEN "high" ELSE "low"])
    /\ UNCHANGED <<finger, settle, ipc, edge, timer, late, config, mode, store, history>>

(* The future the input task awaits is ready.                                *)
Ready ==
    \/ noted # {}
    \/ ipc \in {"debounce", "hold"} /\ timer = 0

Less(n) == IF n > 0 THEN n - 1 ELSE 0
UpTo(n, limit) == IF n < limit THEN n + 1 ELSE n

Tick ==
    /\ Ready => late < Latency
    /\ late' = IF Ready THEN late + 1 ELSE 0
    /\ timer' = Less(timer)
    /\ settle' = [b \in Button |-> Less(settle[b])]
    /\ PinsGoTo([b \in Button |-> IF settle[b] <= 1 THEN Resting(b) ELSE level[b]])
    /\ held' = [b \in Button |-> IF finger[b] THEN UpTo(held[b], Longest) ELSE held[b]]
    /\ rest' = [b \in Button |-> IF finger[b] THEN rest[b] ELSE UpTo(rest[b], Rest)]
    /\ UNCHANGED <<finger, ipc, edge, config, mode, store, presses, credit, quiet>>

--------------------------------------------------------------------------------
(* The input task.                                                           *)

Await(label, ticks, already) ==
    /\ ipc' = label
    /\ timer' = ticks
    /\ noted' = already
    /\ late' = 0

(* wait_for_high is ready at once if the pin is high.                        *)
IfHigh(b) == IF level[b] = "high" THEN {b} ELSE {}

Listen == Await("listen", 0, {}) /\ edge' = None

Used(b) == credit' = [credit EXCEPT ![b] = @ - 1]

(* Mutation: the pin is sampled again at once.                               *)
EdgeUnsettled ==
    /\ ipc = "listen"
    /\ noted # {}
    /\ edge' = IF "up" \in noted THEN "up" ELSE "down"
    /\ Await("debounce", 0, {})
    /\ UNCHANGED <<pins, config, mode, store, history>>

(* The select on both falling edges: UP is polled first.                     *)
Edge ==
    /\ ipc = "listen"
    /\ noted # {}
    /\ edge' = IF "up" \in noted THEN "up" ELSE "down"
    /\ Await("debounce", Debounce, {})
    /\ UNCHANGED <<pins, config, mode, store, history>>

(* Mutation: the confirming sample is not looked at.                         *)
DiscardAlways ==
    /\ ipc = "debounce"
    /\ timer = 0
    /\ Listen
    /\ UNCHANGED <<pins, config, mode, store, history>>

(* After the settling time: the pin is still low.                            *)
Discard ==
    /\ ipc = "debounce"
    /\ timer = 0
    /\ level[edge] = "high"
    /\ Listen
    /\ UNCHANGED <<pins, config, mode, store, history>>

ConfirmUp ==
    /\ ipc = "debounce"
    /\ timer = 0
    /\ edge = "up"
    /\ level["up"] = "low"
    /\ Await("hold", LongPress, IfHigh("up"))
    /\ UNCHANGED <<pins, edge, config, mode, store, history>>

NextViz(v) == IF v = "PerCluster" THEN "GlobalPulse" ELSE "PerCluster"
NextCol(c) == IF c = "ByType" THEN "ByService" ELSE "ByType"
NextMap(m) == IF m = "Netherlands" THEN "Randstad" ELSE "Netherlands"

(* Mutation: a save that is still waiting is kept.                           *)
RequestSaveIfIdle(cfg) ==
    /\ saveSignal' = IF saveSignal = None THEN cfg ELSE saveSignal
    /\ UNCHANGED <<flash, unsaved>>

(* request_save: a save that is still waiting is overwritten.                *)
RequestSave(cfg) == saveSignal' = cfg /\ UNCHANGED <<flash, unsaved>>

(* update_config, followed by a request to save the result.                  *)
UpdateConfig(cfg) == config' = cfg /\ RequestSave(cfg)

(* DOWN acts as soon as it is confirmed.                                     *)
ConfirmDown ==
    /\ ipc = "debounce"
    /\ timer = 0
    /\ edge = "down"
    /\ level["down"] = "low"
    /\ UpdateConfig([config EXCEPT !.col = NextCol(@)])
    /\ Used("down")
    /\ Await("release", 0, IfHigh("down"))
    /\ UNCHANGED <<pins, edge, mode, presses, held, rest, quiet>>

(* UP is released before the threshold; the release is polled before the     *)
(* timer.                                                                    *)
ShortPress ==
    /\ ipc = "hold"
    /\ noted # {}
    /\ UpdateConfig([config EXCEPT !.viz = NextViz(@)])
    /\ Used("up")
    /\ Listen
    /\ UNCHANGED <<pins, mode, presses, held, rest, quiet>>

(* Mutation: the timer is polled before the release.                         *)
TimerFirst ==
    /\ ipc = "hold"
    /\ timer = 0
    /\ mode' = NextMap(mode)
    /\ Used("up")
    /\ Await("release", 0, IfHigh("up"))
    /\ UNCHANGED <<pins, edge, config, store, presses, held, rest, quiet>>

(* map_mode::toggle, which is not saved.                                     *)
LongPressed ==
    /\ ipc = "hold"
    /\ noted = {}
    /\ timer = 0
    /\ mode' = NextMap(mode)
    /\ Used("up")
    /\ Await("release", 0, IfHigh("up"))
    /\ UNCHANGED <<pins, edge, config, store, presses, held, rest, quiet>>

Released ==
    /\ ipc = "release"
    /\ noted # {}
    /\ Listen
    /\ UNCHANGED <<pins, config, mode, store, history>>

Input ==
    \/ Edge \/ Discard \/ ConfirmUp \/ ConfirmDown
    \/ ShortPress \/ LongPressed \/ Released

--------------------------------------------------------------------------------
(* The persist task, and resets.                                             *)

VizToU8(v)   == IF v = "PerCluster" THEN 0 ELSE 1
VizFromU8(b) == IF b = 0 THEN "PerCluster" ELSE "GlobalPulse"
ColToU8(c)   == IF c = "ByType" THEN 0 ELSE 1
ColFromU8(b) == IF b = 0 THEN "ByType" ELSE "ByService"

Serialized(cfg)    == <<VizToU8(cfg.viz), ColToU8(cfg.col)>>
Deserialized(item) == [viz |-> VizFromU8(item[1]), col |-> ColFromU8(item[2])]

Stored(cfg) == flash # None /\ Deserialized(flash) = cfg

Save ==
    /\ saveSignal # None
    /\ saveSignal' = None
    /\ flash' = Serialized(saveSignal)
    /\ unsaved' = FALSE
    /\ UNCHANGED <<pins, input, config, mode, history>>

(* A failed write is logged and not tried again.                             *)
SaveFails ==
    /\ saveSignal # None
    /\ saveSignal' = None
    /\ unsaved' = TRUE
    /\ UNCHANGED <<pins, input, config, mode, flash, history>>

(* Power is lost and comes back, between two steps or in the middle of Save: *)
(* the configuration is loaded before any task is spawned, the map mode      *)
(* starts over.                                                              *)
Restart(cfg) ==
    /\ config' = cfg
    /\ unsaved' = ~Stored(cfg)
    /\ saveSignal' = None
    /\ mode' = "Netherlands"
    /\ Await("boot", 0, {})
    /\ edge' = None
    /\ quiet' = [b \in Button |-> FALSE]
    /\ UNCHANGED <<pins, flash, presses, held, rest, credit>>

Reset == Restart(IF flash # None THEN Deserialized(flash) ELSE Default)

(* The stored configuration cannot be read, or has a byte that stands for    *)
(* nothing: the defaults are kept.                                           *)
ResetUnreadable == Restart(Default)

(* The input task is spawned once the network is up.                         *)
Spawn ==
    /\ ipc = "boot"
    /\ Listen
    /\ UNCHANGED <<pins, config, mode, store, history>>

--------------------------------------------------------------------------------
Next ==
    \/ Tick
    \/ \E b \in Button : Press(b) \/ Release(b) \/ Chatter(b)
    \/ Input
    \/ Save \/ SaveFails
    \/ Reset \/ ResetUnreadable \/ Spawn

Spec == Init /\ [][Next]_vars

--------------------------------------------------------------------------------
(* Properties.                                                               *)

(* A press acts at most once, and nothing acts without a press: not the      *)
(* chatter of a contact that closes or opens, not a button that is kept      *)
(* down, not a button that was down during a reset.                          *)
ActsOnce == \A b \in Button : credit[b] >= 0

(* A press of one button is not ignored if it lasts long enough to be        *)
(* confirmed, the task was listening when it began and the other button is   *)
(* left alone: it has acted by the time a long press must have, or by the    *)
(* time the button may be pressed again.                                     *)
PressActs ==
    \A b \in Button :
        (/\ quiet[b] /\ held[b] >= Confirmed
         /\ held[b] = Longest \/ (~finger[b] /\ rest[b] = Rest))
            => credit[b] = 0

(* The map is toggled by a press of UP that lasted the debounce and          *)
(* long-press times, and the visualization by one that did not last longer   *)
(* than that and the latencies on the way.                                   *)
LengthDecides ==
    [][ipc' # "boot" =>
        /\ mode' # mode => held["up"] >= Debounce + LongPress
        /\ config'.viz # config.viz => held["up"] < Longest]_vars

(* The configuration in effect is the stored one, or is about to be stored,  *)
(* unless a write failed or nothing could be loaded: coalesced requests lose *)
(* no change and store no older one.                                         *)
SavedUnlessFailed ==
    /\ saveSignal # None => saveSignal = config
    /\ saveSignal = None => unsaved \/ Stored(config)
================================================================================
