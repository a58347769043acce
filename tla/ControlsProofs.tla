----------------------------- MODULE ControlsProofs ----------------------------
(* What the controls guarantee: their types, that no change of the           *)
(* configuration gets lost on its way to flash, and, for all times that keep *)
(* the timing assumption, what a press does.                                 *)
EXTENDS Controls, TLAPS

USE TicksAssumption, TimingAssumption, PressesAssumption, NoneAssumption

LEMMA DefaultIsConfig == Default \in DisplayConfig
  BY DEF Default, DisplayConfig, VizMode, ColorMode

(* What is stored is an item, and loading it gives the configuration back.   *)
LEMMA ItemsRoundTrip ==
    /\ \A cfg \in DisplayConfig :
           Serialized(cfg) \in Item /\ Deserialized(Serialized(cfg)) = cfg
    /\ \A item \in Item : Deserialized(item) \in DisplayConfig
<1>1. ASSUME NEW cfg \in DisplayConfig
      PROVE  Serialized(cfg) \in Item /\ Deserialized(Serialized(cfg)) = cfg
  <2>1. /\ VizToU8(cfg.viz) \in 0 .. 1 /\ VizFromU8(VizToU8(cfg.viz)) = cfg.viz
        /\ ColToU8(cfg.col) \in 0 .. 1 /\ ColFromU8(ColToU8(cfg.col)) = cfg.col
    BY DEF DisplayConfig, VizMode, ColorMode, VizToU8, VizFromU8, ColToU8, ColFromU8
  <2>2. cfg = [viz |-> cfg.viz, col |-> cfg.col]
    BY DEF DisplayConfig
  <2> QED
    BY <2>1, <2>2 DEF Serialized, Deserialized, Item
<1>2. ASSUME NEW item \in Item PROVE Deserialized(item) \in DisplayConfig
  BY DEF Deserialized, DisplayConfig, VizMode, ColorMode, VizFromU8, ColFromU8
<1> QED
  BY <1>1, <1>2

(* What a wait leaves the input task with.                                   *)
LEMMA AwaitType ==
    ASSUME NEW label \in {"boot", "listen", "debounce", "hold", "release"},
           NEW ticks \in Nat, NEW already \in SUBSET Button,
           Await(label, ticks, already)
    PROVE  /\ ipc' \in {"boot", "listen", "debounce", "hold", "release"}
           /\ timer' \in Nat
           /\ noted' \in SUBSET Button
           /\ late' \in Nat
  BY DEF Await

LEMMA ListenType ==
    ASSUME Listen
    PROVE  /\ ipc' \in {"boot", "listen", "debounce", "hold", "release"}
           /\ timer' \in Nat
           /\ noted' \in SUBSET Button
           /\ late' \in Nat
           /\ edge' \in Button \cup {None}
  BY AwaitType DEF Listen

LEMMA IfHighType == \A b \in Button : IfHigh(b) \in SUBSET Button
  BY DEF IfHigh

(* What the pins going to other levels leaves.                               *)
LEMMA PinsType ==
    ASSUME TypeOK, NEW newLevel \in [Button -> {"low", "high"}], PinsGoTo(newLevel)
    PROVE  level' \in [Button -> {"low", "high"}] /\ noted' \in SUBSET Button
  BY DEF PinsGoTo, Note, TypeOK

(* The choices a configuration is made of.                                   *)
LEMMA NextTypes ==
    /\ \A cfg \in DisplayConfig : [cfg EXCEPT !.viz = NextViz(@)] \in DisplayConfig
    /\ \A cfg \in DisplayConfig : [cfg EXCEPT !.col = NextCol(@)] \in DisplayConfig
    /\ \A m \in MapMode : NextMap(m) \in MapMode
  BY DEF DisplayConfig, VizMode, ColorMode, MapMode, NextViz, NextCol, NextMap

LEMMA CreditType ==
    ASSUME TypeOK, NEW b \in Button, Used(b)
    PROVE  credit' \in [Button -> Int]
  BY DEF Used, TypeOK

LEMMA RestartType ==
    ASSUME TypeOK, NEW cfg \in DisplayConfig, Restart(cfg)
    PROVE  TypeOK'
<1>1. "boot" \in {"boot", "listen", "debounce", "hold", "release"} /\ {} \in SUBSET Button
  OBVIOUS
<1>2. /\ ipc' \in {"boot", "listen", "debounce", "hold", "release"}
      /\ timer' \in Nat /\ noted' \in SUBSET Button /\ late' \in Nat
  BY <1>1, AwaitType DEF Restart
<1>3. UNCHANGED <<finger, level, settle, presses, held, rest, credit, flash>>
  BY DEF Restart, pins
<1>4. config' \in DisplayConfig /\ mode' \in MapMode /\ saveSignal' \in DisplayConfig \cup {None}
  BY DEF Restart, MapMode
<1>5. unsaved' \in BOOLEAN /\ edge' \in Button \cup {None}
  BY DEF Restart
<1>6. quiet' \in [Button -> BOOLEAN]
  BY DEF Restart
<1> QED
  BY <1>2, <1>3, <1>4, <1>5, <1>6 DEF TypeOK

LEMMA TypeStep == TypeOK /\ [Next]_vars => TypeOK'
<1> SUFFICES ASSUME TypeOK, [Next]_vars PROVE TypeOK'
  OBVIOUS
<1>1. CASE Tick
  <2>1. \A n \in Nat : Less(n) \in Nat /\ \A limit \in Nat : UpTo(n, limit) \in Nat
    BY DEF Less, UpTo
  <2>2. Longest \in Nat
    BY DEF Longest
  <2>3. [b \in Button |-> IF settle[b] <= 1 THEN Resting(b) ELSE level[b]]
            \in [Button -> {"low", "high"}]
    BY DEF TypeOK, Resting
  <2>4. level' \in [Button -> {"low", "high"}] /\ noted' \in SUBSET Button
    BY <1>1, <2>3, PinsType DEF Tick
  <2>5. late' \in Nat /\ timer' \in Nat /\ settle' \in [Button -> Nat]
    BY <1>1, <2>1 DEF Tick, TypeOK
  <2>6. held' \in [Button -> Nat] /\ rest' \in [Button -> Nat]
    BY <1>1, <2>1, <2>2 DEF Tick, TypeOK
  <2> QED
    BY <1>1, <2>4, <2>5, <2>6 DEF Tick, TypeOK, store
<1>2. ASSUME NEW b \in Button, Press(b) PROVE TypeOK'
  <2>1. [level EXCEPT ![b] = "low"] \in [Button -> {"low", "high"}]
    BY DEF TypeOK
  <2>2. level' \in [Button -> {"low", "high"}] /\ noted' \in SUBSET Button
    BY <1>2, <2>1, PinsType DEF Press
  <2>3. finger' \in [Button -> BOOLEAN] /\ settle' \in [Button -> Nat]
    BY <1>2 DEF Press, TypeOK
  <2>4. held' \in [Button -> Nat] /\ credit' \in [Button -> Int] /\ presses' \in Nat
    BY <1>2 DEF Press, TypeOK
  <2>5. quiet' \in [Button -> BOOLEAN]
    BY <1>2 DEF Press, TypeOK
  <2> QED
    BY <1>2, <2>2, <2>3, <2>4, <2>5 DEF Press, TypeOK, store
<1>3. ASSUME NEW b \in Button, Release(b) PROVE TypeOK'
  <2>1. [level EXCEPT ![b] = "high"] \in [Button -> {"low", "high"}]
    BY DEF TypeOK
  <2>2. level' \in [Button -> {"low", "high"}] /\ noted' \in SUBSET Button
    BY <1>3, <2>1, PinsType DEF Release
  <2>3. /\ finger' \in [Button -> BOOLEAN] /\ settle' \in [Button -> Nat]
        /\ rest' \in [Button -> Nat]
    BY <1>3 DEF Release, TypeOK
  <2> QED
    BY <1>3, <2>2, <2>3 DEF Release, TypeOK, store
<1>4. ASSUME NEW b \in Button, Chatter(b) PROVE TypeOK'
  <2>1. [level EXCEPT ![b] = IF @ = "low" THEN "high" ELSE "low"]
            \in [Button -> {"low", "high"}]
    BY DEF TypeOK
  <2>2. level' \in [Button -> {"low", "high"}] /\ noted' \in SUBSET Button
    BY <1>4, <2>1, PinsType DEF Chatter
  <2> QED
    BY <1>4, <2>2 DEF Chatter, TypeOK, store, history
<1>5. CASE Edge
  <2>1. Await("debounce", Debounce, {}) /\ edge' \in Button
    BY <1>5 DEF Edge, Button
  <2>2. /\ ipc' \in {"boot", "listen", "debounce", "hold", "release"}
        /\ timer' \in Nat /\ noted' \in SUBSET Button /\ late' \in Nat
    BY <2>1, AwaitType
  <2> QED
    BY <1>5, <2>1, <2>2 DEF Edge, TypeOK, pins, store, history
<1>6. CASE Discard
  BY <1>6, ListenType DEF Discard, TypeOK, pins, store, history
<1>7. CASE ConfirmUp
  <2>1. Await("hold", LongPress, IfHigh("up")) /\ IfHigh("up") \in SUBSET Button
    BY <1>7, IfHighType DEF ConfirmUp, Button
  <2>2. /\ ipc' \in {"boot", "listen", "debounce", "hold", "release"}
        /\ timer' \in Nat /\ noted' \in SUBSET Button /\ late' \in Nat
    BY <2>1, AwaitType
  <2> QED
    BY <1>7, <2>2 DEF ConfirmUp, TypeOK, pins, store, history
<1>8. CASE ConfirmDown
  <2>1. Await("release", 0, IfHigh("down")) /\ IfHigh("down") \in SUBSET Button
    BY <1>8, IfHighType DEF ConfirmDown, Button
  <2>2. /\ ipc' \in {"boot", "listen", "debounce", "hold", "release"}
        /\ timer' \in Nat /\ noted' \in SUBSET Button /\ late' \in Nat
    BY <2>1, AwaitType
  <2>3. config' \in DisplayConfig /\ saveSignal' \in DisplayConfig
    BY <1>8, NextTypes DEF ConfirmDown, UpdateConfig, RequestSave, TypeOK
  <2>4. credit' \in [Button -> Int]
    BY <1>8, CreditType DEF ConfirmDown, Button
  <2> QED
    BY <1>8, <2>2, <2>3, <2>4
       DEF ConfirmDown, UpdateConfig, RequestSave, TypeOK, pins
<1>9. CASE ShortPress
  <2>1. config' \in DisplayConfig /\ saveSignal' \in DisplayConfig
    BY <1>9, NextTypes DEF ShortPress, UpdateConfig, RequestSave, TypeOK
  <2>2. credit' \in [Button -> Int]
    BY <1>9, CreditType DEF ShortPress, Button
  <2> QED
    BY <1>9, <2>1, <2>2, ListenType
       DEF ShortPress, UpdateConfig, RequestSave, TypeOK, pins
<1>10. CASE LongPressed
  <2>1. Await("release", 0, IfHigh("up")) /\ IfHigh("up") \in SUBSET Button
    BY <1>10, IfHighType DEF LongPressed, Button
  <2>2. /\ ipc' \in {"boot", "listen", "debounce", "hold", "release"}
        /\ timer' \in Nat /\ noted' \in SUBSET Button /\ late' \in Nat
    BY <2>1, AwaitType
  <2>3. mode' \in MapMode
    BY <1>10, NextTypes DEF LongPressed, TypeOK
  <2>4. credit' \in [Button -> Int]
    BY <1>10, CreditType DEF LongPressed, Button
  <2> QED
    BY <1>10, <2>2, <2>3, <2>4 DEF LongPressed, TypeOK, pins, store
<1>11. CASE Released
  BY <1>11, ListenType DEF Released, TypeOK, pins, store, history
<1>12. CASE Save
  <2>1. Serialized(saveSignal) \in Item
    BY <1>12, ItemsRoundTrip DEF Save, TypeOK
  <2> QED
    BY <1>12, <2>1 DEF Save, TypeOK, pins, input, history
<1>13. CASE SaveFails
  BY <1>13 DEF SaveFails, TypeOK, pins, input, history
<1>14. CASE Reset
  <2>1. (IF flash # None THEN Deserialized(flash) ELSE Default) \in DisplayConfig
    BY DefaultIsConfig, ItemsRoundTrip DEF TypeOK
  <2> QED
    BY <1>14, <2>1, RestartType DEF Reset
<1>15. CASE ResetUnreadable
  BY <1>15, DefaultIsConfig, RestartType DEF ResetUnreadable
<1>16. CASE Spawn
  BY <1>16, ListenType DEF Spawn, TypeOK, pins, store, history
<1>17. CASE UNCHANGED vars
  BY <1>17 DEF vars, pins, input, store, history, TypeOK
<1> QED
  BY <1>1, <1>2, <1>3, <1>4, <1>5, <1>6, <1>7, <1>8, <1>9, <1>10, <1>11,
     <1>12, <1>13, <1>14, <1>15, <1>16, <1>17 DEF Next, Input

LEMMA TypeInit == Init => TypeOK
<1> SUFFICES ASSUME Init PROVE TypeOK
  OBVIOUS
<1>1. config \in DisplayConfig /\ mode \in MapMode
  BY DefaultIsConfig DEF Init, MapMode
<1> QED
  BY <1>1 DEF Init, TypeOK

(* Every variable keeps its type: no timer or count goes below zero, and the *)
(* configuration in effect is always one there is.                           *)
THEOREM TypeCorrect == Spec => []TypeOK
<1>1. Init => TypeOK
  BY TypeInit
<1>2. TypeOK /\ [Next]_vars => TypeOK'
  BY TypeStep
<1> QED
  BY <1>1, <1>2, PTL DEF Spec

(* Only the two actions that change the configuration request a save, of     *)
(* exactly what they leave; every other step either keeps both, consumes the *)
(* request, or starts over from what is stored.                              *)
LEMMA SavedStep == TypeOK /\ SavedUnlessFailed /\ [Next]_vars => SavedUnlessFailed'
<1> SUFFICES ASSUME TypeOK, SavedUnlessFailed, [Next]_vars PROVE SavedUnlessFailed'
  OBVIOUS
<1>1. ASSUME UNCHANGED <<config, saveSignal, flash, unsaved>> PROVE SavedUnlessFailed'
  BY <1>1 DEF SavedUnlessFailed, Stored
<1>2. ASSUME NEW cfg \in DisplayConfig, UpdateConfig(cfg) PROVE SavedUnlessFailed'
  BY <1>2 DEF UpdateConfig, RequestSave, SavedUnlessFailed
<1>3. ASSUME NEW cfg \in DisplayConfig, Restart(cfg) PROVE SavedUnlessFailed'
  <2>1. flash' = flash /\ config' = cfg /\ saveSignal' = None /\ unsaved' = ~Stored(cfg)
    BY <1>3 DEF Restart
  <2>2. Stored(config)' <=> Stored(cfg)
    BY <2>1 DEF Stored
  <2> QED
    BY <2>1, <2>2 DEF SavedUnlessFailed
<1>4. CASE Tick \/ Edge \/ Discard \/ ConfirmUp \/ LongPressed \/ Released \/ Spawn
  BY <1>1, <1>4
     DEF Tick, Edge, Discard, ConfirmUp, LongPressed, Released, Spawn, store
<1>5. ASSUME NEW b \in Button, Press(b) \/ Release(b) \/ Chatter(b)
      PROVE SavedUnlessFailed'
  BY <1>1, <1>5 DEF Press, Release, Chatter, store
<1>6. CASE ConfirmDown
  BY <1>2, <1>6, NextTypes DEF ConfirmDown, TypeOK
<1>7. CASE ShortPress
  BY <1>2, <1>7, NextTypes DEF ShortPress, TypeOK
<1>8. CASE Save
  <2>1. /\ saveSignal = config /\ config' = config /\ saveSignal' = None
        /\ flash' = Serialized(config) /\ config \in DisplayConfig
    BY <1>8 DEF Save, SavedUnlessFailed, TypeOK
  <2>2. flash' # None /\ Deserialized(flash') = config
    BY <2>1, ItemsRoundTrip, NoneAssumption
  <2> QED
    BY <2>1, <2>2 DEF SavedUnlessFailed, Stored
<1>9. CASE SaveFails
  BY <1>9 DEF SaveFails, SavedUnlessFailed
<1>10. CASE Reset
  <2>1. (IF flash # None THEN Deserialized(flash) ELSE Default) \in DisplayConfig
    BY DefaultIsConfig, ItemsRoundTrip DEF TypeOK
  <2> QED
    BY <1>3, <1>10, <2>1 DEF Reset
<1>11. CASE ResetUnreadable
  BY <1>3, <1>11, DefaultIsConfig DEF ResetUnreadable
<1>12. CASE UNCHANGED vars
  BY <1>1, <1>12 DEF vars, store
<1> QED
  BY <1>4, <1>5, <1>6, <1>7, <1>8, <1>9, <1>10, <1>11, <1>12 DEF Next, Input

(* No change of the configuration is lost or overtaken by an older one on    *)
(* its way to flash, whenever requests coalesce, writes fail and power goes. *)
THEOREM ChangesAreSaved == Spec => []SavedUnlessFailed
<1>1. Init => SavedUnlessFailed
  BY DEF Init, SavedUnlessFailed
<1>2. TypeOK /\ SavedUnlessFailed /\ [Next]_vars => SavedUnlessFailed'
  BY SavedStep
<1> QED
  BY <1>1, <1>2, TypeCorrect, PTL DEF Spec

--------------------------------------------------------------------------------
(* What a press does.                                                        *)

(* The input task: what its future may have noted, and how late it may be.   *)
Timely ==
    /\ late <= Latency
    /\ ~Ready => late = 0
    /\ ipc = "debounce" => noted = {} /\ timer <= Debounce
    /\ ipc = "hold" => edge = "up" /\ timer <= LongPress
    /\ ipc \in {"debounce", "hold", "release"} => edge \in Button
    /\ ipc \in {"hold", "release"} => noted \subseteq {edge}

(* A contact chatters only for a while after its press or release, and the   *)
(* press has not acted before it is over.                                    *)
Contact(b) ==
    /\ settle[b] <= Settling
    /\ settle[b] = 0 => level[b] = Resting(b)
    /\ rest[b] <= Rest
    /\ IF finger[b] THEN settle[b] > 0 => held[b] + settle[b] <= Settling /\ credit[b] = 1
                    ELSE settle[b] > 0 => rest[b] + settle[b] <= Settling

(* A noted edge is that of a press just begun or just over.                  *)
EdgeNoted(b) ==
    ipc = "listen" /\ b \in noted =>
        IF finger[b] THEN credit[b] = 1 /\ held[b] <= Settling + late
                     ELSE rest[b] < Settling + late

(* While the task waits for the confirming sample, the contact will have     *)
(* settled by then; either the press has not acted yet, or the edge was one  *)
(* of a release and the sample will be high.                                 *)
Sampling(b) ==
    ipc = "debounce" /\ edge = b =>
        /\ finger[b] => settle[b] <= timer /\ held[b] >= Debounce - timer
        /\ ~finger[b] => rest[b] < Settling + Latency + (Debounce - timer) + late
        /\ \/ credit[b] = 1 /\ held[b] <= Settling + Latency + (Debounce - timer) + late
           \/ ~finger[b] /\ rest[b] + timer >= Debounce

(* While UP is timed, the time it has been held follows from the timer, and  *)
(* its release is noted.                                                     *)
Holding(b) ==
    ipc = "hold" /\ edge = b =>
        /\ credit[b] = 1
        /\ held[b] <= Settling + 2 * Latency + Debounce + (LongPress - timer) + late
        /\ finger[b] => settle[b] = 0 /\ held[b] >= Debounce + LongPress - timer
        /\ ~finger[b] => rest[b] <= Settling + late
        /\ ~finger[b] /\ b \notin noted => level[b] = "low" /\ settle[b] <= timer

(* A press that has the buttons for itself is the one the task is handling,  *)
(* and how long it has lasted follows from how far the task is.              *)
Undisturbed(b) ==
    quiet[b] =>
        /\ ~finger[Other(b)] /\ rest[Other(b)] = Rest
        /\ ipc # "boot"
        /\ ipc \in {"debounce", "hold", "release"} => edge = b
        /\ credit[b] = 1 =>
              \/ ~finger[b] /\ held[b] < Confirmed
              \/ ipc = "listen" /\ b \in noted /\ held[b] <= late
              \/ ipc = "debounce" /\ held[b] <= Latency + (Debounce - timer) + late
              \/ ipc = "hold" /\ held[b] <= 2 * Latency + Debounce + (LongPress - timer) + late

PressInv(b) ==
    /\ credit[b] \in {0, 1}
    /\ Contact(b) /\ EdgeNoted(b) /\ Sampling(b) /\ Holding(b) /\ Undisturbed(b)

PInv == TypeOK /\ Timely /\ \A b \in Button : PressInv(b)

LEMMA OtherButton == \A b \in Button : Other(b) \in Button /\ Other(b) # b /\ Other(Other(b)) = b
  BY DEF Other, Button

LEMMA OneButtonMore == \A b, c \in Button : b = c \/ b = Other(c)
  BY DEF Other, Button

(* What the pins going to other levels means for one button.                 *)
LEMMA PinsKeep ==
    ASSUME PInv, NEW newLevel \in [Button -> {"low", "high"}], PinsGoTo(newLevel)
    PROVE  /\ \A b \in Button : level'[b] = newLevel[b]
           /\ \A b \in Button :
                 b \in noted' <=> \/ b \in noted
                                  \/ ipc = "listen" /\ level[b] = "high" /\ newLevel[b] = "low"
                                  \/ ipc \in {"hold", "release"} /\ b = edge /\ newLevel[b] = "high"
           /\ ipc \notin {"listen", "hold", "release"} => noted' = noted
           /\ noted # {} => noted' # {}
           /\ noted' \subseteq Button
           /\ ipc \in {"hold", "release"} /\ noted \subseteq {edge} => noted' \subseteq {edge}
  BY DEF PinsGoTo, Note, PInv, TypeOK

LEMMA PressKeeps == ASSUME PInv, NEW c \in Button, Press(c) PROVE PInv'
<1> DEFINE newLevel == [level EXCEPT ![c] = "low"]
<1>1. TypeOK /\ TypeOK' /\ Timely /\ (\A b \in Button : PressInv(b))
  BY TypeStep DEF PInv, Next
<1>2. newLevel \in [Button -> {"low", "high"}] /\ PinsGoTo(newLevel)
  BY <1>1 DEF Press, TypeOK
<1>3. /\ \A b \in Button : level'[b] = IF b = c THEN "low" ELSE level[b]
      /\ \A b \in Button :
            b \in noted' <=> \/ b \in noted
                             \/ b = c /\ ipc = "listen" /\ level[b] = "high"
                             \/ b # c /\ ipc \in {"hold", "release"} /\ b = edge /\ level[b] = "high"
      /\ ipc \notin {"listen", "hold", "release"} => noted' = noted
      /\ noted # {} => noted' # {}
      /\ ipc \in {"hold", "release"} /\ noted \subseteq {edge} => noted' \subseteq {edge}
  <2>1. \A b \in Button : newLevel[b] = IF b = c THEN "low" ELSE level[b]
    BY <1>1 DEF TypeOK
  <2> HIDE DEF newLevel
  <2> QED BY <1>1, <1>2, <2>1, PinsKeep DEF TypeOK
<1>4. /\ ~finger[c] /\ rest[c] = Rest
      /\ \A b \in Button : /\ finger'[b] <=> b = c \/ finger[b]
                           /\ settle'[b] = IF b = c THEN Settling ELSE settle[b]
                           /\ held'[b] = IF b = c THEN 0 ELSE held[b]
                           /\ credit'[b] = IF b = c THEN 1 ELSE credit[b]
      /\ quiet'[c] => ipc = "listen" /\ ~finger[Other(c)] /\ rest[Other(c)] = Rest
      /\ ~quiet'[Other(c)]
      /\ UNCHANGED <<ipc, edge, timer, late, rest>>
  BY <1>1, OtherButton DEF Press, TypeOK
<1>5. Timely'
  BY <1>1, <1>3, <1>4 DEF Timely, Ready
<1>6. PressInv(c)'
  <2>1. Contact(c) /\ EdgeNoted(c) /\ Sampling(c) /\ Holding(c)
    BY <1>1 DEF PressInv
  <2>2. settle[c] = 0 /\ level[c] = "high"
    BY <1>1, <1>4, <2>1 DEF Contact, Resting, TypeOK
  <2>3. late \in 0 .. Latency
    BY <1>1 DEF Timely, TypeOK
  <2>4. ~(ipc = "debounce" /\ edge = c) /\ ~(ipc = "hold" /\ edge = c)
    BY <1>1, <1>4, <2>1, <2>3 DEF Sampling, Holding, Timely, TypeOK
  <2>5. Contact(c)' /\ EdgeNoted(c)'
    BY <1>1, <1>3, <1>4, <2>3 DEF Contact, EdgeNoted, TypeOK
  <2>6. Sampling(c)' /\ Holding(c)'
    BY <1>4, <2>4 DEF Sampling, Holding
  <2>7. Undisturbed(c)'
    BY <1>3, <1>4, <2>2, <2>3, OtherButton DEF Undisturbed
  <2> QED BY <1>4, <2>5, <2>6, <2>7 DEF PressInv
<1>7. PressInv(Other(c))'
  <2> DEFINE b == Other(c)
  <2>1. b \in Button /\ b # c /\ PressInv(b)
    BY <1>1, OtherButton
  <2> HIDE DEF b
  <2>2. ~quiet'[b]
    BY <1>4 DEF b
  <2>3. /\ level'[b] = level[b] /\ finger'[b] = finger[b] /\ settle'[b] = settle[b]
        /\ held'[b] = held[b] /\ credit'[b] = credit[b] /\ rest'[b] = rest[b]
        /\ b \in noted => b \in noted'
        /\ ipc = "listen" => (b \in noted' <=> b \in noted)
        /\ UNCHANGED <<ipc, edge, timer, late>>
    BY <1>1, <1>3, <1>4, <2>1 DEF TypeOK
  <2>4. Contact(b)' /\ EdgeNoted(b)' /\ Sampling(b)' /\ Holding(b)'
    BY <2>1, <2>3 DEF PressInv, Contact, EdgeNoted, Sampling, Holding, Resting
  <2> QED BY <2>1, <2>2, <2>3, <2>4 DEF PressInv, Undisturbed, b
<1> QED BY <1>1, <1>5, <1>6, <1>7, OneButtonMore DEF PInv

LEMMA ReleaseKeeps == ASSUME PInv, NEW c \in Button, Release(c) PROVE PInv'
<1> DEFINE newLevel == [level EXCEPT ![c] = "high"]
<1>1. TypeOK /\ TypeOK' /\ Timely /\ (\A b \in Button : PressInv(b))
  BY TypeStep DEF PInv, Next
<1>2. newLevel \in [Button -> {"low", "high"}] /\ PinsGoTo(newLevel)
  BY <1>1 DEF Release, TypeOK
<1>3. /\ \A b \in Button : level'[b] = IF b = c THEN "high" ELSE level[b]
      /\ \A b \in Button :
            b \in noted' <=> \/ b \in noted
                             \/ ipc \in {"hold", "release"} /\ b = edge /\ (b = c \/ level[b] = "high")
      /\ ipc \notin {"listen", "hold", "release"} => noted' = noted
      /\ noted # {} => noted' # {}
      /\ ipc \in {"hold", "release"} /\ noted \subseteq {edge} => noted' \subseteq {edge}
  <2>1. \A b \in Button : newLevel[b] = IF b = c THEN "high" ELSE level[b]
    BY <1>1 DEF TypeOK
  <2> HIDE DEF newLevel
  <2> QED BY <1>1, <1>2, <2>1, PinsKeep DEF TypeOK
<1>4. /\ finger[c]
      /\ \A b \in Button : /\ finger'[b] <=> b # c /\ finger[b]
                           /\ settle'[b] = IF b = c THEN Settling ELSE settle[b]
                           /\ rest'[b] = IF b = c THEN 0 ELSE rest[b]
      /\ UNCHANGED <<ipc, edge, timer, late, held, credit, quiet>>
  BY <1>1 DEF Release, TypeOK
<1>5. Timely'
  BY <1>1, <1>3, <1>4 DEF Timely, Ready
<1>6. PressInv(c)'
  <2>1. PressInv(c) /\ late \in 0 .. Latency
    BY <1>1 DEF Timely, TypeOK
  <2>2. Contact(c)' /\ EdgeNoted(c)'
    BY <1>1, <1>3, <1>4, <2>1 DEF Contact, EdgeNoted, TypeOK, PressInv
  <2>3. Sampling(c)'
    <3>1. ipc = "debounce" => timer <= Debounce
      BY <1>1 DEF Timely
    <3> QED BY <1>1, <1>4, <2>1, <3>1 DEF PressInv, Sampling, TypeOK
  <2>4. Holding(c)'
    BY <1>1, <1>3, <1>4, <2>1 DEF PressInv, Holding, TypeOK
  <2>5. Undisturbed(c)'
    BY <1>1, <1>3, <1>4, <2>1, OtherButton DEF PressInv, Undisturbed
  <2> QED BY <1>4, <2>1, <2>2, <2>3, <2>4, <2>5 DEF PressInv
<1>7. PressInv(Other(c))'
  <2> DEFINE b == Other(c)
  <2>1. b \in Button /\ b # c /\ PressInv(b) /\ Other(b) = c
    BY <1>1, OtherButton
  <2> HIDE DEF b
  <2>2. ~quiet'[b]
    BY <1>4, <2>1 DEF PressInv, Undisturbed
  <2>3. /\ level'[b] = level[b] /\ finger'[b] = finger[b] /\ settle'[b] = settle[b]
        /\ held'[b] = held[b] /\ credit'[b] = credit[b] /\ rest'[b] = rest[b]
        /\ b \in noted => b \in noted'
        /\ ipc = "listen" => (b \in noted' <=> b \in noted)
        /\ UNCHANGED <<ipc, edge, timer, late>>
    BY <1>1, <1>3, <1>4, <2>1 DEF TypeOK
  <2>4. Contact(b)' /\ EdgeNoted(b)' /\ Sampling(b)' /\ Holding(b)'
    BY <2>1, <2>3 DEF PressInv, Contact, EdgeNoted, Sampling, Holding, Resting
  <2> QED BY <2>1, <2>2, <2>3, <2>4 DEF PressInv, Undisturbed, b
<1> QED BY <1>1, <1>5, <1>6, <1>7, OneButtonMore DEF PInv

LEMMA ChatterKeeps == ASSUME PInv, NEW c \in Button, Chatter(c) PROVE PInv'
<1> DEFINE flip     == IF level[c] = "low" THEN "high" ELSE "low"
           newLevel == [level EXCEPT ![c] = flip]
<1>1. TypeOK /\ TypeOK' /\ Timely /\ (\A b \in Button : PressInv(b))
  BY TypeStep DEF PInv, Next
<1>2. newLevel \in [Button -> {"low", "high"}] /\ PinsGoTo(newLevel)
  BY <1>1 DEF Chatter, TypeOK
<1>3. /\ \A b \in Button : level'[b] = IF b = c THEN flip ELSE level[b]
      /\ \A b \in Button :
            b \in noted' <=> \/ b \in noted
                             \/ b = c /\ ipc = "listen" /\ level'[b] = "low"
                             \/ ipc \in {"hold", "release"} /\ b = edge /\ level'[b] = "high"
      /\ ipc \notin {"listen", "hold", "release"} => noted' = noted
      /\ noted # {} => noted' # {}
      /\ ipc \in {"hold", "release"} /\ noted \subseteq {edge} => noted' \subseteq {edge}
  <2>1. \A b \in Button : newLevel[b] = IF b = c THEN flip ELSE level[b]
    BY <1>1 DEF TypeOK
  <2> HIDE DEF newLevel
  <2> QED BY <1>1, <1>2, <2>1, PinsKeep DEF TypeOK
<1>4. /\ settle[c] > 0
      /\ UNCHANGED <<finger, settle, rest, ipc, edge, timer, late, held, credit, quiet>>
  BY DEF Chatter, history
<1>5. Timely'
  BY <1>1, <1>3, <1>4 DEF Timely, Ready
<1>6. PressInv(c)'
  <2>1. PressInv(c) /\ late \in 0 .. Latency
    BY <1>1 DEF Timely, TypeOK
  <2>2. Contact(c)' /\ EdgeNoted(c)'
    BY <1>1, <1>3, <1>4, <2>1 DEF Contact, EdgeNoted, TypeOK, PressInv
  <2>3. Sampling(c)'
    BY <1>4, <2>1 DEF PressInv, Sampling
  <2>4. Holding(c)'
    BY <1>1, <1>3, <1>4, <2>1 DEF PressInv, Holding, TypeOK
  <2>5. Undisturbed(c)'
    BY <1>1, <1>3, <1>4, <2>1 DEF PressInv, Undisturbed
  <2> QED BY <1>4, <2>1, <2>2, <2>3, <2>4, <2>5 DEF PressInv
<1>7. PressInv(Other(c))'
  <2> DEFINE b == Other(c)
  <2>1. b \in Button /\ b # c /\ PressInv(b)
    BY <1>1, OtherButton
  <2> HIDE DEF b
  <2>2. /\ level'[b] = level[b]
        /\ b \in noted => b \in noted'
        /\ ipc = "listen" => (b \in noted' <=> b \in noted)
    BY <1>1, <1>3, <1>4, <2>1 DEF TypeOK
  <2>3. Contact(b)' /\ EdgeNoted(b)' /\ Sampling(b)' /\ Holding(b)' /\ Undisturbed(b)'
    BY <1>4, <2>1, <2>2 DEF PressInv, Contact, EdgeNoted, Sampling, Holding, Undisturbed, Resting
  <2> QED BY <1>4, <2>1, <2>3 DEF PressInv, b
<1> QED BY <1>1, <1>5, <1>6, <1>7, OneButtonMore DEF PInv

(* A count that follows a timer goes on following it.                        *)
LEMMA StaysBelow ==
    ASSUME NEW h \in Int, NEW h2 \in Int, NEW c \in Int, NEW d \in Int,
           NEW t \in Int, NEW t2 \in Int, NEW l \in Int, NEW l2 \in Int,
           h <= c + (d - t) + l, h2 <= h + 1, l2 - t2 >= l - t + 1
    PROVE  h2 <= c + (d - t2) + l2
  OBVIOUS

LEMMA StaysAbove ==
    ASSUME NEW h \in Int, NEW h2 \in Int, NEW d \in Int, NEW m \in Int,
           NEW t \in Int, NEW t2 \in Nat,
           h >= d - t, h2 = IF h < m THEN h + 1 ELSE h, m >= d, t2 >= t - 1
    PROVE  h2 >= d - t2
  OBVIOUS

LEMMA TickKeeps == ASSUME PInv, Tick PROVE PInv'
<1> DEFINE newLevel == [b \in Button |-> IF settle[b] <= 1 THEN Resting(b) ELSE level[b]]
<1>1. TypeOK /\ TypeOK' /\ Timely /\ (\A b \in Button : PressInv(b))
  BY TypeStep DEF PInv, Next
<1>2. newLevel \in [Button -> {"low", "high"}] /\ PinsGoTo(newLevel)
  BY <1>1 DEF Tick, TypeOK, Resting
<1>3. /\ \A b \in Button : level'[b] = IF settle[b] <= 1 THEN Resting(b) ELSE level[b]
      /\ \A b \in Button :
            b \in noted' <=> \/ b \in noted
                             \/ ipc = "listen" /\ level[b] = "high" /\ level'[b] = "low"
                             \/ ipc \in {"hold", "release"} /\ b = edge /\ level'[b] = "high"
      /\ ipc \notin {"listen", "hold", "release"} => noted' = noted
      /\ noted # {} => noted' # {}
      /\ ipc \in {"hold", "release"} /\ noted \subseteq {edge} => noted' \subseteq {edge}
  <2>1. \A b \in Button : newLevel[b] = IF settle[b] <= 1 THEN Resting(b) ELSE level[b]
    OBVIOUS
  <2> HIDE DEF newLevel
  <2> QED BY <1>1, <1>2, <2>1, PinsKeep DEF TypeOK
<1>4. /\ Ready => late < Latency
      /\ late' = IF Ready THEN late + 1 ELSE 0
      /\ timer' = IF timer > 0 THEN timer - 1 ELSE timer
      /\ UNCHANGED <<finger, ipc, edge, credit, quiet>>
      /\ \A b \in Button :
            /\ settle'[b] = IF settle[b] > 0 THEN settle[b] - 1 ELSE settle[b]
            /\ held'[b] = IF finger[b] /\ held[b] < Longest THEN held[b] + 1 ELSE held[b]
            /\ rest'[b] = IF ~finger[b] /\ rest[b] < Rest THEN rest[b] + 1 ELSE rest[b]
  BY <1>1 DEF Tick, Less, UpTo, TypeOK
<1>5. Ready => Ready'
  BY <1>1, <1>3, <1>4 DEF Ready, TypeOK
<1>6. Timely'
  BY <1>1, <1>3, <1>4, <1>5 DEF Timely, TypeOK
<1>7. ASSUME NEW b \in Button PROVE PressInv(b)'
  <2>1. PressInv(b) /\ late \in 0 .. Latency
    BY <1>1 DEF Timely, TypeOK
  <2>2. /\ settle[b] \in Nat /\ rest[b] \in Nat /\ held[b] \in Nat /\ timer \in Nat /\ late \in Nat
        /\ finger[b] \in BOOLEAN /\ level[b] \in {"low", "high"}
    BY <1>1 DEF TypeOK
  <2>0. /\ finger'[b] = finger[b] /\ credit'[b] = credit[b]
        /\ settle'[b] = IF settle[b] > 0 THEN settle[b] - 1 ELSE settle[b]
        /\ held'[b] = IF finger[b] /\ held[b] < Longest THEN held[b] + 1 ELSE held[b]
        /\ rest'[b] = IF ~finger[b] /\ rest[b] < Rest THEN rest[b] + 1 ELSE rest[b]
    BY <1>4
  <2>3. Contact(b)'
    BY <1>3, <1>4, <2>1, <2>2 DEF PressInv, Contact, Resting
  <2>4. EdgeNoted(b)'
    <3> SUFFICES ASSUME ipc = "listen", b \in noted'
                 PROVE  IF finger[b] THEN credit[b] = 1 /\ held'[b] <= Settling + late'
                                     ELSE rest'[b] < Settling + late'
      BY <1>4 DEF EdgeNoted
    <3>1. CASE b \in noted
      <4>1. Ready BY <3>1 DEF Ready
      <4> QED BY <1>4, <2>1, <2>2, <3>1, <4>1 DEF PressInv, EdgeNoted
    <3>2. CASE b \notin noted
      <4>1. level[b] = "high" /\ level'[b] = "low" BY <1>3, <3>2
      <4>2. settle[b] = 1 /\ finger[b] BY <1>3, <2>1, <2>2, <4>1 DEF PressInv, Contact, Resting
      <4> QED BY <1>4, <2>1, <2>2, <4>2 DEF PressInv, Contact
    <3> QED BY <3>1, <3>2
  <2>5. Sampling(b)'
    <3> SUFFICES ASSUME ipc = "debounce", edge = b PROVE Sampling(b)'
      BY <1>4 DEF Sampling
    <3>1. timer <= Debounce /\ (Ready <=> timer = 0) /\ (timer > 0 => late = 0)
      BY <1>1 DEF Timely, Ready
    <3>2. Sampling(b) BY <2>1 DEF PressInv
    <3>3. Longest >= Debounce /\ Rest >= Debounce BY DEF Longest
    <3>4. CASE timer = 0
      <4>1. timer' = 0 /\ late' = late + 1 BY <1>4, <3>1, <3>4
      <4> QED BY <1>4, <2>2, <3>2, <3>3, <3>4, <4>1 DEF Sampling
    <3>5. CASE timer > 0
      <4>1. timer' = timer - 1 /\ late' = 0 /\ late = 0 BY <1>4, <2>2, <3>1, <3>5
      <4>2. /\ finger[b] => settle[b] <= timer /\ held[b] >= Debounce - timer
            /\ ~finger[b] => rest[b] < Settling + Latency + (Debounce - timer)
            /\ \/ credit[b] = 1 /\ held[b] <= Settling + Latency + (Debounce - timer)
               \/ ~finger[b] /\ rest[b] + timer >= Debounce
        BY <2>2, <3>2, <4>1 DEF Sampling
      <4>3. finger'[b] => settle'[b] <= timer' /\ held'[b] >= Debounce - timer'
        <5>1. timer' \in Nat /\ held'[b] \in Int /\ Longest \in Int
          BY <1>1 DEF TypeOK, Longest
        <5>2. timer' >= timer - 1 /\ timer \in Int BY <2>2, <4>1
        <5>3. ASSUME finger[b] PROVE held'[b] >= Debounce - timer'
          <6>1. held[b] >= Debounce - timer /\ held[b] \in Int BY <2>2, <4>2, <5>3
          <6>2. held'[b] = IF held[b] < Longest THEN held[b] + 1 ELSE held[b] BY <2>0, <5>3
          <6>3. Debounce \in Int OBVIOUS
          <6> HIDE DEF Longest
          <6> QED BY <3>3, <5>1, <5>2, <6>1, <6>2, <6>3, StaysAbove
        <5>4. ASSUME finger[b] PROVE settle'[b] <= timer'
          BY <2>0, <2>2, <3>5, <4>1, <4>2, <5>4
        <5> QED BY <2>0, <5>3, <5>4
      <4>4. ~finger'[b] => rest'[b] < Settling + Latency + (Debounce - timer') + late'
        BY <2>0, <2>2, <3>5, <4>1, <4>2
      <4>5. \/ credit'[b] = 1 /\ held'[b] <= Settling + Latency + (Debounce - timer') + late'
            \/ ~finger'[b] /\ rest'[b] + timer' >= Debounce
        BY <2>0, <2>2, <3>3, <3>5, <4>1, <4>2
      <4> QED BY <4>3, <4>4, <4>5 DEF Sampling
    <3> QED BY <2>2, <3>4, <3>5
  <2>6. Holding(b)'
    <3> SUFFICES ASSUME ipc = "hold", edge = b PROVE Holding(b)'
      BY <1>4 DEF Holding
    <3>1. timer <= LongPress /\ (Ready <=> noted # {} \/ timer = 0) /\ (~Ready => late = 0)
          /\ (b \in noted <=> noted # {})
      BY <1>1 DEF Timely, Ready
    <3>2. Holding(b) /\ Contact(b) BY <2>1 DEF PressInv
    <3>3. Longest >= Debounce + LongPress BY DEF Longest
    <3>4. credit'[b] = 1 BY <1>4, <3>2 DEF Holding
    <3>5. held'[b] <= Settling + 2 * Latency + Debounce + (LongPress - timer') + late'
      <4>1. LongPress - timer' + late' >= LongPress - timer + late + 1
        BY <1>4, <2>2, <3>1
      <4>2. held'[b] <= held[b] + 1 BY <1>4, <2>2
      <4>3. held[b] <= Settling + 2 * Latency + Debounce + (LongPress - timer) + late
        BY <3>2 DEF Holding
      <4>4. late' \in Nat /\ timer' \in Nat BY <1>1 DEF TypeOK
      <4>5. held'[b] \in Nat BY <1>1 DEF TypeOK
      <4> QED BY <2>2, <4>1, <4>2, <4>3, <4>4, <4>5
    <3>6. finger'[b] => settle'[b] = 0 /\ held'[b] >= Debounce + LongPress - timer'
      <4>1. finger[b] => settle[b] = 0 /\ held[b] >= Debounce + LongPress - timer
        BY <3>2 DEF Holding
      <4>2. timer' >= timer - 1 /\ timer' \in Nat BY <1>1, <1>4, <2>2 DEF TypeOK
      <4>3. ASSUME finger[b] PROVE held'[b] >= Debounce + LongPress - timer'
        <5>1. held'[b] \in Int /\ Longest \in Int BY <1>1 DEF TypeOK, Longest
        <5>2. held[b] >= (Debounce + LongPress) - timer /\ held[b] \in Int /\ timer \in Int
          BY <2>2, <4>1, <4>3
        <5>3. held'[b] = IF held[b] < Longest THEN held[b] + 1 ELSE held[b] BY <2>0, <4>3
        <5> DEFINE d == Debounce + LongPress
        <5>4. d \in Int /\ held[b] >= d - timer /\ Longest >= d BY <3>3, <5>2
        <5>5. held'[b] >= d - timer'
          <6> HIDE DEF d
          <6> QED BY <4>2, <5>1, <5>2, <5>3, <5>4, StaysAbove
        <5> QED BY <4>2, <5>5
      <4> QED BY <2>0, <2>2, <4>1, <4>3
    <3>7. ~finger'[b] => rest'[b] <= Settling + late'
      <4> SUFFICES ASSUME ~finger[b] PROVE rest'[b] <= Settling + late'
        BY <1>4
      <4>1. CASE b \in noted
        <5>1. late' = late + 1 BY <1>4, <3>1, <4>1
        <5> QED BY <1>4, <2>2, <3>2, <5>1 DEF Holding
      <4>2. CASE b \notin noted
        <5>1. settle[b] > 0 BY <2>2, <3>2, <4>2 DEF Holding, Contact, Resting
        <5>2. late' \in Nat BY <1>1 DEF TypeOK
        <5> QED BY <1>4, <2>2, <3>2, <5>1, <5>2 DEF Contact
      <4> QED BY <4>1, <4>2
    <3>8. ~finger'[b] /\ b \notin noted' => level'[b] = "low" /\ settle'[b] <= timer'
      <4> SUFFICES ASSUME ~finger[b], b \notin noted' PROVE level'[b] = "low" /\ settle'[b] <= timer'
        BY <1>4
      <4>1. b \notin noted /\ level'[b] # "high" BY <1>3
      <4>2. level[b] = "low" /\ settle[b] <= timer BY <3>2, <4>1 DEF Holding
      <4>3. settle[b] > 1 BY <1>3, <2>2, <4>1 DEF Resting
      <4> QED BY <1>3, <1>4, <2>2, <4>2, <4>3
    <3> QED BY <1>4, <3>4, <3>5, <3>6, <3>7, <3>8 DEF Holding
  <2>7. Undisturbed(b)'
    <3> SUFFICES ASSUME quiet[b] PROVE Undisturbed(b)'
      BY <1>4 DEF Undisturbed
    <3>1. Undisturbed(b) /\ Other(b) \in Button BY <2>1, OtherButton DEF PressInv
    <3>2. ~finger'[Other(b)] /\ rest'[Other(b)] = Rest
      BY <1>1, <1>4, <3>1 DEF Undisturbed, TypeOK
    <3>3. /\ b \in noted => b \in noted' /\ late' = late + 1
          /\ ipc = "debounce" => (Ready <=> timer = 0) /\ (~Ready => late = 0)
          /\ ipc = "hold" => (timer = 0 => Ready) /\ (~Ready => late = 0)
      BY <1>1, <1>3, <1>4 DEF Ready, Timely
    <3>4. ASSUME credit[b] = 1
          PROVE  \/ ~finger'[b] /\ held'[b] < Confirmed
                 \/ ipc = "listen" /\ b \in noted' /\ held'[b] <= late'
                 \/ ipc = "debounce" /\ held'[b] <= Latency + (Debounce - timer') + late'
                 \/ ipc = "hold" /\ held'[b] <= 2 * Latency + Debounce + (LongPress - timer') + late'
      <4>1. held'[b] <= held[b] + 1 /\ (~finger[b] => held'[b] = held[b]) /\ held'[b] \in Nat
        BY <1>1, <1>4, <2>2 DEF TypeOK
      <4>2. ipc \in {"debounce", "hold"} => late' - timer' >= late - timer + 1
        BY <1>4, <2>2, <3>3
      <4>3. late' \in Nat /\ timer' \in Nat BY <1>1 DEF TypeOK
      <4>4. CASE ~finger[b] /\ held[b] < Confirmed BY <1>4, <4>1, <4>4
      <4>5. CASE ipc = "listen" /\ b \in noted /\ held[b] <= late
        BY <2>2, <3>3, <4>1, <4>5
      <4>6. CASE ipc = "debounce" /\ held[b] <= Latency + (Debounce - timer) + late
        <5>1. late' - timer' >= late - timer + 1 BY <4>2, <4>6
        <5>2. held'[b] <= Latency + (Debounce - timer') + late'
          <6>1. /\ held[b] \in Int /\ held'[b] \in Int /\ timer \in Int /\ timer' \in Int
                /\ late \in Int /\ late' \in Int /\ Latency \in Int /\ Debounce \in Int
            BY <2>2, <4>1, <4>3
          <6> QED BY <4>1, <4>6, <5>1, <6>1, StaysBelow
        <5> QED BY <4>6, <5>2
      <4>7. CASE ipc = "hold" /\ held[b] <= 2 * Latency + Debounce + (LongPress - timer) + late
        <5>1. late' - timer' >= late - timer + 1 BY <4>2, <4>7
        <5>2. held'[b] <= 2 * Latency + Debounce + (LongPress - timer') + late'
          <6>1. /\ held[b] \in Int /\ held'[b] \in Int /\ timer \in Int /\ timer' \in Int
                /\ late \in Int /\ late' \in Int /\ LongPress \in Int
                /\ 2 * Latency + Debounce \in Int
            BY <2>2, <4>1, <4>3
          <6> QED BY <4>1, <4>7, <5>1, <6>1, StaysBelow
        <5> QED BY <4>7, <5>2
      <4> QED BY <3>1, <3>4, <4>4, <4>5, <4>6, <4>7 DEF Undisturbed
    <3> QED BY <1>4, <3>1, <3>2, <3>4 DEF Undisturbed
  <2> QED BY <1>4, <2>1, <2>3, <2>4, <2>5, <2>6, <2>7 DEF PressInv
<1> QED BY <1>1, <1>6, <1>7 DEF PInv
LEMMA EdgeKeeps == ASSUME PInv, Edge PROVE PInv'
<1>1. TypeOK /\ TypeOK' /\ Timely /\ (\A b \in Button : PressInv(b))
  BY TypeStep DEF PInv, Next, Input
<1>2. /\ ipc = "listen" /\ ipc' = "debounce" /\ timer' = Debounce /\ noted' = {} /\ late' = 0
      /\ edge' \in noted /\ edge' \in Button
      /\ UNCHANGED <<finger, level, settle, held, rest, credit, quiet>>
  BY <1>1 DEF Edge, Await, pins, history, TypeOK, Button
<1>3. Timely'
  BY <1>2 DEF Timely
<1>4. ASSUME NEW b \in Button PROVE PressInv(b)'
  <2>1. PressInv(b) /\ PressInv(Other(b)) /\ Other(b) \in Button /\ late \in Nat /\ late <= Latency
    BY <1>1, OtherButton DEF Timely, TypeOK
  <2>2. settle[b] \in Nat /\ rest[b] \in Nat /\ held[b] \in Nat /\ rest[Other(b)] \in Nat
    BY <1>1, <2>1 DEF TypeOK
  <2>3. Contact(b)' /\ EdgeNoted(b)' /\ Holding(b)'
    BY <1>2, <2>1 DEF PressInv, Contact, EdgeNoted, Holding, Resting
  <2>4. Sampling(b)'
    <3> SUFFICES ASSUME edge' = b PROVE Sampling(b)'
      BY DEF Sampling
    <3>1. EdgeNoted(b) /\ b \in noted /\ settle[b] <= Settling
      BY <1>2, <2>1 DEF PressInv, Contact
    <3>2. finger[b] => credit[b] = 1 /\ held[b] <= Settling + late
      BY <1>2, <3>1 DEF EdgeNoted
    <3>3. ~finger[b] => rest[b] < Settling + late
      BY <1>2, <3>1 DEF EdgeNoted
    <3> QED BY <1>2, <2>1, <2>2, <3>1, <3>2, <3>3 DEF Sampling
  <2>5. Undisturbed(b)'
    <3> SUFFICES ASSUME quiet[b] PROVE Undisturbed(b)'
      BY <1>2 DEF Undisturbed
    <3>1. Undisturbed(b) BY <2>1 DEF PressInv
    <3>2. ~finger[Other(b)] /\ rest[Other(b)] = Rest BY <3>1 DEF Undisturbed
    <3>3. Other(b) \notin noted
      BY <1>2, <2>1, <3>2 DEF PressInv, EdgeNoted
    <3>4. edge' = b BY <1>2, <3>3, OneButtonMore
    <3>5. credit[b] = 1 => \/ ~finger[b] /\ held[b] < Confirmed
                           \/ held[b] <= late
      BY <1>2, <3>1 DEF Undisturbed
    <3>6. credit[b] = 1 => \/ ~finger[b] /\ held[b] < Confirmed
                           \/ held[b] <= Latency + (Debounce - timer') + late'
      BY <1>2, <2>1, <2>2, <3>5
    <3> QED BY <1>2, <3>2, <3>4, <3>6 DEF Undisturbed
  <2> QED BY <1>2, <2>1, <2>3, <2>4, <2>5 DEF PressInv
<1> QED BY <1>1, <1>3, <1>4 DEF PInv

LEMMA DiscardKeeps == ASSUME PInv, Discard PROVE PInv'
<1>1. TypeOK /\ TypeOK' /\ Timely /\ (\A b \in Button : PressInv(b))
  BY TypeStep DEF PInv, Next, Input
<1>2. /\ ipc = "debounce" /\ timer = 0 /\ level[edge] = "high"
      /\ ipc' = "listen" /\ noted' = {} /\ late' = 0
      /\ UNCHANGED <<finger, level, settle, held, rest, credit, quiet>>
  BY DEF Discard, Listen, Await, pins, history
<1>3. Timely'
  BY <1>2 DEF Timely
<1>4. ASSUME NEW b \in Button PROVE PressInv(b)'
  <2>1. PressInv(b) /\ late \in Nat /\ late <= Latency
    BY <1>1 DEF Timely, TypeOK
  <2>2. Contact(b)' /\ EdgeNoted(b)' /\ Sampling(b)' /\ Holding(b)'
    BY <1>2, <2>1 DEF PressInv, Contact, EdgeNoted, Sampling, Holding, Resting
  <2>3. Undisturbed(b)'
    <3> SUFFICES ASSUME quiet[b] PROVE Undisturbed(b)'
      BY <1>2 DEF Undisturbed
    <3>1. Undisturbed(b) /\ Sampling(b) /\ Contact(b) BY <2>1 DEF PressInv
    <3>2. edge = b BY <1>2, <3>1 DEF Undisturbed
    <3>3. ~finger[b]
      <4>1. settle[b] \in Nat BY <1>1 DEF TypeOK
      <4> QED BY <1>2, <3>1, <3>2, <4>1 DEF Sampling, Contact, Resting
    <3>4. credit[b] = 1 => held[b] < Confirmed \/ held[b] <= Latency + (Debounce - 0) + late
      BY <1>2, <3>1 DEF Undisturbed
    <3>5. credit[b] = 1 => held[b] < Confirmed
      <4>1. held[b] \in Nat BY <1>1 DEF TypeOK
      <4> QED BY <2>1, <3>4, <4>1 DEF Confirmed
    <3> QED BY <1>2, <3>1, <3>3, <3>5 DEF Undisturbed
  <2> QED BY <1>2, <2>1, <2>2, <2>3 DEF PressInv
<1> QED BY <1>1, <1>3, <1>4 DEF PInv

(* A sample that is low is one of a press that has not acted yet.            *)
LEMMA LowSample ==
    ASSUME PInv, ipc = "debounce", timer = 0, edge \in Button, level[edge] = "low"
    PROVE  /\ credit[edge] = 1
           /\ held[edge] \in Nat /\ held[edge] <= Settling + 2 * Latency + Debounce
           /\ finger[edge] => settle[edge] = 0 /\ held[edge] >= Debounce
           /\ ~finger[edge] => rest[edge] <= Settling
           /\ settle[edge] <= LongPress
           /\ IfHigh(edge) = {}
<1>1. /\ late \in Nat /\ late <= Latency
      /\ settle[edge] \in Nat /\ rest[edge] \in Nat /\ held[edge] \in Nat
  BY DEF PInv, Timely, TypeOK
<1>2. Sampling(edge) /\ Contact(edge)
  BY DEF PInv, PressInv
<1>3. settle[edge] = 0 => finger[edge]
  BY <1>2 DEF Contact, Resting
<1>4. ~finger[edge] => settle[edge] > 0 /\ rest[edge] + settle[edge] <= Settling
  BY <1>1, <1>2, <1>3 DEF Contact
<1>5. credit[edge] = 1 /\ held[edge] <= Settling + Latency + (Debounce - 0) + late
  BY <1>1, <1>2, <1>4 DEF Sampling
<1>6. finger[edge] => settle[edge] <= 0 /\ held[edge] >= Debounce - 0
  BY <1>2 DEF Sampling
<1>7. settle[edge] <= Settling
  BY <1>2 DEF Contact
<1>8. IfHigh(edge) = {}
  BY DEF IfHigh
<1> QED BY <1>1, <1>4, <1>5, <1>6, <1>7, <1>8

LEMMA ConfirmUpKeeps == ASSUME PInv, ConfirmUp PROVE PInv'
<1>1. TypeOK /\ TypeOK' /\ Timely /\ (\A b \in Button : PressInv(b))
  BY TypeStep DEF PInv, Next, Input
<1>2. /\ ipc = "debounce" /\ timer = 0 /\ edge = "up" /\ edge \in Button /\ level[edge] = "low"
      /\ ipc' = "hold" /\ timer' = LongPress /\ noted' = IfHigh(edge) /\ late' = 0
      /\ UNCHANGED <<finger, level, settle, edge, held, rest, credit, quiet>>
  BY DEF ConfirmUp, Await, pins, history, Button
<1>3. /\ credit[edge] = 1
      /\ held[edge] \in Nat /\ held[edge] <= Settling + 2 * Latency + Debounce
      /\ finger[edge] => settle[edge] = 0 /\ held[edge] >= Debounce
      /\ ~finger[edge] => rest[edge] <= Settling
      /\ settle[edge] <= LongPress
      /\ noted' = {}
  BY <1>2, LowSample
<1>4. Timely'
  BY <1>2, <1>3 DEF Timely
<1>5. ASSUME NEW b \in Button PROVE PressInv(b)'
  <2>1. PressInv(b) /\ late \in Nat /\ late <= Latency
    BY <1>1 DEF Timely, TypeOK
  <2>2. Contact(b)' /\ EdgeNoted(b)' /\ Sampling(b)'
    BY <1>2, <2>1 DEF PressInv, Contact, EdgeNoted, Sampling, Resting
  <2>3. Holding(b)'
    <3> SUFFICES ASSUME edge = b PROVE Holding(b)'
      BY <1>2 DEF Holding
    <3>1. rest[b] \in Nat BY <1>1 DEF TypeOK
    <3>2. held[b] <= Settling + 2 * Latency + Debounce + (LongPress - timer') + late'
      BY <1>2, <1>3
    <3>3. finger[b] => held[b] >= Debounce + LongPress - timer'
      BY <1>2, <1>3
    <3>4. ~finger[b] => rest[b] <= Settling + late'
      BY <1>2, <1>3, <3>1
    <3> QED BY <1>2, <1>3, <3>2, <3>3, <3>4 DEF Holding
  <2>4. Undisturbed(b)'
    <3> SUFFICES ASSUME quiet[b] PROVE Undisturbed(b)'
      BY <1>2 DEF Undisturbed
    <3>1. Undisturbed(b) BY <2>1 DEF PressInv
    <3>2. edge = b BY <1>2, <3>1 DEF Undisturbed
    <3>3. credit[b] = 1 => \/ ~finger[b] /\ held[b] < Confirmed
                           \/ held[b] <= Latency + (Debounce - 0) + late
      BY <1>2, <3>1 DEF Undisturbed
    <3>4. held[b] <= Latency + (Debounce - 0) + late
             => held[b] <= 2 * Latency + Debounce + (LongPress - timer') + late'
      BY <1>2, <1>3, <2>1, <3>2
    <3> QED BY <1>2, <3>1, <3>2, <3>3, <3>4 DEF Undisturbed
  <2> QED BY <1>2, <2>1, <2>2, <2>3, <2>4 DEF PressInv
<1> QED BY <1>1, <1>4, <1>5 DEF PInv

(* A press that acts is the one the task is handling, and its contact has    *)
(* settled, or it is over.                                                   *)
LEMMA ActingKeeps ==
    ASSUME PInv, TypeOK', Timely', edge \in Button,
           ipc \in {"debounce", "hold"}, ipc' \in {"listen", "release"},
           ipc' = "listen" => noted' = {},
           ipc' = "release" => edge' = edge,
           credit[edge] = 1, finger[edge] => settle[edge] = 0,
           Used(edge),
           UNCHANGED <<finger, level, settle, held, rest, quiet>>
    PROVE  PInv'
<1>1. TypeOK /\ (\A b \in Button : PressInv(b))
  BY DEF PInv
<1>2. \A b \in Button : credit'[b] = IF b = edge THEN 0 ELSE credit[b]
  BY <1>1 DEF Used, TypeOK
<1>3. ASSUME NEW b \in Button PROVE PressInv(b)'
  <2>1. PressInv(b)
    BY <1>1
  <2>2. settle[b] \in Nat
    BY <1>1 DEF TypeOK
  <2>3. Contact(b)'
    BY <1>2, <2>1, <2>2 DEF PressInv, Contact, Resting
  <2>4. EdgeNoted(b)' /\ Sampling(b)' /\ Holding(b)'
    BY DEF EdgeNoted, Sampling, Holding
  <2>5. Undisturbed(b)'
    BY <1>2, <2>1 DEF PressInv, Undisturbed
  <2> QED BY <1>2, <2>1, <2>3, <2>4, <2>5 DEF PressInv
<1> QED BY <1>3 DEF PInv

LEMMA ConfirmDownKeeps == ASSUME PInv, ConfirmDown PROVE PInv'
<1>1. TypeOK' BY TypeStep DEF PInv, Next, Input
<1>2. /\ ipc = "debounce" /\ timer = 0 /\ edge = "down" /\ edge \in Button /\ level[edge] = "low"
      /\ ipc' = "release" /\ noted' = IfHigh(edge) /\ late' = 0 /\ Used(edge)
      /\ UNCHANGED <<finger, level, settle, edge, held, rest, quiet>>
  BY DEF ConfirmDown, Await, pins, Button
<1>3. credit[edge] = 1 /\ (finger[edge] => settle[edge] = 0) /\ noted' = {}
  BY <1>2, LowSample
<1>4. Timely'
  BY <1>2, <1>3 DEF Timely
<1> QED BY <1>1, <1>2, <1>3, <1>4, ActingKeeps

LEMMA ShortPressKeeps == ASSUME PInv, ShortPress PROVE PInv'
<1>1. TypeOK' BY TypeStep DEF PInv, Next, Input
<1>2. edge = "up" /\ edge \in Button /\ Holding(edge)
  BY DEF ShortPress, PInv, Timely, PressInv, Button
<1>3. /\ ipc = "hold" /\ ipc' = "listen" /\ noted' = {} /\ late' = 0 /\ Used(edge)
      /\ UNCHANGED <<finger, level, settle, held, rest, quiet>>
  BY <1>2 DEF ShortPress, Listen, Await, pins
<1>4. credit[edge] = 1 /\ (finger[edge] => settle[edge] = 0)
  BY <1>2, <1>3 DEF Holding
<1>5. Timely'
  BY <1>3 DEF Timely
<1> QED BY <1>1, <1>2, <1>3, <1>4, <1>5, ActingKeeps

LEMMA LongPressedKeeps == ASSUME PInv, LongPressed PROVE PInv'
<1>1. TypeOK' BY TypeStep DEF PInv, Next, Input
<1>2. edge = "up" /\ edge \in Button /\ Holding(edge)
  BY DEF LongPressed, PInv, Timely, PressInv, Button
<1>3. /\ ipc = "hold" /\ ipc' = "release" /\ noted' = IfHigh(edge) /\ late' = 0 /\ Used(edge)
      /\ UNCHANGED <<finger, level, settle, edge, held, rest, quiet>>
  BY <1>2 DEF LongPressed, Await, pins
<1>4. credit[edge] = 1 /\ (finger[edge] => settle[edge] = 0)
  BY <1>2, <1>3 DEF Holding
<1>5. Timely'
  BY <1>2, <1>3 DEF Timely, IfHigh
<1> QED BY <1>1, <1>2, <1>3, <1>4, <1>5, ActingKeeps

(* The task goes back to listening, or has not begun to.                     *)
LEMMA ListenKeeps ==
    ASSUME PInv, TypeOK', ipc \in {"release", "boot"},
           ipc' = "listen", noted' = {}, late' = 0,
           UNCHANGED <<finger, level, settle, held, rest, credit, quiet>>
    PROVE  PInv'
<1>1. Timely'
  BY DEF Timely
<1>2. ASSUME NEW b \in Button PROVE PressInv(b)'
  <2>1. PressInv(b)
    BY DEF PInv
  <2>2. Contact(b)' /\ EdgeNoted(b)' /\ Sampling(b)' /\ Holding(b)'
    BY <2>1 DEF PressInv, Contact, EdgeNoted, Sampling, Holding, Resting
  <2>3. Undisturbed(b)'
    BY <2>1 DEF PressInv, Undisturbed
  <2> QED BY <2>1, <2>2, <2>3 DEF PressInv
<1> QED BY <1>1, <1>2 DEF PInv

LEMMA RestartKeeps == ASSUME PInv, NEW cfg \in DisplayConfig, Restart(cfg) PROVE PInv'
<1>1. TypeOK /\ TypeOK'
  BY RestartType DEF PInv
<1>2. /\ ipc' = "boot" /\ noted' = {} /\ late' = 0 /\ \A b \in Button : ~quiet'[b]
      /\ UNCHANGED <<finger, level, settle, held, rest, credit>>
  BY DEF Restart, Await, pins
<1>3. Timely'
  BY <1>2 DEF Timely
<1>4. ASSUME NEW b \in Button PROVE PressInv(b)'
  <2>1. PressInv(b)
    BY DEF PInv
  <2> QED BY <1>2, <2>1 DEF PressInv, Contact, EdgeNoted, Sampling, Holding, Undisturbed, Resting
<1> QED BY <1>1, <1>3, <1>4 DEF PInv

(* The persist task touches nothing of this.                                 *)
LEMMA OthersKeep ==
    ASSUME PInv, TypeOK', UNCHANGED <<pins, input, history>>
    PROVE  PInv'
<1>1. Timely'
  BY DEF PInv, Timely, Ready, input
<1>2. ASSUME NEW b \in Button PROVE PressInv(b)'
  <2>1. PressInv(b)
    BY DEF PInv
  <2> QED BY <2>1 DEF PressInv, Contact, EdgeNoted, Sampling, Holding, Undisturbed, Resting,
                      pins, input, history
<1> QED BY <1>1, <1>2 DEF PInv
LEMMA PressStep == PInv /\ [Next]_vars => PInv'
<1> SUFFICES ASSUME PInv, [Next]_vars PROVE PInv'
  OBVIOUS
<1>1. TypeOK'
  BY TypeStep DEF PInv
<1>2. CASE Tick
  BY <1>2, TickKeeps
<1>3. CASE \E b \in Button : Press(b) \/ Release(b) \/ Chatter(b)
  BY <1>3, PressKeeps, ReleaseKeeps, ChatterKeeps
<1>4. CASE Input
  <2>1. CASE Released
    <3>1. /\ ipc = "release" /\ ipc' = "listen" /\ noted' = {} /\ late' = 0
          /\ UNCHANGED <<finger, level, settle, held, rest, credit, quiet>>
      BY <2>1 DEF Released, Listen, Await, pins, history
    <3> QED BY <1>1, <3>1, ListenKeeps
  <2> QED BY <1>4, <2>1, EdgeKeeps, DiscardKeeps, ConfirmUpKeeps, ConfirmDownKeeps,
             ShortPressKeeps, LongPressedKeeps DEF Input
<1>5. CASE Save \/ SaveFails \/ UNCHANGED vars
  <2>1. UNCHANGED <<pins, input, history>>
    BY <1>5 DEF Save, SaveFails, vars
  <2> QED BY <1>1, <2>1, OthersKeep
<1>6. CASE Reset \/ ResetUnreadable
  <2>1. PICK cfg : cfg \in DisplayConfig /\ Restart(cfg)
    BY <1>6, DefaultIsConfig, ItemsRoundTrip DEF PInv, TypeOK, Reset, ResetUnreadable
  <2> QED BY <2>1, RestartKeeps
<1>7. CASE Spawn
  <2>1. /\ ipc = "boot" /\ ipc' = "listen" /\ noted' = {} /\ late' = 0
        /\ UNCHANGED <<finger, level, settle, held, rest, credit, quiet>>
    BY <1>7 DEF Spawn, Listen, Await, pins, history
  <2> QED BY <1>1, <2>1, ListenKeeps
<1> QED BY <1>2, <1>3, <1>4, <1>5, <1>6, <1>7 DEF Next

LEMMA PressStart == Init => PInv
<1> SUFFICES ASSUME Init PROVE PInv
  OBVIOUS
<1>1. TypeOK
  BY DefaultIsConfig DEF Init, TypeOK, MapMode
<1>2. Timely
  BY DEF Init, Timely
<1>3. ASSUME NEW b \in Button PROVE PressInv(b)
  BY DEF Init, PressInv, Contact, EdgeNoted, Sampling, Holding, Undisturbed, Resting
<1> QED BY <1>1, <1>2, <1>3 DEF PInv

(* However long the debounce and long-press times, and however late the      *)
(* input task within the timing assumption: a press acts at most once and    *)
(* nothing acts without a press, neither the chatter of a contact nor a      *)
(* button that was down during a reset.                                      *)
THEOREM PressesActOnce == Spec => []ActsOnce
<1>1. PInv => ActsOnce
  BY DEF PInv, PressInv, ActsOnce
<1> QED
  BY <1>1, PressStart, PressStep, PTL DEF Spec

(* For the same times: a press of a button that has the buttons for itself   *)
(* and lasts long enough to be confirmed is not ignored.                     *)
THEOREM PressesAct == Spec => []PressActs
<1>1. PInv => PressActs
  <2> SUFFICES ASSUME PInv, NEW b \in Button, quiet[b], held[b] >= Confirmed,
                      held[b] = Longest \/ (~finger[b] /\ rest[b] = Rest)
               PROVE  credit[b] = 0
    BY DEF PressActs
  <2>1. /\ PressInv(b) /\ Timely
        /\ timer \in Nat /\ late \in Nat /\ late <= Latency /\ held[b] \in Nat /\ rest[b] \in Nat
    BY DEF PInv, TypeOK, Timely
  <2> SUFFICES ASSUME credit[b] = 1 PROVE FALSE
    BY <2>1 DEF PressInv
  <2>2. CASE ~finger[b] /\ held[b] < Confirmed
    BY <2>1, <2>2 DEF Confirmed
  <2>3. CASE ipc = "listen" /\ b \in noted /\ held[b] <= late
    BY <2>1, <2>3 DEF Confirmed
  <2>4. CASE ipc = "debounce" /\ held[b] <= Latency + (Debounce - timer) + late
    BY <2>1, <2>4 DEF Confirmed
  <2>5. CASE ipc = "hold" /\ held[b] <= 2 * Latency + Debounce + (LongPress - timer) + late
    <3>1. held[b] <= 3 * Latency + Debounce + LongPress
      BY <2>1, <2>5
    <3>2. CASE held[b] = Longest
      BY <3>1, <3>2 DEF Longest
    <3>3. CASE ~finger[b] /\ rest[b] = Rest
      <4>1. edge = b BY <2>1, <2>5 DEF PressInv, Undisturbed
      <4>2. rest[b] <= Settling + late BY <2>1, <2>5, <3>3, <4>1 DEF PressInv, Holding
      <4> QED BY <2>1, <3>3, <4>2
    <3> QED BY <3>2, <3>3
  <2> QED BY <2>1, <2>2, <2>3, <2>4, <2>5 DEF PressInv, Undisturbed
<1> QED
  BY <1>1, PressStart, PressStep, PTL DEF Spec

(* For the same times: only a press of UP that lasted the debounce and       *)
(* long-press times toggles the map, and only one that did not last much     *)
(* longer changes the visualization.                                         *)
THEOREM LengthIsDecisive == Spec => LengthDecides
<1> DEFINE Decided == /\ mode' # mode => held["up"] >= Debounce + LongPress
                      /\ config'.viz # config.viz => held["up"] < Longest
<1>1. PInv /\ [Next]_vars => [ipc' # "boot" => Decided]_vars
  <2> SUFFICES ASSUME PInv, Next, ipc' # "boot" PROVE Decided
    OBVIOUS
  <2>1. /\ "up" \in Button /\ timer \in Nat /\ late \in Nat /\ late <= Latency
        /\ held["up"] \in Nat /\ settle["up"] \in Nat /\ config \in DisplayConfig
    BY DEF PInv, TypeOK, Timely, Button
  <2>2. CASE ShortPress
    <3>1. ipc = "hold" /\ edge = "up" /\ mode' = mode BY <2>2 DEF ShortPress, PInv, Timely
    <3>2. Holding("up") BY <2>1 DEF PInv, PressInv
    <3>3. held["up"] <= Settling + 2 * Latency + Debounce + (LongPress - timer) + late
      BY <3>1, <3>2 DEF Holding
    <3>4. held["up"] < Longest BY <2>1, <3>3 DEF Longest
    <3> QED BY <3>1, <3>4
  <2>3. CASE LongPressed
    <3>1. ipc = "hold" /\ edge = "up" /\ noted = {} /\ timer = 0 /\ config' = config
      BY <2>3 DEF LongPressed, PInv, Timely
    <3>2. Holding("up") /\ Contact("up") BY <2>1 DEF PInv, PressInv
    <3>3. finger["up"] BY <2>1, <3>1, <3>2 DEF Holding, Contact, Resting
    <3>4. held["up"] >= Debounce + LongPress - 0 BY <3>1, <3>2, <3>3 DEF Holding
    <3> QED BY <2>1, <3>1, <3>4
  <2>4. CASE ConfirmDown
    <3>1. mode' = mode /\ config'.viz = config.viz
      BY <2>1, <2>4 DEF ConfirmDown, UpdateConfig, DisplayConfig
    <3> QED BY <3>1
  <2>5. CASE Reset \/ ResetUnreadable
    BY <2>5 DEF Reset, ResetUnreadable, Restart, Await
  <2>6. ASSUME UNCHANGED <<config, mode>> PROVE Decided
    BY <2>6
  <2>7. CASE \/ Tick \/ (\E b \in Button : Press(b) \/ Release(b) \/ Chatter(b))
             \/ Save \/ SaveFails \/ Spawn
    BY <2>6, <2>7 DEF Tick, Press, Release, Chatter, Save, SaveFails, Spawn
  <2>8. CASE Edge \/ Discard \/ ConfirmUp \/ Released
    BY <2>6, <2>8 DEF Edge, Discard, ConfirmUp, Released
  <2> QED BY <2>2, <2>3, <2>4, <2>5, <2>7, <2>8 DEF Next, Input
<1> QED
  BY <1>1, PressStart, PressStep, PTL DEF Spec, LengthDecides
================================================================================
