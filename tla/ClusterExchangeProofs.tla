------------------------- MODULE ClusterExchangeProofs -------------------------
(* What the cluster exchange guarantees for any bound on the registry's      *)
(* changes and any set of tilts, alone and in the panel.  Everything rests   *)
(* on one inductive invariant: where each buffer is, and what it holds there.*)
EXTENDS Lineage, TLAPS

(* No two hands hold the same buffer, and some hand holds each.              *)
Ownership ==
    /\ \A t \in Producers : held[t] # None => held[t] \notin {free, fresh, clusters, old}
    /\ \A t, u \in Producers : held[t] = held[u] /\ held[t] # None => t = u
    /\ free # None => free \notin {fresh, clusters, old}
    /\ fresh # None => fresh \notin {clusters, old}
    /\ old # clusters
    /\ \A b \in Buffers :
           b \in {free, fresh, clusters, old} \/ \E t \in Producers : held[t] = b

(* Who holds a buffer follows from where the tasks stand.                    *)
Control ==
    /\ dpc = "recycle" <=> old # None
    /\ \A t \in Producers : pc[t] \in {"clear", "fill", "publish"} => held[t] # None
    /\ \A t \in Producers : pc[t] \in {"idle", "fetching", "take"} => held[t] = None

(* Only a buffer that is being filled is torn; the display knows how its     *)
(* buffer is turned, and whatever is on its way to it is not turned at all.  *)
Contents ==
    /\ \A b \in Buffers :
           snapshot[b].whole \/ \E t \in Producers : held[t] = b /\ pc[t] = "fill"
    /\ snapshot[clusters].turn = IF dpc = "recycle" THEN "XUp" ELSE direction
    /\ fresh # None => snapshot[fresh].turn = "XUp"
    /\ \A t \in Producers : pc[t] = "publish" => snapshot[held[t]].turn = "XUp"

(* The closer a snapshot is to the panel, the older it is.                   *)
Ages ==
    /\ \A b \in Buffers : snapshot[b].version <= version
    /\ drawn.version <= snapshot[clusters].version
    /\ fresh # None => snapshot[clusters].version <= snapshot[fresh].version
    /\ \A t \in Producers :
           pc[t] = "publish" => snapshot[clusters].version <= snapshot[held[t]].version

IInv == TypeOK /\ Ownership /\ Control /\ Contents /\ Ages

USE BuffersAssumption, ReadingsAssumption, MaxVersionAssumption

(* Whatever the accelerometer reads, there is a direction.                   *)
LEMMA TiltIsDirection ==
    ASSUME NEW sample \in Reading, NEW before \in Direction
    PROVE  Tilted(sample, before) \in Direction
  BY DEF Tilted, Direction

(* Rotating by the quarter turns between two directions takes one to the     *)
(* other.                                                                    *)
LEMMA TurnReaches ==
    ASSUME NEW from \in Direction, NEW to \in Direction
    PROVE  Turned(from, (4 + Quarters(to) - Quarters(from)) % 4) = to
<1> DEFINE n == (4 + Quarters(to) - Quarters(from)) % 4
<1>1. \A d \in Direction : Quarters(d) \in 0 .. 3
  BY DEF Direction, Quarters
<1>2. \A d, e \in Direction : Quarters(d) = Quarters(e) => d = e
  BY DEF Direction, Quarters
<1>3. Quarters(to) = (Quarters(from) + n) % 4
  BY <1>1
<1>4. \A d \in Direction : Quarters(d) = (Quarters(from) + n) % 4 => d = to
  BY <1>2, <1>3
<1> HIDE DEF n
<1> QED
  BY <1>3, <1>4 DEF Turned, n

LEMMA TurnedType ==
    ASSUME NEW s \in Snapshot, NEW from \in Direction, NEW to \in Direction, s.turn = from
    PROVE  Rotated(s, from, to) = [s EXCEPT !.turn = to]
  BY TurnReaches DEF Rotated, Snapshot

LEMMA InitInv == Init => IInv
<1> SUFFICES ASSUME Init PROVE IInv
  OBVIOUS
<1> USE DEF Init
<1>1. Blank \in Snapshot /\ Content(Blank) \in [version : 0 .. MaxVersion, mode : MapMode]
  BY DEF Blank, Snapshot, Content, MapMode, Direction
<1>2. TypeOK
  <2>1. snapshot \in [Buffers -> Snapshot]
    BY <1>1
  <2>2. drawn \in [version : 0 .. MaxVersion, mode : MapMode]
    BY <1>1
  <2>3. held \in [Producers -> Buffers \cup {None}]
    OBVIOUS
  <2>4. free \in Buffers /\ clusters \in Buffers
    BY DEF Buffers
  <2>5. pc \in [Producers -> {"idle", "fetching", "take", "lock", "clear", "fill", "publish"}]
    OBVIOUS
  <2>6. version \in 0 .. MaxVersion /\ mode \in MapMode /\ tilt \in Direction
    BY DEF MapMode, Direction
  <2>7. direction \in Direction
    BY DEF Direction
  <2> HIDE DEF Init
  <2>8. old = None /\ fresh = None /\ changed = FALSE /\ due = FALSE /\ dpc = "take"
    BY DEF Init
  <2> QED
    BY <2>1, <2>2, <2>3, <2>4, <2>5, <2>6, <2>7, <2>8 DEF TypeOK
<1>3. Ownership
  BY DEF Ownership, Buffers
<1>4. Control
  BY DEF Control
<1>5. Contents
  BY DEF Contents, Buffers, Blank
<1>6. Ages
  BY DEF Ages, Buffers, Blank, Content
<1> QED
  BY <1>2, <1>3, <1>4, <1>5, <1>6 DEF IInv

--------------------------------------------------------------------------------
(* Type correctness is inductive once it is known who holds a buffer.        *)
LEMMA TypeStep == IInv /\ [Next]_vars => TypeOK'
<1> SUFFICES ASSUME IInv, [Next]_vars PROVE TypeOK'
  OBVIOUS
<1> USE DEF IInv, TypeOK, Control, core0, core1, Goto, TryTakeFree, Change, Producers
<1>1. CASE FeedReceive
  BY <1>1 DEF FeedReceive
<1>2. CASE FeedUpsert
  BY <1>2 DEF FeedUpsert
<1>3. CASE NsRequest
  BY <1>3 DEF NsRequest
<1>4. CASE NsEnrich
  BY <1>4 DEF NsEnrich
<1>5. CASE NsPublish
  BY <1>5 DEF NsPublish
<1>6. CASE MapWake
  BY <1>6 DEF MapWake, MapAuto, MapManual, OtherMode, MapMode
<1>7. CASE MapRepublish
  BY <1>7 DEF MapRepublish
<1>8. ASSUME NEW t \in Producers, Clear(t) PROVE TypeOK'
  <2>1. held[t] \in Buffers
    BY <1>8 DEF Clear
  <2>2. [snapshot[held[t]] EXCEPT !.whole = FALSE] \in Snapshot
    BY <2>1 DEF Snapshot
  <2> QED
    BY <1>8, <2>2 DEF Clear
<1>9. ASSUME NEW t \in Producers, Fill(t) PROVE TypeOK'
  <2>1. [version |-> version, mode |-> mode, turn |-> "XUp", whole |-> TRUE] \in Snapshot
    BY DEF Snapshot, Direction
  <2> QED
    BY <1>9, <2>1 DEF Fill
<1>10. ASSUME NEW t \in Producers, Publish(t) PROVE TypeOK'
  BY <1>10 DEF Publish
<1>11. CASE Toggle
  BY <1>11 DEF Toggle, OtherMode, MapMode
<1>12. CASE Deadline
  BY <1>12 DEF Deadline
<1>13. CASE Tilt
  <2>1. \A sample \in Readings : Tilted(sample, tilt) \in Direction
    BY TiltIsDirection
  <2> QED
    BY <1>13, <2>1 DEF Tilt
<1>14. CASE TakeFresh
  BY <1>14 DEF TakeFresh
<1>15. CASE NoFresh
  BY <1>15 DEF NoFresh
<1>16. CASE Recycle
  BY <1>16 DEF Recycle, Direction
<1>17. CASE Rotate
  <2>1. snapshot[clusters] \in Snapshot /\ snapshot[clusters].turn = direction
    BY <1>17 DEF Rotate, Contents
  <2>2. Rotated(snapshot[clusters], direction, tilt) = [snapshot[clusters] EXCEPT !.turn = tilt]
    BY <2>1, TurnedType
  <2>3. Rotated(snapshot[clusters], direction, tilt) \in Snapshot
    BY <2>1, <2>2 DEF Snapshot
  <2> QED
    BY <1>17, <2>3 DEF Rotate
<1>18. CASE Draw
  <2>1. Content(snapshot[clusters]) \in [version : 0 .. MaxVersion, mode : MapMode]
    BY DEF Content, Snapshot
  <2> QED
    BY <1>18, <2>1 DEF Draw
<1>19. CASE UNCHANGED vars
  BY <1>19 DEF vars
<1> QED
  BY <1>1, <1>2, <1>3, <1>4, <1>5, <1>6, <1>7, <1>8, <1>9, <1>10, <1>11, <1>12, <1>13,
     <1>14, <1>15, <1>16, <1>17, <1>18, <1>19 DEF Next, Core0Task, Refill, DisplayTask
(* Where the buffers are.  A Signal is never overwritten: the writer and the *)
(* display hold the two buffers there are.                                   *)
LEMMA OwnershipStep == IInv /\ [Next]_vars => Ownership'
<1> SUFFICES ASSUME IInv, [Next]_vars PROVE Ownership'
  OBVIOUS
<1> USE DEF IInv, TypeOK, Control, core0, core1, Goto, TryTakeFree, Change, Producers, Buffers, Ownership
<1>1. CASE FeedReceive
  BY <1>1 DEF FeedReceive
<1>2. CASE FeedUpsert
  BY <1>2 DEF FeedUpsert
<1>3. CASE NsRequest
  BY <1>3 DEF NsRequest
<1>4. CASE NsEnrich
  BY <1>4 DEF NsEnrich
<1>5. CASE NsPublish
  BY <1>5 DEF NsPublish
<1>6. CASE MapWake
  BY <1>6 DEF MapWake, MapAuto, MapManual
<1>7. CASE MapRepublish
  BY <1>7 DEF MapRepublish
<1>8. ASSUME NEW t \in Producers, Clear(t) PROVE Ownership'
  BY <1>8 DEF Clear
<1>9. ASSUME NEW t \in Producers, Fill(t) PROVE Ownership'
  BY <1>9 DEF Fill
<1>10. ASSUME NEW t \in Producers, Publish(t) PROVE Ownership'
  BY <1>10 DEF Publish
<1>11. CASE Toggle
  BY <1>11 DEF Toggle
<1>12. CASE Deadline
  BY <1>12 DEF Deadline
<1>13. CASE Tilt
  BY <1>13 DEF Tilt
<1>14. CASE TakeFresh
  BY <1>14 DEF TakeFresh
<1>15. CASE NoFresh
  BY <1>15 DEF NoFresh
<1>16. CASE Recycle
  BY <1>16 DEF Recycle
<1>17. CASE Rotate
  BY <1>17 DEF Rotate
<1>18. CASE Draw
  BY <1>18 DEF Draw
<1>19. CASE UNCHANGED vars
  BY <1>19 DEF vars
<1> QED
  BY <1>1, <1>2, <1>3, <1>4, <1>5, <1>6, <1>7, <1>8, <1>9, <1>10, <1>11, <1>12, <1>13, <1>14, <1>15, <1>16, <1>17, <1>18, <1>19 DEF Next, Core0Task, Refill, DisplayTask

LEMMA ControlStep == IInv /\ [Next]_vars => Control'
<1> SUFFICES ASSUME IInv, [Next]_vars PROVE Control'
  OBVIOUS
<1> USE DEF IInv, TypeOK, Control, core0, core1, Goto, TryTakeFree, Change, Producers, Buffers
<1>1. CASE FeedReceive
  BY <1>1 DEF FeedReceive
<1>2. CASE FeedUpsert
  BY <1>2 DEF FeedUpsert
<1>3. CASE NsRequest
  BY <1>3 DEF NsRequest
<1>4. CASE NsEnrich
  BY <1>4 DEF NsEnrich
<1>5. CASE NsPublish
  BY <1>5 DEF NsPublish
<1>6. CASE MapWake
  BY <1>6 DEF MapWake, MapAuto, MapManual
<1>7. CASE MapRepublish
  BY <1>7 DEF MapRepublish
<1>8. ASSUME NEW t \in Producers, Clear(t) PROVE Control'
  BY <1>8 DEF Clear
<1>9. ASSUME NEW t \in Producers, Fill(t) PROVE Control'
  BY <1>9 DEF Fill
<1>10. ASSUME NEW t \in Producers, Publish(t) PROVE Control'
  BY <1>10 DEF Publish
<1>11. CASE Toggle
  BY <1>11 DEF Toggle
<1>12. CASE Deadline
  BY <1>12 DEF Deadline
<1>13. CASE Tilt
  BY <1>13 DEF Tilt
<1>14. CASE TakeFresh
  BY <1>14 DEF TakeFresh
<1>15. CASE NoFresh
  BY <1>15 DEF NoFresh
<1>16. CASE Recycle
  BY <1>16 DEF Recycle
<1>17. CASE Rotate
  BY <1>17 DEF Rotate
<1>18. CASE Draw
  BY <1>18 DEF Draw
<1>19. CASE UNCHANGED vars
  BY <1>19 DEF vars
<1> QED
  BY <1>1, <1>2, <1>3, <1>4, <1>5, <1>6, <1>7, <1>8, <1>9, <1>10, <1>11, <1>12, <1>13, <1>14, <1>15, <1>16, <1>17, <1>18, <1>19 DEF Next, Core0Task, Refill, DisplayTask

(* What the buffers hold.                                                    *)
LEMMA ContentsStep == IInv /\ [Next]_vars => Contents'
<1> SUFFICES ASSUME IInv, [Next]_vars PROVE Contents'
  OBVIOUS
<1> USE DEF IInv, TypeOK, Control, core0, core1, Goto, TryTakeFree, Change, Producers, Buffers, Ownership, Contents
<1>1. CASE FeedReceive
  BY <1>1 DEF FeedReceive
<1>2. CASE FeedUpsert
  BY <1>2 DEF FeedUpsert
<1>3. CASE NsRequest
  BY <1>3 DEF NsRequest
<1>4. CASE NsEnrich
  BY <1>4 DEF NsEnrich
<1>5. CASE NsPublish
  BY <1>5 DEF NsPublish
<1>6. CASE MapWake
  BY <1>6 DEF MapWake, MapAuto, MapManual
<1>7. CASE MapRepublish
  BY <1>7 DEF MapRepublish
<1>8. ASSUME NEW t \in Producers, Clear(t) PROVE Contents'
  BY <1>8 DEF Clear
<1>9. ASSUME NEW t \in Producers, Fill(t) PROVE Contents'
  BY <1>9 DEF Fill
<1>10. ASSUME NEW t \in Producers, Publish(t) PROVE Contents'
  BY <1>10 DEF Publish
<1>11. CASE Toggle
  BY <1>11 DEF Toggle
<1>12. CASE Deadline
  BY <1>12 DEF Deadline
<1>13. CASE Tilt
  BY <1>13 DEF Tilt
<1>14. CASE TakeFresh
  BY <1>14 DEF TakeFresh
<1>15. CASE NoFresh
  BY <1>15 DEF NoFresh
<1>16. CASE Recycle
  BY <1>16 DEF Recycle
<1>17. CASE Rotate
  <2>1. snapshot[clusters] \in Snapshot /\ snapshot[clusters].turn = direction
    BY <1>17 DEF Rotate
  <2>2. Rotated(snapshot[clusters], direction, tilt) = [snapshot[clusters] EXCEPT !.turn = tilt]
    BY <2>1, TurnedType
  <2>3. snapshot' = [snapshot EXCEPT ![clusters] = [snapshot[clusters] EXCEPT !.turn = tilt]]
    BY <1>17, <2>2 DEF Rotate
  <2> QED
    BY <1>17, <2>1, <2>3 DEF Rotate, Snapshot
<1>18. CASE Draw
  BY <1>18 DEF Draw
<1>19. CASE UNCHANGED vars
  BY <1>19 DEF vars
<1> QED
  BY <1>1, <1>2, <1>3, <1>4, <1>5, <1>6, <1>7, <1>8, <1>9, <1>10, <1>11, <1>12, <1>13, <1>14, <1>15, <1>16, <1>17, <1>18, <1>19 DEF Next, Core0Task, Refill, DisplayTask

LEMMA AgesStep == IInv /\ [Next]_vars => Ages'
<1> SUFFICES ASSUME IInv, [Next]_vars PROVE Ages'
  OBVIOUS
<1> USE DEF IInv, TypeOK, Control, core0, core1, Goto, TryTakeFree, Change, Producers, Buffers, Ownership, Ages
<1>1. CASE FeedReceive
  BY <1>1 DEF FeedReceive
<1>2. CASE FeedUpsert
  BY <1>2 DEF FeedUpsert, Snapshot
<1>3. CASE NsRequest
  BY <1>3 DEF NsRequest
<1>4. CASE NsEnrich
  BY <1>4 DEF NsEnrich, Snapshot
<1>5. CASE NsPublish
  BY <1>5 DEF NsPublish
<1>6. CASE MapWake
  BY <1>6 DEF MapWake, MapAuto, MapManual
<1>7. CASE MapRepublish
  BY <1>7 DEF MapRepublish
<1>8. ASSUME NEW t \in Producers, Clear(t) PROVE Ages'
  BY <1>8 DEF Clear
<1>9. ASSUME NEW t \in Producers, Fill(t) PROVE Ages'
  BY <1>9 DEF Fill
<1>10. ASSUME NEW t \in Producers, Publish(t) PROVE Ages'
  BY <1>10 DEF Publish
<1>11. CASE Toggle
  BY <1>11 DEF Toggle
<1>12. CASE Deadline
  BY <1>12 DEF Deadline
<1>13. CASE Tilt
  BY <1>13 DEF Tilt
<1>14. CASE TakeFresh
  BY <1>14 DEF TakeFresh, Snapshot
<1>15. CASE NoFresh
  BY <1>15 DEF NoFresh
<1>16. CASE Recycle
  BY <1>16 DEF Recycle
<1>17. CASE Rotate
  <2>1. snapshot[clusters] \in Snapshot /\ snapshot[clusters].turn = direction
    BY <1>17 DEF Rotate, Contents
  <2>2. Rotated(snapshot[clusters], direction, tilt) = [snapshot[clusters] EXCEPT !.turn = tilt]
    BY <2>1, TurnedType
  <2>3. snapshot' = [snapshot EXCEPT ![clusters] = [snapshot[clusters] EXCEPT !.turn = tilt]]
    BY <1>17, <2>2 DEF Rotate
  <2> QED
    BY <1>17, <2>1, <2>3 DEF Rotate, Snapshot
<1>18. CASE Draw
  BY <1>18 DEF Draw, Snapshot, Content
<1>19. CASE UNCHANGED vars
  BY <1>19 DEF vars
<1> QED
  BY <1>1, <1>2, <1>3, <1>4, <1>5, <1>6, <1>7, <1>8, <1>9, <1>10, <1>11, <1>12, <1>13, <1>14, <1>15, <1>16, <1>17, <1>18, <1>19 DEF Next, Core0Task, Refill, DisplayTask

--------------------------------------------------------------------------------
LEMMA StepInv == IInv /\ [Next]_vars => IInv'
  BY TypeStep, OwnershipStep, ControlStep, ContentsStep, AgesStep DEF IInv

LEMMA InductiveInvariant == Spec => []IInv
  BY InitInv, StepInv, PTL DEF Spec

(* Every variable keeps its type: no Signal, buffer slot or snapshot ever    *)
(* holds something the code could not have put there.                        *)
THEOREM TypeCorrect == Spec => []TypeOK
<1>1. IInv => TypeOK
  BY DEF IInv
<1> QED
  BY InductiveInvariant, <1>1, PTL

(* No cluster buffer is ever in two hands and none is ever lost, whatever    *)
(* the tasks of the two cores do in between (the Signals of display.rs).     *)
THEOREM BuffersHaveOneOwner == Spec => []OneOwner
<1>1. IInv => OneOwner
  <2> SUFFICES ASSUME IInv, NEW b \in Buffers
               PROVE  \E o \in Owners : Owned(o) = b /\ \A p \in Owners : Owned(p) = b => p = o
    BY DEF OneOwner
  <2>1. /\ Owned("FREE") = free /\ Owned("FRESH") = fresh
        /\ Owned("display") = clusters /\ Owned("recycling") = old
        /\ \A t \in Producers : Owned(t) = held[t]
    BY DEF Owned, Producers
  <2>2. b # None
    OBVIOUS
  <2>3. \E o \in Owners : Owned(o) = b
    BY <2>1 DEF IInv, Ownership, Owners
  <2>4. \A o, p \in Owners : Owned(o) = b /\ Owned(p) = b => o = p
    BY <2>1, <2>2 DEF IInv, TypeOK, Ownership, Owners
  <2> QED
    BY <2>3, <2>4
<1> QED
  BY InductiveInvariant, <1>1, PTL

(* The display never draws a snapshot that is being rebuilt.                 *)
THEOREM DrawnIsWhole == Spec => []DrawsWhole
<1>1. IInv => DrawsWhole
  BY DEF IInv, TypeOK, Ownership, Contents, DrawsWhole
<1> QED
  BY InductiveInvariant, <1>1, PTL

(* What the display draws is turned the way the panel is held, whatever the  *)
(* sequence of tilts and swaps before.                                       *)
THEOREM DrawnIsUpright == Spec => []DrawsUpright
<1>1. IInv => DrawsUpright
  BY DEF IInv, Contents, DrawsUpright
<1> QED
  BY InductiveInvariant, <1>1, PTL

(* The panel never shows an older registry after a newer one.                *)
THEOREM PanelNeverGoesBack == Spec => NeverGoesBack
<1>1. IInv /\ [Next]_vars => [drawn'.version >= drawn.version]_vars
  <2> SUFFICES ASSUME IInv, [Next]_vars PROVE drawn'.version >= drawn.version
    OBVIOUS
  <2>1. drawn.version \in Nat /\ snapshot[clusters].version \in Nat
    BY DEF IInv, TypeOK, Snapshot
  <2>2. CASE Draw
    BY <2>1, <2>2 DEF Draw, Content, IInv, Ages
  <2>3. CASE drawn' = drawn
    BY <2>1, <2>3
  <2> QED
    BY <2>2, <2>3 DEF Next, Core0Task, Refill, DisplayTask, FeedReceive, FeedUpsert, NsRequest, NsEnrich,
       NsPublish, MapWake, MapRepublish, Clear, Fill, Publish, Toggle, Deadline, Tilt,
       TakeFresh, NoFresh, Recycle, Rotate, vars, core1
<1> QED
  BY InductiveInvariant, <1>1, PTL DEF NeverGoesBack, Spec

--------------------------------------------------------------------------------
(* The refinement of Handoff: the box is FRESH_CLUSTERS, the reader's item   *)
(* what the display works on.                                                *)
Box       == IF fresh = None THEN None ELSE Content(snapshot[fresh])
OnDisplay == Content(snapshot[clusters])

LEMMA ContentType ==
    ASSUME NEW s \in Snapshot
    PROVE  /\ Content(s) \in [version : 0 .. MaxVersion, mode : MapMode]
           /\ Content(s) # None
  BY NoneAssumption DEF Content, Snapshot

(* What a task does to the buffer it holds cannot be seen on the other side. *)
LEMMA HeldIsHidden ==
    ASSUME IInv, NEW t \in Producers, held[t] # None, NEW s,
           UNCHANGED <<fresh, clusters>>, snapshot' = [snapshot EXCEPT ![held[t]] = s]
    PROVE  UNCHANGED <<Box, OnDisplay>>
<1>1. held[t] # clusters /\ held[t] # fresh
  BY DEF IInv, Ownership
<1>2. snapshot'[clusters] = snapshot[clusters]
  BY <1>1 DEF IInv, TypeOK
<1>3. fresh # None => snapshot'[fresh] = snapshot[fresh]
  BY <1>1 DEF IInv, TypeOK
<1> QED
  BY <1>2, <1>3 DEF Box, OnDisplay

LEMMA HandoffStep == IInv /\ [Next]_vars => [HandedOver!Next]_<<Box, OnDisplay>>
<1> SUFFICES ASSUME IInv, [Next]_vars
             PROVE  HandedOver!Next \/ UNCHANGED <<Box, OnDisplay>>
  OBVIOUS
<1>1. CASE UNCHANGED <<fresh, clusters, snapshot>>
  BY <1>1 DEF Box, OnDisplay
<1>2. ASSUME NEW t \in Producers, Clear(t) PROVE UNCHANGED <<Box, OnDisplay>>
  <2>1. held[t] # None
    BY <1>2 DEF Clear, IInv, Control
  <2>2. snapshot' = [snapshot EXCEPT ![held[t]] = [snapshot[held[t]] EXCEPT !.whole = FALSE]]
    BY <1>2 DEF Clear
  <2> QED
    BY <1>2, <2>1, <2>2, HeldIsHidden DEF Clear, core1
<1>3. ASSUME NEW t \in Producers, Fill(t) PROVE UNCHANGED <<Box, OnDisplay>>
  <2>1. held[t] # None
    BY <1>3 DEF Fill, IInv, Control
  <2> QED
    BY <1>3, <2>1, HeldIsHidden DEF Fill, core1
<1>4. ASSUME NEW t \in Producers, Publish(t) PROVE HandedOver!Put
  <2>1. held[t] \in Buffers /\ held[t] # clusters
    BY <1>4 DEF Publish, IInv, TypeOK, Control, Ownership
  <2>2. fresh = None
    BY <2>1 DEF IInv, TypeOK, Ownership, Buffers
  <2>3. snapshot[held[t]] \in Snapshot
    BY <2>1 DEF IInv, TypeOK
  <2>4. fresh' = held[t] /\ UNCHANGED <<clusters, snapshot>>
    BY <1>4 DEF Publish, core1
  <2>5. Box = None /\ Box' = Content(snapshot[held[t]]) /\ UNCHANGED OnDisplay
    BY <2>1, <2>2, <2>4 DEF Box, OnDisplay
  <2> QED
    BY <2>3, <2>5, ContentType DEF HandedOver!Put, Box, OnDisplay
<1>5. CASE TakeFresh
  <2>1. fresh \in Buffers /\ snapshot[fresh] \in Snapshot
    BY <1>5 DEF TakeFresh, IInv, TypeOK
  <2>2. fresh' = None /\ clusters' = fresh /\ UNCHANGED snapshot
    BY <1>5 DEF TakeFresh
  <2>3. Box # None /\ Box' = None /\ OnDisplay' = Box
    BY <2>1, <2>2, ContentType DEF Box, OnDisplay
  <2> QED
    BY <2>3 DEF HandedOver!Next, HandedOver!Take, Box, OnDisplay
<1>6. CASE Rotate
  <2>1. UNCHANGED <<fresh, clusters>> /\ fresh # clusters
    BY <1>6 DEF Rotate, IInv, TypeOK, Ownership
  <2>2. snapshot[clusters] \in Snapshot /\ snapshot[clusters].turn = direction
    BY <1>6 DEF Rotate, IInv, TypeOK, Contents
  <2>3. Rotated(snapshot[clusters], direction, tilt) = [snapshot[clusters] EXCEPT !.turn = tilt]
    BY <2>2, TurnedType DEF IInv, TypeOK
  <2>4. snapshot' = [snapshot EXCEPT ![clusters] = [snapshot[clusters] EXCEPT !.turn = tilt]]
    BY <1>6, <2>3 DEF Rotate
  <2>5. Content(snapshot'[clusters]) = Content(snapshot[clusters])
    BY <2>2, <2>4 DEF Content, Snapshot, IInv, TypeOK
  <2>6. fresh # None => snapshot'[fresh] = snapshot[fresh]
    BY <2>1, <2>4 DEF IInv, TypeOK
  <2> QED
    BY <2>1, <2>5, <2>6 DEF Box, OnDisplay
<1> QED
  <2>1. \/ \E t \in Producers : Clear(t) \/ Fill(t) \/ Publish(t)
        \/ TakeFresh
        \/ Rotate
        \/ UNCHANGED <<fresh, clusters, snapshot>>
    BY DEF Next, Core0Task, Refill, DisplayTask, FeedReceive, FeedUpsert, NsRequest, NsEnrich, NsPublish,
       MapWake, MapRepublish, Toggle, Deadline, Tilt, NoFresh, Recycle, Draw, vars, core1
  <2> QED
    BY <1>1, <1>2, <1>3, <1>4, <1>5, <1>6, <2>1 DEF HandedOver!Next

(* The exchange implements the one-place box: every snapshot that is         *)
(* published is taken, once, as it was published (display.rs, FRESH and FREE *)
(* Signals).                                                                 *)
THEOREM ImplementsHandoff == Spec => HandsOver
<1>1. Init => HandedOver!Init
  BY DEF Init, HandedOver!Init, Buffers
<1>2. IInv /\ [Next]_vars => [HandedOver!Next]_<<Box, OnDisplay>>
  BY HandoffStep
<1> QED
  BY InductiveInvariant, <1>1, <1>2, PTL DEF Spec, HandsOver, HandedOver!Spec, Box, OnDisplay
--------------------------------------------------------------------------------
(* The panel: the same exchange, with the frames behind it.                  *)

(* The closer a picture is to the light, the older it is.                    *)
FrameAges ==
    /\ box \in Picture \cup {None} /\ reading \in Picture /\ lit \in Picture
    /\ box # None => reading.version <= box.version /\ box.version <= drawn.version
    /\ lit.version <= reading.version
    /\ reading.version <= drawn.version

LEMMA PanelStepIsExchangeStep == [PanelNext]_panelVars => [Next]_vars
<1> SUFFICES ASSUME [PanelNext]_panelVars PROVE [Next]_vars
  OBVIOUS
<1>1. CASE Core0Task /\ UNCHANGED <<box, reading, lit>>
  BY <1>1 DEF Next
<1>2. CASE Prepare
  BY <1>2 DEF Prepare, Next, DisplayTask
<1>3. CASE DrawFrame
  BY <1>3 DEF DrawFrame, Next, DisplayTask
<1>4. CASE SwapFrame \/ SendFrame \/ UNCHANGED panelVars
  BY <1>4 DEF SwapFrame, SendFrame, panelVars
<1> QED
  BY <1>1, <1>2, <1>3, <1>4 DEF PanelNext, DisplayLoop

(* Waiting for a frame buffer takes nothing from the cluster exchange: the   *)
(* panel keeps all that is proved of it.                                     *)
THEOREM PanelKeepsExchange == PanelSpec => Spec
<1>1. PanelInit => Init
  BY DEF PanelInit
<1> QED
  BY <1>1, PanelStepIsExchangeStep, PTL DEF PanelSpec, Spec

LEMMA DrawnIsKept ==
    ASSUME Core0Task \/ Prepare
    PROVE  drawn' = drawn
BY DEF Core0Task, Refill, FeedReceive, FeedUpsert, NsRequest, NsEnrich, NsPublish, MapWake, MapAuto,
       MapManual, MapRepublish, Clear, Fill, Publish, Toggle, Deadline, Tilt, Prepare, TakeFresh,
       NoFresh, Recycle, Rotate, core1

LEMMA FrameAgesStep == IInv /\ FrameAges /\ [PanelNext]_panelVars => FrameAges' /\ lit'.version >= lit.version
<1> SUFFICES ASSUME IInv, FrameAges, [PanelNext]_panelVars
             PROVE  FrameAges' /\ lit'.version >= lit.version
  OBVIOUS
<1>1. /\ drawn \in Picture /\ snapshot[clusters] \in Snapshot
      /\ \A p \in Picture : p.version \in Nat
      /\ \A s \in Snapshot : Content(s) \in Picture /\ Content(s).version = s.version
      /\ None \notin Picture
  BY NoneAssumption DEF IInv, TypeOK, Picture, Snapshot, Content
<1>2. CASE UNCHANGED <<drawn, box, reading, lit>>
  BY <1>1, <1>2 DEF FrameAges
<1>3. CASE DrawFrame
  <2>1. /\ drawn' = Content(snapshot[clusters]) /\ box' = drawn'
        /\ UNCHANGED <<reading, lit>>
    BY <1>3 DEF DrawFrame, Draw, Frames!Put
  <2>2. drawn.version <= snapshot[clusters].version
    BY DEF IInv, Ages
  <2>3. drawn'.version \in Nat /\ drawn' \in Picture /\ drawn.version <= drawn'.version
    BY <1>1, <2>1, <2>2
  <2> QED
    BY <1>1, <2>1, <2>3 DEF FrameAges
<1>4. CASE SwapFrame
  BY <1>1, <1>4 DEF SwapFrame, Frames!Take, FrameAges, vars, core1
<1>5. CASE SendFrame
  BY <1>1, <1>5 DEF SendFrame, FrameAges, vars, core1
<1> QED
  BY <1>2, <1>3, <1>4, <1>5, DrawnIsKept DEF PanelNext, DisplayLoop, Prepare, panelVars, vars, core1

LEMMA FrameAgesInit == PanelInit => FrameAges
  BY NoneAssumption DEF PanelInit, Init, Frames!Init, FrameAges, Picture, Content, Blank, MapMode

LEMMA PanelInvariant == PanelSpec => [](IInv /\ FrameAges)
<1>1. PanelInit => FrameAges
  BY FrameAgesInit
<1>2. PanelSpec => []IInv
  BY PanelKeepsExchange, InductiveInvariant, PTL
<1>3. IInv /\ FrameAges /\ [PanelNext]_panelVars => FrameAges'
  BY FrameAgesStep
<1> QED
  BY <1>1, <1>2, <1>3, PTL DEF PanelSpec

(* The types of the panel: every picture drawn, sent and shown is one of a   *)
(* version and a mode that display_task had.                                 *)
THEOREM PanelTypeCorrect == PanelSpec => []PanelTypeOK
<1>1. IInv /\ FrameAges => PanelTypeOK
  BY DEF IInv, FrameAges, PanelTypeOK
<1> QED
  BY PanelInvariant, <1>1, PTL

(* The panel never goes back to an older state of the registry, through both *)
(* pairs of slots of display.rs and whichever transfers fail.                *)
THEOREM LightNeverGoesBack == PanelSpec => LitNeverGoesBack
<1>1. IInv /\ FrameAges /\ [PanelNext]_panelVars => [lit'.version >= lit.version]_panelVars
  BY FrameAgesStep
<1> QED
  BY PanelInvariant, <1>1, PTL DEF PanelSpec, LitNeverGoesBack
--------------------------------------------------------------------------------
(* Liveness.  The fairness of PanelSpec with the condition under which each  *)
(* action can be taken spelt out: whoever is polled runs when it is ready.   *)
CanLoop      == box = None
CanSwap      == ~(box = None)
CanSend      == lit # reading
CanReceive   == Core0Idle /\ pc["feed"] = "idle"
CanUpsert    == pc["feed"] = "lock"
CanRepublish == pc["map_mode"] = "take"
CanRefill(t) == pc[t] \in {"clear", "fill", "publish"}

PolledWhenReady ==
    /\ []<>~CanLoop               \/ []<><<DisplayLoop>>_panelVars
    /\ []<>~CanSwap               \/ []<><<SwapFrame>>_panelVars
    /\ []<>~CanSend               \/ []<><<SendFrame>>_panelVars
    /\ []<>~CanUpsert             \/ []<><<FeedUpsert>>_vars
    /\ []<>~CanRepublish          \/ []<><<MapRepublish>>_vars
    /\ []<>~CanRefill("feed")     \/ []<><<Refill("feed")>>_vars
    /\ []<>~CanRefill("ns_api")   \/ []<><<Refill("ns_api")>>_vars
    /\ []<>~CanRefill("map_mode") \/ []<><<Refill("map_mode")>>_vars
    /\ <>[]~CanReceive            \/ []<><<FeedReceive>>_vars

LEMMA VersionGrows ==
    ASSUME IInv, [Next]_vars
    PROVE  version' >= version
<1>1. Change \/ UNCHANGED version
  BY DEF Next, Core0Task, DisplayTask, Refill, FeedReceive, FeedUpsert, NsRequest, NsEnrich,
     NsPublish, MapWake, MapRepublish, Clear, Fill, Publish, Toggle, Deadline, Tilt, TakeFresh,
     NoFresh, Recycle, Rotate, Draw, core0, vars
<1>2. version \in Nat
  BY DEF IInv, TypeOK
<1> QED
  BY <1>1, <1>2 DEF Change

(* One task of core 0 runs at a time, and each only where its code goes.     *)
Turns ==
    /\ \A t, u \in Producers :
           pc[t] \notin {"idle", "fetching"} /\ pc[u] \notin {"idle", "fetching"} => t = u
    /\ \A t \in Producers :
           /\ pc[t] = "lock" => t = "feed"
           /\ pc[t] = "take" => t = "map_mode"
           /\ pc[t] = "fetching" => t = "ns_api"

(* What was drawn is in the box or being sent; while display_task waits it   *)
(* still has the snapshot it drew.                                           *)
Pipeline ==
    /\ box = None => reading = drawn
    /\ box # None => box = drawn /\ dpc = "take"
    /\ dpc = "take" => drawn = Content(snapshot[clusters])

LInv == IInv /\ FrameAges /\ Turns /\ Pipeline

LEMMA TurnsStep == IInv /\ Turns /\ [Next]_vars => Turns'
<1> USE DEF IInv, TypeOK, Turns, Producers, Core0Idle, Goto, core1, core0
<1>1. ASSUME IInv, Turns, UNCHANGED pc PROVE Turns'
  BY <1>1
<1>2. ASSUME IInv, Turns, NEW t \in Producers, Refill(t) PROVE Turns'
  BY <1>2 DEF Refill, Clear, Fill, Publish
<1>3. ASSUME IInv, Turns, FeedReceive \/ FeedUpsert \/ NsRequest \/ NsPublish PROVE Turns'
  BY <1>3 DEF FeedReceive, FeedUpsert, NsRequest, NsPublish
<1>4. ASSUME IInv, Turns, MapWake \/ MapRepublish PROVE Turns'
  BY <1>4 DEF MapWake, MapRepublish
<1> QED
  BY <1>1, <1>2, <1>3, <1>4 DEF Next, Core0Task, DisplayTask, NsEnrich, Toggle, Deadline, Tilt,
     TakeFresh, NoFresh, Recycle, Rotate, Draw, vars

LEMMA OneTurnAtATime == Spec => []Turns
<1>1. Init => Turns
  BY DEF Init, Turns
<1> QED
  BY <1>1, InductiveInvariant, TurnsStep, PTL DEF Spec

(* "The next update will catch up" (display.rs): a task that wants to        *)
(* publish finds no free buffer only while the display still has a snapshot  *)
(* to take or a buffer to recycle; another publish always becomes possible.  *)
THEOREM SkippedBehindASnapshot ==
    Spec => [](Core0Idle \/ pc["map_mode"] = "take" =>
                   free # None \/ fresh # None \/ dpc = "recycle")
<1>1. IInv /\ Turns => (Core0Idle \/ pc["map_mode"] = "take" =>
                            free # None \/ fresh # None \/ dpc = "recycle")
  <2> SUFFICES ASSUME IInv, Turns, Core0Idle \/ pc["map_mode"] = "take"
               PROVE  free # None \/ fresh # None \/ dpc = "recycle"
    OBVIOUS
  <2>1. \A t \in Producers : held[t] = None
    BY DEF Core0Idle, Turns, IInv, Control, Producers
  <2> QED
    BY <2>1 DEF IInv, TypeOK, Ownership, Control, Buffers
<1> QED
  BY <1>1, InductiveInvariant, OneTurnAtATime, PTL

LEMMA PipelineStep == IInv /\ FrameAges /\ Pipeline /\ [PanelNext]_panelVars => Pipeline'
<1> SUFFICES ASSUME IInv, FrameAges, Pipeline, [PanelNext]_panelVars PROVE Pipeline'
  OBVIOUS
<1>1. CASE Core0Task /\ UNCHANGED <<box, reading, lit>>
  <2>1. UNCHANGED <<clusters, dpc, drawn>>
    BY <1>1 DEF Core0Task, Refill, FeedReceive, FeedUpsert, NsRequest, NsEnrich, NsPublish, MapWake,
       MapRepublish, Clear, Fill, Publish, Toggle, Deadline, Tilt, core1
  <2>2. snapshot'[clusters] = snapshot[clusters]
    BY <1>1 DEF Core0Task, Refill, FeedReceive, FeedUpsert, NsRequest, NsEnrich, NsPublish, MapWake,
       MapRepublish, Clear, Fill, Publish, Toggle, Deadline, Tilt, core1, IInv, TypeOK, Ownership, Control
  <2> QED
    BY <1>1, <2>1, <2>2 DEF Pipeline
<1>2. CASE Prepare
  BY <1>2 DEF Prepare, TakeFresh, NoFresh, Recycle, Rotate, Pipeline
<1>3. CASE DrawFrame
  <2>1. Content(snapshot[clusters]) # None
    BY ContentType DEF IInv, TypeOK
  <2> QED
    BY <1>3, <2>1 DEF DrawFrame, Draw, Frames!Put, Pipeline
<1>4. CASE SwapFrame
  BY <1>4 DEF SwapFrame, Frames!Take, Pipeline, vars, core1
<1>5. CASE SendFrame \/ UNCHANGED panelVars
  BY <1>5 DEF SendFrame, Pipeline, panelVars, vars, core1
<1> QED
  BY <1>1, <1>2, <1>3, <1>4, <1>5 DEF PanelNext, DisplayLoop

LEMMA LiveInit == PanelInit => LInv
<1> SUFFICES ASSUME PanelInit PROVE LInv
  OBVIOUS
<1>1. IInv /\ FrameAges
  BY InitInv, FrameAgesInit DEF PanelInit
<1>2. \A t \in Producers : pc[t] = "idle"
  BY DEF PanelInit, Init
<1>3. snapshot[clusters] = Blank
  BY DEF PanelInit, Init, Buffers
<1>4. Turns /\ Pipeline
  BY <1>2, <1>3 DEF PanelInit, Init, Frames!Init, Turns, Pipeline
<1> QED
  BY <1>1, <1>4 DEF LInv

LEMMA LiveStep == LInv /\ [PanelNext]_panelVars => LInv'
  BY StepInv, FrameAgesStep, TurnsStep, PipelineStep, PanelStepIsExchangeStep DEF LInv

LEMMA LiveInvariant == PanelSpec => []LInv
  BY LiveInit, LiveStep, PTL DEF PanelSpec

(* From here on: a panel that runs, from any of its states.                  *)
Running == []LInv /\ [][PanelNext]_panelVars /\ PolledWhenReady

HasFree  == ~(free = None)
HasFresh == ~(fresh = None)

(* A task that has claimed a buffer empties it, fills it and publishes it.   *)
RefillSteps(t) ==
    LInv => /\ CanRefill(t) <=> pc[t] = "clear" \/ pc[t] = "fill" \/ pc[t] = "publish"
            /\ [PanelNext]_panelVars =>
                   /\ pc[t] = "clear" => (pc[t] = "clear")' \/ (pc[t] = "fill")'
                   /\ pc[t] = "fill" => (pc[t] = "fill")' \/ (pc[t] = "publish")'
                   /\ pc[t] = "publish" => (pc[t] = "publish")' \/ (Core0Idle /\ HasFresh)'
            /\ <<Refill(t)>>_vars =>
                   /\ pc[t] = "clear" => (pc[t] = "fill")'
                   /\ pc[t] = "fill" => (pc[t] = "publish")'
                   /\ pc[t] = "publish" => (Core0Idle /\ HasFresh)'

LEMMA RefillTakesSteps == \A t \in Producers : RefillSteps(t)
<1> SUFFICES ASSUME NEW t \in Producers PROVE RefillSteps(t)
  OBVIOUS
<1> USE DEF LInv, IInv, TypeOK, Turns, Producers, Core0Idle, Goto, core1, core0, CanRefill, HasFresh, Control
<1>1. LInv /\ [Next]_vars /\ CanRefill(t) => pc'[t] = pc[t] \/ Refill(t)
  BY DEF Next, Core0Task, DisplayTask, Refill, Clear, Fill, Publish, FeedReceive, FeedUpsert,
     NsRequest, NsEnrich, NsPublish, MapWake, MapRepublish, Toggle, Deadline, Tilt,
     TakeFresh, NoFresh, Recycle, Rotate, Draw, vars
<1>2. LInv /\ Refill(t) => /\ pc[t] = "clear" => pc'[t] = "fill"
                           /\ pc[t] = "fill" => pc'[t] = "publish"
                           /\ pc[t] = "publish" => (Core0Idle /\ HasFresh)'
  BY DEF Refill, Clear, Fill, Publish
<1> QED
  BY <1>1, <1>2, PanelStepIsExchangeStep DEF RefillSteps

LEMMA Refilling ==
    Running => /\ pc["feed"] = "clear" ~> pc["feed"] = "fill"
               /\ pc["feed"] = "fill" ~> pc["feed"] = "publish"
               /\ pc["feed"] = "publish" ~> Core0Idle /\ HasFresh
               /\ pc["ns_api"] = "clear" ~> pc["ns_api"] = "fill"
               /\ pc["ns_api"] = "fill" ~> pc["ns_api"] = "publish"
               /\ pc["ns_api"] = "publish" ~> Core0Idle /\ HasFresh
               /\ pc["map_mode"] = "clear" ~> pc["map_mode"] = "fill"
               /\ pc["map_mode"] = "fill" ~> pc["map_mode"] = "publish"
               /\ pc["map_mode"] = "publish" ~> Core0Idle /\ HasFresh
<1>1. RefillSteps("feed") /\ RefillSteps("ns_api") /\ RefillSteps("map_mode")
  BY RefillTakesSteps DEF Producers
<1> QED
  BY <1>1, PTL DEF RefillSteps, Running, PolledWhenReady

(* Core 0 is never blocked for good: the task that is polled ends its turn.  *)
LEMMA Core0ComesToRest == Running => []<>Core0Idle
<1> USE DEF CanUpsert, CanRepublish, LInv, IInv, TypeOK, Turns, Producers, Core0Idle, Goto, core1, core0
<1>1. /\ LInv /\ [PanelNext]_panelVars /\ CanUpsert =>
             CanUpsert' \/ (pc["feed"] = "clear")' \/ Core0Idle'
      /\ LInv /\ <<FeedUpsert>>_vars /\ CanUpsert => (pc["feed"] = "clear")' \/ Core0Idle'
  <2>1. LInv /\ CanUpsert /\ FeedUpsert => (pc["feed"] = "clear")' \/ Core0Idle'
    BY DEF FeedUpsert
  <2>2. LInv /\ [Next]_vars /\ CanUpsert => CanUpsert' \/ FeedUpsert
    BY DEF Next, Core0Task, DisplayTask, Refill, Clear, Fill, Publish, FeedReceive,
       NsRequest, NsEnrich, NsPublish, MapWake, MapRepublish, Toggle, Deadline, Tilt,
       TakeFresh, NoFresh, Recycle, Rotate, Draw, vars
  <2> QED
    BY <2>1, <2>2, PanelStepIsExchangeStep
<1>2. /\ LInv /\ [PanelNext]_panelVars /\ CanRepublish =>
             CanRepublish' \/ (pc["map_mode"] = "clear")' \/ Core0Idle'
      /\ LInv /\ <<MapRepublish>>_vars /\ CanRepublish =>
             (pc["map_mode"] = "clear")' \/ Core0Idle'
  <2>1. LInv /\ CanRepublish /\ MapRepublish => (pc["map_mode"] = "clear")' \/ Core0Idle'
    BY DEF MapRepublish
  <2>2. LInv /\ [Next]_vars /\ CanRepublish => CanRepublish' \/ MapRepublish
    BY DEF Next, Core0Task, DisplayTask, Refill, Clear, Fill, Publish, FeedReceive, FeedUpsert,
       NsRequest, NsEnrich, NsPublish, MapWake, Toggle, Deadline, Tilt,
       TakeFresh, NoFresh, Recycle, Rotate, Draw, vars
  <2> QED
    BY <2>1, <2>2, PanelStepIsExchangeStep
<1>3. LInv => \/ Core0Idle \/ CanUpsert \/ CanRepublish
              \/ pc["feed"] = "clear" \/ pc["feed"] = "fill" \/ pc["feed"] = "publish"
              \/ pc["ns_api"] = "clear" \/ pc["ns_api"] = "fill" \/ pc["ns_api"] = "publish"
              \/ pc["map_mode"] = "clear" \/ pc["map_mode"] = "fill" \/ pc["map_mode"] = "publish"
  OBVIOUS
<1> HIDE DEF CanUpsert, CanRepublish, LInv, IInv, TypeOK, Turns, Producers, Core0Idle, Goto, core1, core0
<1>4. /\ Running => (CanUpsert ~> pc["feed"] = "clear" \/ Core0Idle)
      /\ Running => (CanRepublish ~> pc["map_mode"] = "clear" \/ Core0Idle)
  BY <1>1, <1>2, PTL DEF Running, PolledWhenReady
<1> QED
  BY <1>3, <1>4, Refilling, PTL DEF Running

AtTop == dpc = "take" /\ CanLoop

(* display_task goes round its loop for ever.                                *)
LEMMA Rounds == Running => []<>AtTop /\ []<>(dpc = "draw")
<1> USE DEF LInv, IInv, TypeOK, Pipeline, FrameAges, AtTop, CanLoop, CanSwap
<1>1. LInv /\ [PanelNext]_panelVars => UNCHANGED <<dpc, box>> \/ DisplayLoop \/ SwapFrame
  BY DEF PanelNext, SendFrame, panelVars, vars, core1, Core0Task, Refill, Clear, Fill, Publish,
     FeedReceive, FeedUpsert, NsRequest, NsEnrich, NsPublish, MapWake, MapRepublish, Toggle,
     Deadline, Tilt
<1>2. LInv /\ SwapFrame => CanSwap /\ AtTop'
  BY DEF SwapFrame, Frames!Take, vars, core1
<1>3. LInv /\ DisplayLoop => /\ CanLoop
                             /\ AtTop => (dpc = "recycle")' \/ (dpc = "rotate")'
                             /\ dpc = "recycle" => (dpc = "rotate")'
                             /\ dpc = "rotate" => (dpc = "draw")'
                             /\ dpc = "draw" => CanSwap'
  <2>1. LInv /\ Prepare => /\ CanLoop
                           /\ AtTop => (dpc = "recycle")' \/ (dpc = "rotate")'
                           /\ dpc = "recycle" => (dpc = "rotate")'
                           /\ dpc = "rotate" => (dpc = "draw")'
                           /\ dpc # "draw"
    BY DEF Prepare, TakeFresh, NoFresh, Recycle, Rotate
  <2>2. LInv /\ DrawFrame => CanLoop /\ dpc = "draw" /\ CanSwap'
    <3> SUFFICES ASSUME LInv, DrawFrame PROVE CanLoop /\ dpc = "draw" /\ CanSwap'
      OBVIOUS
    <3>1. Content(snapshot[clusters]) # None
      BY ContentType
    <3> QED
      BY <3>1 DEF DrawFrame, Draw, Frames!Put
  <2> QED
    BY <2>1, <2>2 DEF DisplayLoop
<1>4. LInv => /\ \/ CanSwap
                 \/ AtTop
                 \/ dpc = "recycle" \/ dpc = "rotate" \/ dpc = "draw"
              /\ AtTop \/ dpc = "recycle" \/ dpc = "rotate" \/ dpc = "draw" => CanLoop
              /\ ~CanSwap <=> CanLoop
  OBVIOUS
<1>5. LInv /\ [PanelNext]_panelVars =>
          /\ CanSwap => CanSwap' \/ AtTop'
          /\ AtTop =>
                 AtTop' \/ (dpc = "recycle")' \/ (dpc = "rotate")'
          /\ dpc = "recycle" => (dpc = "recycle")' \/ (dpc = "rotate")'
          /\ dpc = "rotate" => (dpc = "rotate")' \/ (dpc = "draw")'
          /\ dpc = "draw" => (dpc = "draw")' \/ CanSwap'
  BY <1>1, <1>2, <1>3, <1>4
<1> HIDE DEF LInv, IInv, TypeOK, Pipeline, FrameAges, AtTop, CanLoop, CanSwap
<1> QED
  BY <1>2, <1>3, <1>4, <1>5, PTL DEF Running, PolledWhenReady

Upserting == CanUpsert /\ ~(held["feed"] = None)

(* The feed goes on from the lock with the buffer it claimed before.         *)
LEMMA UpsertingEnds == Running => (Upserting ~> pc["feed"] = "clear")
<1> USE DEF Upserting, CanUpsert
<1>1. LInv /\ [Next]_vars /\ Upserting => Upserting' \/ FeedUpsert
  BY DEF Next, Core0Task, DisplayTask, Refill, Clear, Fill, Publish, FeedReceive, NsRequest, NsEnrich,
     NsPublish, MapWake, MapRepublish, Toggle, Deadline, Tilt, TakeFresh, NoFresh, Recycle, Rotate,
     Draw, vars, core0, core1, Core0Idle, Goto, LInv, IInv, TypeOK, Turns, Producers
<1>2. LInv /\ Upserting /\ FeedUpsert => (pc["feed"] = "clear")'
  BY DEF FeedUpsert, Goto, Producers, LInv, IInv, TypeOK
<1>3. LInv => /\ Upserting => CanUpsert
              /\ [PanelNext]_panelVars /\ Upserting => Upserting' \/ (pc["feed"] = "clear")'
              /\ <<FeedUpsert>>_vars /\ Upserting => (pc["feed"] = "clear")'
  BY <1>1, <1>2, PanelStepIsExchangeStep
<1> HIDE DEF Upserting, CanUpsert
<1> QED
  BY <1>3, PTL DEF Running, PolledWhenReady

(* A buffer that is not free is on its way to become so.                     *)
LEMMA FreeComesBack == Running => []<>HasFree
<1> USE DEF LInv, IInv, TypeOK, Control, HasFree, HasFresh, AtTop, CanLoop, Upserting, CanUpsert
<1>1. LInv => \/ HasFree \/ HasFresh \/ dpc = "recycle" \/ Upserting
              \/ pc["feed"] = "clear" \/ pc["feed"] = "fill" \/ pc["feed"] = "publish"
              \/ pc["ns_api"] = "clear" \/ pc["ns_api"] = "fill" \/ pc["ns_api"] = "publish"
              \/ pc["map_mode"] = "clear" \/ pc["map_mode"] = "fill" \/ pc["map_mode"] = "publish"
  BY DEF Ownership, Producers, Buffers, Turns
<1>2. LInv => /\ [PanelNext]_panelVars /\ HasFresh => HasFresh' \/ (dpc = "recycle")'
              /\ [PanelNext]_panelVars /\ HasFresh /\ AtTop => (HasFresh /\ AtTop)' \/ (dpc = "recycle")'
              /\ <<DisplayLoop>>_panelVars /\ HasFresh /\ AtTop => (dpc = "recycle")'
  <2>1. LInv /\ [PanelNext]_panelVars /\ HasFresh => HasFresh' \/ (dpc = "recycle")'
    <3>1. LInv /\ [Next]_vars /\ HasFresh => HasFresh' \/ (dpc = "recycle")'
      BY DEF Next, Core0Task, DisplayTask, Refill, Clear, Fill, Publish, FeedReceive, FeedUpsert,
         NsRequest, NsEnrich, NsPublish, MapWake, MapRepublish, Toggle, Deadline, Tilt,
         TakeFresh, NoFresh, Recycle, Rotate, Draw, vars
    <3> QED
      BY <3>1, PanelStepIsExchangeStep
  <2>2. LInv /\ DisplayLoop /\ HasFresh /\ AtTop => (dpc = "recycle")'
    BY DEF DisplayLoop, Prepare, DrawFrame, TakeFresh, NoFresh, Recycle, Rotate, Draw
  <2>3. LInv /\ [PanelNext]_panelVars /\ AtTop => AtTop' \/ DisplayLoop
    BY DEF PanelNext, SwapFrame, Frames!Take, SendFrame, panelVars, vars, core1, Core0Task, Refill, Clear,
       Fill, Publish, FeedReceive, FeedUpsert, NsRequest, NsEnrich, NsPublish, MapWake, MapRepublish,
       Toggle, Deadline, Tilt
  <2> QED
    BY <2>1, <2>2, <2>3
<1>3. LInv => /\ [PanelNext]_panelVars /\ dpc = "recycle" => (dpc = "recycle")' \/ HasFree'
              /\ <<DisplayLoop>>_panelVars /\ dpc = "recycle" => HasFree'
              /\ dpc = "recycle" => CanLoop
  <2>1. LInv /\ DisplayLoop /\ dpc = "recycle" => HasFree'
    BY DEF DisplayLoop, Prepare, DrawFrame, TakeFresh, NoFresh, Recycle, Rotate, Draw
  <2>2. LInv /\ [PanelNext]_panelVars /\ dpc = "recycle" => (dpc = "recycle")' \/ DisplayLoop
    BY DEF PanelNext, SwapFrame, Frames!Take, SendFrame, panelVars, vars, core1, Core0Task, Refill, Clear,
       Fill, Publish, FeedReceive, FeedUpsert, NsRequest, NsEnrich, NsPublish, MapWake, MapRepublish,
       Toggle, Deadline, Tilt
  <2>3. LInv /\ dpc = "recycle" => CanLoop
    BY DEF Pipeline
  <2> QED
    BY <2>1, <2>2, <2>3
<1>4. AtTop => CanLoop
  OBVIOUS
<1> HIDE DEF LInv, IInv, TypeOK, Control, HasFree, HasFresh, AtTop, CanLoop, Upserting, CanUpsert
<1>5. Running => (HasFresh ~> dpc = "recycle")
  BY <1>2, <1>4, Rounds, PTL DEF Running, PolledWhenReady
<1>6. Running => (dpc = "recycle" ~> HasFree)
  BY <1>3, PTL DEF Running, PolledWhenReady
<1> QED
  BY <1>1, <1>5, <1>6, UpsertingEnds, Refilling, PTL DEF Running

(* What settles settles everywhere.  S is any set of pictures; once the      *)
(* registry and the mode stay in it, so does, from some time on, what the    *)
(* display works on, what it draws, what is sent and what is lit.            *)
Steady(S)    == Now \in S
Filled(t, S) == pc[t] = "publish" /\ Content(snapshot[held[t]]) \in S
Published(S) == HasFresh /\ Content(snapshot[fresh]) \in S
Settled(S) ==
    /\ Content(snapshot[clusters]) \in S
    /\ fresh # None => Content(snapshot[fresh]) \in S
    /\ \A t \in Producers : pc[t] = "publish" => Content(snapshot[held[t]]) \in S
DrawnIn(S)   == Settled(S) /\ drawn \in S
SentIn(S)    == DrawnIn(S) /\ reading \in S
LitIn(S)     == SentIn(S) /\ lit \in S

LEMMA RotateKeepsContent ==
    ASSUME IInv, Rotate
    PROVE  \A b \in Buffers : Content(snapshot'[b]) = Content(snapshot[b])
<1>1. snapshot[clusters] \in Snapshot /\ snapshot[clusters].turn = direction
  BY DEF Rotate, IInv, TypeOK, Contents
<1>2. Rotated(snapshot[clusters], direction, tilt) = [snapshot[clusters] EXCEPT !.turn = tilt]
  BY <1>1, TurnedType DEF IInv, TypeOK
<1>3. snapshot' = [snapshot EXCEPT ![clusters] = [snapshot[clusters] EXCEPT !.turn = tilt]]
  BY <1>2 DEF Rotate
<1>4. Content([snapshot[clusters] EXCEPT !.turn = tilt]) = Content(snapshot[clusters])
  BY <1>1 DEF Content, Snapshot
<1> QED
  BY <1>3, <1>4 DEF IInv, TypeOK

(* Most steps leave what is offered to the display as it is.                 *)
Quiet == /\ UNCHANGED <<fresh, clusters>>
         /\ \A b \in Buffers : Content(snapshot'[b]) = Content(snapshot[b])
         /\ \A t \in Producers : /\ pc'[t] = "publish" <=> pc[t] = "publish"
                                 /\ pc[t] = "publish" => held'[t] = held[t]

LEMMA QuietKeeps ==
    ASSUME NEW S, LInv, Quiet
    PROVE  /\ Settled(S)' <=> Settled(S)
           /\ Published(S)' <=> Published(S)
           /\ \A t \in Producers : Filled(t, S)' <=> Filled(t, S)
<1>1. clusters \in Buffers /\ (fresh # None => fresh \in Buffers)
  BY DEF LInv, IInv, TypeOK
<1>2. \A t \in Producers : pc[t] = "publish" => held[t] \in Buffers
  BY DEF LInv, IInv, TypeOK, Control
<1>3. \A t \in Producers : Filled(t, S)' <=> Filled(t, S)
  BY <1>2 DEF Quiet, Filled
<1>4. Published(S)' <=> Published(S)
  BY <1>1 DEF Quiet, Published, HasFresh
<1>5. Settled(S)' <=> Settled(S)
  BY <1>1, <1>2 DEF Quiet, Settled
<1> QED
  BY <1>3, <1>4, <1>5

LEMMA MostStepsAreQuiet ==
    ASSUME LInv, [Next]_vars
    PROVE  Quiet \/ TakeFresh \/ \E t \in Producers : Fill(t) \/ Publish(t)
<1>1. CASE UNCHANGED <<fresh, clusters, snapshot, pc, held>>
  BY <1>1 DEF Quiet
<1>2. ASSUME NEW t \in Producers, Clear(t) PROVE Quiet
  <2>1. held[t] \in Buffers /\ snapshot[held[t]] \in Snapshot
    BY <1>2 DEF Clear, LInv, IInv, TypeOK, Control
  <2>2. Content([snapshot[held[t]] EXCEPT !.whole = FALSE]) = Content(snapshot[held[t]])
    BY <2>1 DEF Content, Snapshot
  <2>3. snapshot' = [snapshot EXCEPT ![held[t]] = [snapshot[held[t]] EXCEPT !.whole = FALSE]]
    BY <1>2 DEF Clear
  <2>4. \A b \in Buffers : Content(snapshot'[b]) = Content(snapshot[b])
    BY <2>1, <2>2, <2>3 DEF LInv, IInv, TypeOK
  <2> QED
    BY <1>2, <2>4 DEF Clear, Goto, core1, LInv, IInv, TypeOK, Quiet
<1>3. CASE Rotate
  BY <1>3, RotateKeepsContent DEF Rotate, core0, LInv, Quiet
<1>4. CASE FeedReceive \/ NsRequest \/ NsPublish \/ MapWake
  BY <1>4 DEF FeedReceive, NsRequest, NsPublish, MapWake, Core0Idle, TryTakeFree, Goto, core1, LInv,
     IInv, TypeOK, Producers, Quiet
<1>5. CASE FeedUpsert \/ MapRepublish
  BY <1>5 DEF FeedUpsert, MapRepublish, TryTakeFree, Goto, core1, LInv, IInv, TypeOK, Producers, Quiet
<1> QED
  BY <1>1, <1>2, <1>3, <1>4, <1>5 DEF Next, Core0Task, DisplayTask, Refill, NsEnrich, Toggle, Deadline,
     Tilt, NoFresh, Recycle, Draw, core0, core1, vars

(* One step of the exchange towards S, or within it.                         *)
LEMMA FillStep ==
    ASSUME NEW S, LInv, Steady(S), NEW t \in Producers, Fill(t)
    PROVE  /\ Filled(t, S)'
           /\ Settled(S) => Settled(S)'
           /\ Published(S) => Published(S)'
           /\ \A u \in Producers : ~Filled(u, S)
<1>1. held[t] \in Buffers /\ held[t] \notin {fresh, clusters}
  BY DEF Fill, LInv, IInv, TypeOK, Ownership, Control
<1>2. /\ Content(snapshot'[held[t]]) \in S /\ held' = held /\ UNCHANGED <<fresh, clusters>>
      /\ \A b \in Buffers : b # held[t] => snapshot'[b] = snapshot[b]
  BY <1>1 DEF Fill, Steady, Now, Content, LInv, IInv, TypeOK, core1
<1>3. pc[t] = "fill" /\ pc' = [pc EXCEPT ![t] = "publish"]
  BY DEF Fill, Goto
<1>4. \A u \in Producers : pc[u] = "publish" => u = t
  BY <1>3 DEF LInv, Turns
<1>5. clusters \in Buffers /\ (fresh # None => fresh \in Buffers)
  BY DEF LInv, IInv, TypeOK
<1>6. pc'[t] = "publish" /\ \A u \in Producers : pc'[u] = "publish" => u = t
  BY <1>3, <1>4 DEF LInv, IInv, TypeOK
<1> QED
  BY <1>1, <1>2, <1>3, <1>4, <1>5, <1>6 DEF Filled, Settled, Published, HasFresh

LEMMA PublishStep ==
    ASSUME NEW S, LInv, NEW t \in Producers, Publish(t)
    PROVE  /\ Settled(S) => Settled(S)'
           /\ ~Published(S)
           /\ \A u \in Producers : Filled(u, S) => u = t /\ Published(S)'
<1>1. pc[t] = "publish" /\ held[t] \in Buffers /\ held[t] # clusters /\ fresh = None
  BY DEF Publish, LInv, IInv, TypeOK, Ownership, Control, Buffers
<1>2. \A u \in Producers : pc[u] = "publish" => u = t
  BY <1>1 DEF LInv, Turns
<1>3. fresh' = held[t] /\ UNCHANGED <<clusters, snapshot>> /\ held[t] # None
  BY <1>1 DEF Publish, core1
<1>4. \A u \in Producers : pc'[u] # "publish"
  BY <1>2 DEF Publish, Goto, LInv, IInv, TypeOK
<1> QED
  BY <1>1, <1>2, <1>3, <1>4 DEF Filled, Settled, Published, HasFresh

LEMMA TakeStep ==
    ASSUME NEW S, LInv, TakeFresh
    PROVE  /\ Settled(S) \/ Published(S) => Settled(S)'
           /\ \A u \in Producers : ~Filled(u, S)
<1>1. fresh # None /\ fresh' = None /\ clusters' = fresh /\ UNCHANGED <<snapshot, pc>>
  BY DEF TakeFresh, core0
<1>2. \A u \in Producers : pc[u] # "publish"
  BY <1>1 DEF LInv, IInv, TypeOK, Ownership, Control, Buffers
<1> QED
  BY <1>1, <1>2 DEF Filled, Settled, Published, HasFresh

LEMMA SettlingStep ==
    ASSUME NEW S, LInv, Steady(S), [Next]_vars
    PROVE  /\ Settled(S) => Settled(S)'
           /\ Published(S) => Published(S)' \/ Settled(S)'
           /\ \A t \in Producers : Filled(t, S) => Filled(t, S)' \/ Published(S)'
<1>1. CASE Quiet
  BY <1>1, QuietKeeps
<1>2. CASE TakeFresh
  BY <1>2, TakeStep
<1>3. ASSUME NEW t \in Producers, Fill(t)
      PROVE  /\ Settled(S) => Settled(S)'
             /\ Published(S) => Published(S)'
             /\ \A u \in Producers : ~Filled(u, S)
  BY <1>3, FillStep
<1>4. ASSUME NEW t \in Producers, Publish(t)
      PROVE  /\ Settled(S) => Settled(S)'
             /\ ~Published(S)
             /\ \A u \in Producers : Filled(u, S) => Published(S)'
  BY <1>4, PublishStep
<1> QED
  BY <1>1, <1>2, <1>3, <1>4, MostStepsAreQuiet

(* The three tasks on their way from a claimed buffer to a published one.    *)
FillSteps(t, S) ==
    LInv /\ Steady(S) =>
        /\ pc[t] = "fill" \/ Filled(t, S) => CanRefill(t)
        /\ [PanelNext]_panelVars =>
               /\ pc[t] = "fill" => (pc[t] = "fill")' \/ Filled(t, S)'
               /\ Filled(t, S) => Filled(t, S)' \/ Published(S)'
        /\ <<Refill(t)>>_vars =>
               /\ pc[t] = "fill" => Filled(t, S)'
               /\ Filled(t, S) => Published(S)'

LEMMA FillTakesSteps == \A S : \A t \in Producers : FillSteps(t, S)
<1> SUFFICES ASSUME NEW S, NEW t \in Producers, LInv, Steady(S) PROVE FillSteps(t, S)
  BY DEF FillSteps
<1>1. pc[t] = "fill" \/ Filled(t, S) => CanRefill(t)
  BY DEF Filled, CanRefill
<1>2. ASSUME [PanelNext]_panelVars, pc[t] = "fill" PROVE (pc[t] = "fill")' \/ Fill(t)
  <2>1. pc'[t] = pc[t] \/ Refill(t)
    BY <1>2, PanelStepIsExchangeStep DEF Next, Core0Task, DisplayTask, Refill, Clear, Fill, Publish,
       FeedReceive, FeedUpsert, NsRequest, NsEnrich, NsPublish, MapWake, MapRepublish, Toggle,
       Deadline, Tilt, TakeFresh, NoFresh, Recycle, Rotate, Draw, vars, core0, core1, Core0Idle,
       Goto, LInv, IInv, TypeOK, Turns, Producers
  <2> QED
    BY <1>2, <2>1 DEF Refill, Clear, Publish
<1>3. ASSUME [PanelNext]_panelVars, Filled(t, S) PROVE Filled(t, S)' \/ Published(S)'
  BY <1>3, SettlingStep, PanelStepIsExchangeStep
<1>4. ASSUME Refill(t), Filled(t, S) PROVE Published(S)'
  <2>1. Publish(t)
    BY <1>4 DEF Refill, Clear, Fill, Filled
  <2> QED
    BY <1>4, <2>1, PublishStep
<1>5. ASSUME Refill(t), pc[t] = "fill" PROVE Filled(t, S)'
  <2>1. Fill(t)
    BY <1>5 DEF Refill, Clear, Publish
  <2> QED
    BY <2>1, FillStep
<1> QED
  BY <1>1, <1>2, <1>3, <1>4, <1>5, FillStep DEF FillSteps

(* A free buffer is claimed, by the feed if by nobody else.                  *)
LEMMA ClaimSteps ==
    LInv => /\ Core0Idle => CanReceive
            /\ [PanelNext]_panelVars /\ HasFree =>
                   HasFree' \/ Upserting' \/ (pc["ns_api"] = "clear")' \/ (pc["map_mode"] = "clear")'
            /\ <<FeedReceive>>_vars /\ HasFree => Upserting'
<1> SUFFICES ASSUME LInv
             PROVE  /\ Core0Idle => CanReceive
                    /\ [Next]_vars /\ HasFree =>
                           HasFree' \/ Upserting' \/ (pc["ns_api"] = "clear")' \/ (pc["map_mode"] = "clear")'
                    /\ FeedReceive /\ HasFree => Upserting'
  BY PanelStepIsExchangeStep
<1> USE DEF LInv, IInv, TypeOK, Producers, HasFree, Upserting, CanUpsert
<1>1. Core0Idle => CanReceive
  BY DEF Core0Idle, CanReceive, Turns
<1>2. FeedReceive /\ HasFree => Upserting'
  BY DEF FeedReceive, TryTakeFree, Goto
<1>3. NsPublish /\ HasFree => (pc["ns_api"] = "clear")'
  BY DEF NsPublish, Goto
<1>4. MapRepublish /\ HasFree => (pc["map_mode"] = "clear")'
  BY DEF MapRepublish, Goto
<1>5. Recycle => HasFree'
  BY DEF Recycle, Control
<1>6. [Next]_vars => FeedReceive \/ NsPublish \/ MapRepublish \/ Recycle \/ UNCHANGED free
  BY DEF Next, Core0Task, DisplayTask, Refill, Clear, Fill, Publish, FeedUpsert, NsRequest, NsEnrich,
     MapWake, Toggle, Deadline, Tilt, TakeFresh, NoFresh, Rotate, Draw, vars
<1> QED
  BY <1>1, <1>2, <1>3, <1>4, <1>5, <1>6

(* What display_task and hub75_task contribute.                              *)
LightSteps(S) ==
    LInv /\ Steady(S) =>
        /\ AtTop \/ dpc = "draw" => CanLoop
        /\ DrawnIn(S) /\ ~CanSwap => SentIn(S)
        /\ SentIn(S) /\ ~CanSend => LitIn(S)
        /\ [PanelNext]_panelVars =>
               /\ Published(S) => Published(S)' \/ Settled(S)'
               /\ Published(S) /\ AtTop => AtTop' \/ Settled(S)'
               /\ Settled(S) => Settled(S)'
               /\ Settled(S) /\ dpc = "draw" => (dpc = "draw")' \/ DrawnIn(S)'
               /\ DrawnIn(S) => DrawnIn(S)'
               /\ SentIn(S) => SentIn(S)'
               /\ LitIn(S) => LitIn(S)'
        /\ <<DisplayLoop>>_panelVars =>
               /\ Published(S) /\ AtTop => Settled(S)'
               /\ Settled(S) /\ dpc = "draw" => DrawnIn(S)'
        /\ <<SwapFrame>>_panelVars => (DrawnIn(S) => SentIn(S)')
        /\ <<SendFrame>>_panelVars => (SentIn(S) => LitIn(S)')

LEMMA LightTakesSteps == \A S : LightSteps(S)
<1> SUFFICES ASSUME NEW S, LInv, Steady(S) PROVE LightSteps(S)
  BY DEF LightSteps
<1> USE DEF DrawnIn, SentIn, LitIn
<1>1. /\ AtTop \/ dpc = "draw" => CanLoop
      /\ DrawnIn(S) /\ ~CanSwap => SentIn(S)
      /\ SentIn(S) /\ ~CanSend => LitIn(S)
  BY DEF AtTop, CanLoop, CanSwap, CanSend, LInv, Pipeline
<1>2. ASSUME [PanelNext]_panelVars
      PROVE  /\ Published(S) => Published(S)' \/ Settled(S)'
             /\ Settled(S) => Settled(S)'
  BY <1>2, SettlingStep, PanelStepIsExchangeStep
<1>3. ASSUME Prepare
      PROVE  /\ UNCHANGED <<drawn, box, reading, lit>> /\ dpc # "draw"
             /\ Published(S) /\ AtTop => Settled(S)'
  <2>1. TakeFresh => (Published(S) => Settled(S)')
    BY TakeStep
  <2> QED
    BY <1>3, <2>1 DEF Prepare, TakeFresh, NoFresh, Recycle, Rotate, AtTop, Published, HasFresh
<1>4. ASSUME DrawFrame
      PROVE  /\ dpc = "draw" /\ UNCHANGED <<reading, lit>> /\ [Next]_vars
             /\ Settled(S) => Settled(S)' /\ drawn' \in S
  <2>1. [Next]_vars
    BY <1>4 DEF DrawFrame, Next, DisplayTask
  <2>2. Settled(S) => Settled(S)'
    BY <2>1, SettlingStep
  <2> QED
    BY <1>4, <2>1, <2>2 DEF DrawFrame, Draw, Frames!Put, Settled
<1>5. ASSUME SwapFrame
      PROVE  UNCHANGED <<vars, lit>> /\ reading' = drawn /\ (dpc = "take")' /\ CanLoop'
  BY <1>5 DEF SwapFrame, Frames!Take, LInv, Pipeline, vars, core1, CanLoop
<1>6. ASSUME SendFrame
      PROVE  UNCHANGED <<vars, box, reading>> /\ lit' = reading
  BY <1>6 DEF SendFrame
<1>7. ASSUME Core0Task \/ UNCHANGED panelVars, UNCHANGED <<box, reading, lit>>
      PROVE  UNCHANGED <<dpc, drawn, box, reading, lit>>
  BY <1>7 DEF Core0Task, Refill, FeedReceive, FeedUpsert, NsRequest, NsEnrich, NsPublish, MapWake,
     MapRepublish, Clear, Fill, Publish, Toggle, Deadline, Tilt, panelVars, vars, core1
<1> USE DEF AtTop
<1>8. ASSUME [PanelNext]_panelVars
      PROVE  \/ UNCHANGED <<dpc, drawn, box, reading, lit>>
             \/ Prepare \/ DrawFrame \/ SwapFrame \/ SendFrame
  BY <1>7, <1>8 DEF PanelNext, DisplayLoop, panelVars, vars, core1
<1>9. ASSUME [PanelNext]_panelVars
      PROVE  /\ Published(S) /\ AtTop => AtTop' \/ Settled(S)'
             /\ Settled(S) /\ dpc = "draw" => (dpc = "draw")' \/ DrawnIn(S)'
  BY <1>2, <1>3, <1>4, <1>5, <1>6, <1>8, <1>9 DEF CanLoop, vars, core1
<1>10. ASSUME [PanelNext]_panelVars
       PROVE  /\ DrawnIn(S) => DrawnIn(S)'
              /\ SentIn(S) => SentIn(S)'
              /\ LitIn(S) => LitIn(S)'
  BY <1>2, <1>3, <1>4, <1>5, <1>6, <1>8, <1>10 DEF vars, core1
<1>11. ASSUME DisplayLoop
       PROVE  /\ Published(S) /\ AtTop => Settled(S)'
              /\ Settled(S) /\ dpc = "draw" => DrawnIn(S)'
  BY <1>3, <1>4, <1>11 DEF DisplayLoop
<1>12. SwapFrame => (DrawnIn(S) => SentIn(S)')
  <2>1. SwapFrame => (Settled(S) => Settled(S)')
    BY <1>5, SettlingStep
  <2> QED
    BY <1>5, <2>1 DEF vars, core1
<1>13. SendFrame => (SentIn(S) => LitIn(S)')
  <2>1. SendFrame => (Settled(S) => Settled(S)')
    BY <1>6, SettlingStep
  <2> QED
    BY <1>6, <2>1 DEF vars, core1
<1> HIDE DEF DrawnIn, SentIn, LitIn, AtTop
<1> QED
  BY <1>1, <1>2, <1>9, <1>10, <1>11, <1>12, <1>13 DEF LightSteps

LEMMA SteadyIsPublished ==
    ASSUME NEW S
    PROVE  Running /\ []Steady(S) => <>Published(S)
<1>1. FillSteps("feed", S) /\ FillSteps("ns_api", S) /\ FillSteps("map_mode", S)
  BY FillTakesSteps DEF Producers
<1>2. Running /\ []Steady(S) => (pc["feed"] = "fill" ~> Filled("feed", S))
  BY <1>1, PTL DEF FillSteps, Running, PolledWhenReady
<1>3. Running /\ []Steady(S) => (Filled("feed", S) ~> Published(S))
  BY <1>1, PTL DEF FillSteps, Running, PolledWhenReady
<1>4. Running /\ []Steady(S) => (pc["ns_api"] = "fill" ~> Filled("ns_api", S))
  BY <1>1, PTL DEF FillSteps, Running, PolledWhenReady
<1>5. Running /\ []Steady(S) => (Filled("ns_api", S) ~> Published(S))
  BY <1>1, PTL DEF FillSteps, Running, PolledWhenReady
<1>6. Running /\ []Steady(S) => (pc["map_mode"] = "fill" ~> Filled("map_mode", S))
  BY <1>1, PTL DEF FillSteps, Running, PolledWhenReady
<1>7. Running /\ []Steady(S) => (Filled("map_mode", S) ~> Published(S))
  BY <1>1, PTL DEF FillSteps, Running, PolledWhenReady
<1>8. Running => (HasFree ~> Upserting \/ pc["ns_api"] = "clear" \/ pc["map_mode"] = "clear")
  BY ClaimSteps, Core0ComesToRest, PTL DEF Running, PolledWhenReady
<1> QED
  BY <1>2, <1>3, <1>4, <1>5, <1>6, <1>7, <1>8, FreeComesBack, UpsertingEnds, Refilling, PTL

LEMMA SteadyIsLit ==
    ASSUME NEW S
    PROVE  Running /\ []Steady(S) => <>[]LitIn(S)
<1>1. LightSteps(S)
  BY LightTakesSteps
<1>2. Running /\ []Steady(S) => (Published(S) ~> Settled(S))
  BY <1>1, Rounds, PTL DEF LightSteps, Running, PolledWhenReady
<1>3. Running /\ []Steady(S) => (Settled(S) ~> DrawnIn(S))
  BY <1>1, Rounds, PTL DEF LightSteps, Running, PolledWhenReady
<1>4. Running /\ []Steady(S) => (DrawnIn(S) ~> SentIn(S))
  BY <1>1, PTL DEF LightSteps, Running, PolledWhenReady
<1>5. Running /\ []Steady(S) => (SentIn(S) ~> LitIn(S))
  BY <1>1, PTL DEF LightSteps, Running, PolledWhenReady
<1>6. Running /\ []Steady(S) => [](LitIn(S) => []LitIn(S))
  BY <1>1, PTL DEF LightSteps, Running
<1>7. Running /\ []Steady(S) => <>Published(S)
  BY SteadyIsPublished
<1> QED
  BY <1>2, <1>3, <1>4, <1>5, <1>6, <1>7, PTL

(* What the light shows follows what core 0 knows: whichever set of pictures *)
(* the registry and the map mode settle in, the panel settles in it, though  *)
(* publishes are skipped for want of a buffer and transfers fail.  With a    *)
(* single picture: the panel comes to show exactly the last state.           *)
THEOREM LightFollows ==
    ASSUME NEW S
    PROVE  PanelSpec /\ PolledWhenReady => (<>[](Now \in S) => <>[](lit \in S))
<1>1. PanelSpec /\ PolledWhenReady => Running
  BY LiveInvariant, PTL DEF PanelSpec, Running
<1>2. Running /\ []Steady(S) => <>[]LitIn(S)
  BY SteadyIsLit
<1>3. LitIn(S) => lit \in S
  BY DEF LitIn
<1>4. Steady(S) <=> Now \in S
  BY DEF Steady
<1>5. Running => []Running
  BY PTL DEF Running, PolledWhenReady
<1> QED
  BY <1>1, <1>2, <1>3, <1>4, <1>5, PTL

(* Every registry change is lit eventually, also when the task that made it  *)
(* skipped its publish.                                                      *)
THEOREM EveryChangeIsLit == PanelSpec /\ PolledWhenReady => ChangeIsLit
<1> SUFFICES ASSUME NEW v \in 1 .. MaxVersion
             PROVE  PanelSpec /\ PolledWhenReady => (version >= v ~> lit.version >= v)
  BY DEF ChangeIsLit
<1>0. PICK S : S = {p \in Picture : p.version >= v}
  OBVIOUS
<1>1. PanelSpec /\ PolledWhenReady => (<>[](Now \in S) => <>[](lit \in S))
  BY LightFollows
<1>2. IInv /\ version >= v => Now \in S
  BY <1>0 DEF Now, Picture, IInv, TypeOK
<1>3. lit \in S => lit.version >= v
  BY <1>0
<1>4. IInv /\ version >= v /\ [PanelNext]_panelVars => (version >= v)'
  <2> SUFFICES ASSUME IInv, version >= v, [PanelNext]_panelVars PROVE version' >= v
    OBVIOUS
  <2>1. version' >= version
    BY PanelStepIsExchangeStep, VersionGrows
  <2>2. version \in Nat /\ version' \in Nat
    BY PanelStepIsExchangeStep, TypeStep DEF IInv, TypeOK
  <2> QED
    BY <2>1, <2>2
<1> QED
  BY <1>1, <1>2, <1>3, <1>4, PanelInvariant, PTL DEF PanelSpec

(* A map mode that is left alone is eventually the one that is lit for good. *)
THEOREM ModeComesToLight == PanelSpec /\ PolledWhenReady => ModeIsLit
<1> SUFFICES ASSUME NEW m \in MapMode
             PROVE  PanelSpec /\ PolledWhenReady => (<>[](mode = m) => <>[](lit.mode = m))
  BY DEF ModeIsLit
<1>0. PICK S : S = {p \in Picture : p.mode = m}
  OBVIOUS
<1>1. PanelSpec /\ PolledWhenReady => (<>[](Now \in S) => <>[](lit \in S))
  BY LightFollows
<1>2. IInv /\ mode = m => Now \in S
  BY <1>0 DEF Now, Picture, IInv, TypeOK
<1>3. lit \in S => lit.mode = m
  BY <1>0
<1> QED
  BY <1>1, <1>2, <1>3, PanelInvariant, PTL

--------------------------------------------------------------------------------
(* Lineage.  Each snapshot is what was the case at the place it was filled   *)
(* at, and the closer to the light, the earlier that place is.               *)
Record ==
    /\ past \in Seq(Picture) /\ past # <<>> /\ past[Len(past)] = Now
    /\ filledAt \in [Buffers -> 1 .. Len(past)]
    /\ {drawnAt, sentAt, litAt} \subseteq 1 .. Len(past)

Origins ==
    /\ \A b \in Buffers : snapshot[b].whole => Content(snapshot[b]) = past[filledAt[b]]
    /\ drawn = past[drawnAt] /\ reading = past[sentAt] /\ lit = past[litAt]

Places ==
    /\ litAt <= sentAt /\ sentAt <= drawnAt /\ drawnAt <= filledAt[clusters]
    /\ fresh # None => filledAt[clusters] <= filledAt[fresh]
    /\ \A t \in Producers : pc[t] = "publish" => filledAt[clusters] <= filledAt[held[t]]

(* A buffer is torn as soon as it is cleared.                                *)
Cleared == \A t \in Producers : pc[t] = "fill" => ~snapshot[held[t]].whole

LineageInv == Cleared /\ Record /\ Origins /\ Places

LEMMA ClearedStep ==
    ASSUME LInv, Cleared, [Next]_vars
    PROVE  Cleared'
<1>1. /\ pc \in [Producers -> {"idle", "fetching", "take", "lock", "clear", "fill", "publish"}]
      /\ snapshot \in [Buffers -> Snapshot]
      /\ \A t, u \in Producers : pc[t] = "fill" /\ pc[u] \notin {"idle", "fetching"} => t = u
      /\ \A t \in Producers : pc[t] \in {"clear", "fill"} => held[t] \in Buffers /\ held[t] # clusters
  BY DEF LInv, IInv, TypeOK, Turns, Ownership, Control
<1>2. CASE UNCHANGED <<snapshot, pc, held>>
  BY <1>2 DEF Cleared
<1>3. CASE FeedReceive \/ NsRequest \/ NsPublish \/ MapWake
  BY <1>1, <1>3 DEF FeedReceive, NsRequest, NsPublish, MapWake, Core0Idle, TryTakeFree, Goto, Producers,
     Cleared
<1>4. CASE FeedUpsert \/ MapRepublish
  BY <1>1, <1>4 DEF FeedUpsert, MapRepublish, TryTakeFree, Goto, Producers, Cleared
<1>5. ASSUME NEW t \in Producers, Clear(t) PROVE Cleared'
  <2>1. /\ snapshot' = [snapshot EXCEPT ![held[t]].whole = FALSE] /\ held' = held
        /\ pc' = [pc EXCEPT ![t] = "fill"] /\ pc[t] = "clear"
    BY <1>5 DEF Clear, Goto
  <2>2. snapshot'[held[t]].whole = FALSE
    BY <1>1, <2>1 DEF Snapshot
  <2>3. \A u \in Producers : pc'[u] = "fill" => u = t
    BY <1>1, <2>1
  <2> QED
    BY <2>1, <2>2, <2>3 DEF Cleared
<1>6. ASSUME NEW t \in Producers, Fill(t) \/ Publish(t) PROVE Cleared'
  BY <1>1, <1>6 DEF Fill, Publish, Goto, Cleared
<1>7. CASE Rotate
  <2>1. \A b \in Buffers : b # clusters => snapshot'[b] = snapshot[b]
    BY <1>1, <1>7 DEF Rotate
  <2> QED
    BY <1>1, <1>7, <2>1 DEF Rotate, core0, Cleared
<1> QED
  BY <1>2, <1>3, <1>4, <1>5, <1>6, <1>7 DEF Next, Core0Task, DisplayTask, Refill, NsEnrich, Toggle,
     Deadline, Tilt, TakeFresh, NoFresh, Recycle, Draw, core0, core1, vars

(* Nothing is ever struck out of the record.                                 *)
LEMMA RecordGrows ==
    ASSUME IInv, IInv', Record, Recorded
    PROVE  /\ past' \in Seq(Picture) /\ past' # <<>> /\ past'[Len(past')] = Now'
           /\ Len(past) \in Nat /\ Len(past') \in Nat /\ 1 <= Len(past) /\ Len(past) <= Len(past')
           /\ \A i \in 1 .. Len(past) : past'[i] = past[i]
           /\ past[Len(past)] = Now
<1>1. past \in Seq(Picture) /\ past # <<>> /\ Len(past) \in Nat /\ 1 <= Len(past)
  BY DEF Record
<1>2. Now' \in Picture
  BY DEF IInv, TypeOK, Now, Picture
<1>3. CASE Now' = Now
  BY <1>1, <1>3 DEF Recorded, Record
<1>4. CASE Now' # Now
  <2>1. past' = Append(past, Now')
    BY <1>4 DEF Recorded
  <2>2. /\ Append(past, Now') \in Seq(Picture) /\ Len(Append(past, Now')) = Len(past) + 1
        /\ Append(past, Now')[Len(past) + 1] = Now'
        /\ \A i \in 1 .. Len(past) : Append(past, Now')[i] = past[i]
    BY <1>1, <1>2
  <2>3. past[Len(past)] = Now
    BY DEF Record
  <2> QED
    BY <1>1, <2>1, <2>2, <2>3
<1> QED
  BY <1>3, <1>4

(* A buffer is whole with what it held before, or was just filled.           *)
LEMMA WholeBuffers ==
    ASSUME LInv, Cleared, [PanelNext]_panelVars, NEW b \in Buffers, snapshot'[b].whole
    PROVE  \/ snapshot[b].whole /\ Content(snapshot'[b]) = Content(snapshot[b])
           \/ ~snapshot[b].whole /\ Content(snapshot'[b]) = Now
<1>1. [Next]_vars
  BY PanelStepIsExchangeStep
<1>2. snapshot \in [Buffers -> Snapshot] /\ snapshot[b] \in Snapshot
  BY DEF LInv, IInv, TypeOK
<1>3. CASE snapshot' = snapshot
  BY <1>2, <1>3
<1>4. CASE Rotate
  <2>1. Content(snapshot'[b]) = Content(snapshot[b])
    BY <1>4, RotateKeepsContent DEF LInv
  <2>2. snapshot'[b].whole = snapshot[b].whole
    BY <1>2, <1>4 DEF Rotate, Rotated, Snapshot
  <2> QED
    BY <2>1, <2>2
<1>5. ASSUME NEW t \in Producers, Clear(t)
      PROVE  snapshot[b].whole /\ snapshot'[b] = snapshot[b]
  <2>1. held[t] \in Buffers
    BY <1>5 DEF Clear, LInv, IInv, TypeOK, Control
  <2>2. b # held[t]
    BY <1>2, <1>5, <2>1 DEF Clear, Snapshot
  <2>3. snapshot'[b] = snapshot[b]
    BY <1>2, <1>5, <2>2 DEF Clear
  <2> QED
    BY <2>3
<1>6. ASSUME NEW t \in Producers, Fill(t)
      PROVE  \/ snapshot[b].whole /\ Content(snapshot'[b]) = Content(snapshot[b])
             \/ ~snapshot[b].whole /\ Content(snapshot'[b]) = Now
  <2>1. held[t] \in Buffers
    BY <1>6 DEF Fill, LInv, IInv, TypeOK, Control
  <2>2. CASE b # held[t]
    BY <1>2, <1>6, <2>2 DEF Fill
  <2>3. CASE b = held[t]
    <3>1. ~snapshot[b].whole
      BY <1>6, <2>3 DEF Fill, Cleared
    <3>2. Content(snapshot'[b]) = Now
      BY <1>2, <1>6, <2>3 DEF Fill, Content, Now
    <3> QED
      BY <3>1, <3>2
  <2> QED
    BY <2>2, <2>3
<1> QED
  BY <1>1, <1>3, <1>4, <1>5, <1>6 DEF Next, Core0Task, DisplayTask, Refill, FeedReceive, FeedUpsert,
     NsRequest, NsEnrich, NsPublish, MapWake, MapRepublish, Publish, Toggle, Deadline, Tilt, TakeFresh,
     NoFresh, Recycle, Draw, core0, core1, vars

(* What is on its way to the display, or with it, is whole.                  *)
LEMMA OfferedIsWhole ==
    ASSUME IInv
    PROVE  /\ clusters \in Buffers /\ snapshot[clusters].whole
           /\ fresh # None => fresh \in Buffers /\ snapshot[fresh].whole
           /\ \A t \in Producers :
                  pc[t] = "publish" => held[t] \in Buffers /\ snapshot[held[t]].whole
BY DEF IInv, TypeOK, Ownership, Control, Contents

LEMMA PictureSources ==
    ASSUME LInv, [PanelNext]_panelVars
    PROVE  /\ drawn' = drawn \/ drawn' = Content(snapshot[clusters])
           /\ reading' = reading \/ reading' = drawn
           /\ lit' = lit \/ lit' = reading
<1>1. CASE Core0Task /\ UNCHANGED <<box, reading, lit>>
  BY <1>1, DrawnIsKept
<1>2. CASE Prepare
  BY <1>2, DrawnIsKept DEF Prepare
<1>3. CASE DrawFrame
  BY <1>3 DEF DrawFrame, Draw, Frames!Put
<1>4. CASE SwapFrame
  BY <1>4 DEF SwapFrame, Frames!Take, LInv, Pipeline, vars, core1
<1>5. CASE SendFrame \/ UNCHANGED panelVars
  BY <1>5 DEF SendFrame, panelVars, vars, core1
<1> QED
  BY <1>1, <1>2, <1>3, <1>4, <1>5 DEF PanelNext, DisplayLoop

LEMMA OriginsStep ==
    ASSUME LInv, LInv', LineageInv, [PanelNext]_panelVars, Recorded
    PROVE  Record' /\ Origins'
<1>1. /\ past' \in Seq(Picture) /\ past' # <<>> /\ past'[Len(past')] = Now'
      /\ Len(past) \in Nat /\ Len(past') \in Nat /\ 1 <= Len(past) /\ Len(past) <= Len(past')
      /\ \A i \in 1 .. Len(past) : past'[i] = past[i]
      /\ past[Len(past)] = Now
  BY RecordGrows DEF LInv, LineageInv
<1>2. /\ filledAt \in [Buffers -> 1 .. Len(past)]
      /\ drawnAt \in 1 .. Len(past) /\ sentAt \in 1 .. Len(past) /\ litAt \in 1 .. Len(past)
  BY DEF LineageInv, Record
<1>3. filledAt' = [b \in Buffers |->
          IF ~snapshot[b].whole /\ snapshot'[b].whole THEN Len(past) ELSE filledAt[b]]
  BY DEF Recorded
<1>4. /\ drawnAt' \in {drawnAt, filledAt[clusters]}
      /\ sentAt' \in {sentAt, drawnAt} /\ litAt' \in {litAt, sentAt}
  BY DEF Recorded
<1>5. clusters \in Buffers /\ snapshot[clusters].whole
  BY OfferedIsWhole DEF LInv
<1>6. \A i \in 1 .. Len(past) : i \in 1 .. Len(past')
  BY <1>1
<1>7. Record'
  <2>1. \A b \in Buffers : filledAt'[b] \in 1 .. Len(past')
    BY <1>1, <1>2, <1>3, <1>6
  <2>2. filledAt' \in [Buffers -> 1 .. Len(past')]
    BY <1>3, <2>1
  <2>3. filledAt[clusters] \in 1 .. Len(past)
    BY <1>2, <1>5
  <2>4. drawnAt' \in 1 .. Len(past') /\ sentAt' \in 1 .. Len(past') /\ litAt' \in 1 .. Len(past')
    BY <1>2, <1>4, <1>6, <2>3
  <2> QED
    BY <1>1, <2>2, <2>4 DEF Record
<1>8. ASSUME NEW b \in Buffers, snapshot'[b].whole
      PROVE  Content(snapshot'[b]) = past'[filledAt'[b]]
  <2>1. filledAt[b] \in 1 .. Len(past)
    BY <1>2
  <2>2. CASE snapshot[b].whole /\ Content(snapshot'[b]) = Content(snapshot[b])
    <3>1. filledAt'[b] = filledAt[b]
      BY <1>3, <2>2
    <3>2. Content(snapshot[b]) = past[filledAt[b]]
      BY <2>2 DEF LineageInv, Origins
    <3> QED
      BY <1>1, <2>1, <2>2, <3>1, <3>2
  <2>3. CASE ~snapshot[b].whole /\ Content(snapshot'[b]) = Now
    <3>1. filledAt'[b] = Len(past)
      BY <1>3, <1>8, <2>3
    <3>2. past'[Len(past)] = Now
      BY <1>1
    <3> QED
      BY <2>3, <3>1, <3>2
  <2> QED
    BY <1>8, <2>2, <2>3, WholeBuffers DEF LineageInv
<1>9. drawn' = past'[drawnAt']
  <2>1. CASE drawn' = drawn
    <3>1. drawnAt' = drawnAt
      BY <2>1 DEF Recorded
    <3> QED
      BY <1>1, <1>2, <2>1, <3>1 DEF LineageInv, Origins
  <2>2. CASE drawn' # drawn
    <3>1. drawnAt' = filledAt[clusters] /\ drawn' = Content(snapshot[clusters])
      BY <2>2, PictureSources DEF Recorded
    <3>2. Content(snapshot[clusters]) = past[filledAt[clusters]]
      BY <1>5 DEF LineageInv, Origins
    <3>3. filledAt[clusters] \in 1 .. Len(past)
      BY <1>2, <1>5
    <3> QED
      BY <1>1, <3>1, <3>2, <3>3
  <2> QED
    BY <2>1, <2>2
<1>10. reading' = past'[sentAt']
  <2>1. CASE reading' = reading
    BY <1>1, <1>2, <2>1 DEF Recorded, LineageInv, Origins
  <2>2. CASE reading' # reading
    BY <1>1, <1>2, <2>2, PictureSources DEF Recorded, LineageInv, Origins
  <2> QED
    BY <2>1, <2>2
<1>11. lit' = past'[litAt']
  <2>1. CASE lit' = lit
    BY <1>1, <1>2, <2>1 DEF Recorded, LineageInv, Origins
  <2>2. CASE lit' # lit
    BY <1>1, <1>2, <2>2, PictureSources DEF Recorded, LineageInv, Origins
  <2> QED
    BY <2>1, <2>2
<1> QED
  BY <1>7, <1>8, <1>9, <1>10, <1>11 DEF Origins

(* Of two buffers the one closer to the light was filled earlier.            *)
LEMMA BufferPlacesStep ==
    ASSUME LInv, LInv', LineageInv, [PanelNext]_panelVars, Recorded
    PROVE  /\ filledAt[clusters] <= filledAt'[clusters']
           /\ fresh' # None => filledAt'[clusters'] <= filledAt'[fresh']
           /\ \A t \in Producers : pc'[t] = "publish" => filledAt'[clusters'] <= filledAt'[held'[t]]
<1>1. filledAt \in [Buffers -> 1 .. Len(past)] /\ Len(past) \in Nat
  BY DEF LineageInv, Record
<1>2. \A b \in Buffers :
          /\ filledAt[b] \in Nat /\ filledAt[b] <= Len(past)
          /\ snapshot[b].whole => filledAt'[b] = filledAt[b]
          /\ ~snapshot[b].whole /\ snapshot'[b].whole => filledAt'[b] = Len(past)
  BY <1>1 DEF Recorded
<1>3. /\ clusters \in Buffers /\ snapshot[clusters].whole
      /\ fresh # None => fresh \in Buffers /\ snapshot[fresh].whole
      /\ \A t \in Producers : pc[t] = "publish" => held[t] \in Buffers /\ snapshot[held[t]].whole
  BY OfferedIsWhole DEF LInv
<1>4. /\ fresh # None => filledAt[clusters] <= filledAt[fresh]
      /\ \A t \in Producers : pc[t] = "publish" => filledAt[clusters] <= filledAt[held[t]]
  BY DEF LineageInv, Places
<1>5. CASE Quiet
  BY <1>2, <1>3, <1>4, <1>5 DEF Quiet
<1>6. CASE TakeFresh
  <2>1. fresh # None /\ fresh' = None /\ clusters' = fresh /\ UNCHANGED <<snapshot, pc>>
    BY <1>6 DEF TakeFresh, core0
  <2>2. \A t \in Producers : pc'[t] # "publish"
    BY <2>1 DEF LInv, IInv, TypeOK, Ownership, Control, Buffers
  <2> QED
    BY <1>2, <1>3, <1>4, <2>1, <2>2
<1>7. ASSUME NEW t \in Producers, Fill(t)
      PROVE  /\ UNCHANGED <<clusters, fresh, held>>
             /\ \A u \in Producers : pc'[u] = "publish" => u = t
             /\ held[t] \in Buffers /\ ~snapshot[held[t]].whole /\ snapshot'[held[t]].whole
  <2>1. pc[t] = "fill" /\ pc' = [pc EXCEPT ![t] = "publish"] /\ UNCHANGED <<clusters, fresh, held>>
    BY <1>7 DEF Fill, Goto, core1
  <2>2. \A u \in Producers : pc'[u] = "publish" => u = t
    BY <2>1 DEF LInv, IInv, TypeOK, Turns
  <2>3. held[t] \in Buffers /\ ~snapshot[held[t]].whole
    BY <2>1 DEF LineageInv, Cleared, LInv, IInv, TypeOK, Control
  <2>4. snapshot'[held[t]].whole
    BY <1>7, <2>3 DEF Fill, LInv, IInv, TypeOK
  <2> QED
    BY <2>1, <2>2, <2>3, <2>4
<1>8. ASSUME NEW t \in Producers, Publish(t)
      PROVE  /\ pc[t] = "publish" /\ fresh' = held[t] /\ clusters' = clusters
             /\ \A u \in Producers : pc'[u] # "publish"
  <2>1. /\ pc[t] = "publish" /\ pc' = [pc EXCEPT ![t] = "idle"]
        /\ fresh' = held[t] /\ clusters' = clusters
    BY <1>8 DEF Publish, Goto, core1
  <2>2. \A u \in Producers : pc'[u] # "publish"
    BY <2>1 DEF LInv, IInv, TypeOK, Turns
  <2> QED
    BY <2>1, <2>2
<1>9. CASE \E t \in Producers : Fill(t)
  BY <1>2, <1>3, <1>4, <1>7, <1>9
<1>10. CASE \E t \in Producers : Publish(t)
  BY <1>2, <1>3, <1>4, <1>8, <1>10
<1> QED
  BY <1>5, <1>6, <1>9, <1>10, MostStepsAreQuiet, PanelStepIsExchangeStep

LEMMA LineageStep ==
    ASSUME LInv, LInv', LineageInv, [PanelNext]_panelVars, Recorded
    PROVE  LineageInv' /\ litAt <= litAt'
<1>1. Cleared' /\ Record' /\ Origins'
  BY ClearedStep, PanelStepIsExchangeStep, OriginsStep DEF LineageInv
<1>2. /\ drawnAt' \in {drawnAt, filledAt[clusters]}
      /\ sentAt' \in {sentAt, drawnAt} /\ litAt' \in {litAt, sentAt}
  BY DEF Recorded
<1>3. /\ litAt \in Nat /\ sentAt \in Nat /\ drawnAt \in Nat
      /\ filledAt[clusters] \in Nat /\ filledAt'[clusters'] \in Nat
  <2>1. clusters \in Buffers /\ clusters' \in Buffers
    BY DEF LInv, IInv, TypeOK
  <2> QED
    BY <1>1, <2>1 DEF LineageInv, Record
<1>4. litAt <= sentAt /\ sentAt <= drawnAt /\ drawnAt <= filledAt[clusters]
  BY DEF LineageInv, Places
<1>5. filledAt[clusters] <= filledAt'[clusters']
  BY BufferPlacesStep
<1>6. litAt' <= sentAt' /\ sentAt' <= drawnAt' /\ drawnAt' <= filledAt'[clusters'] /\ litAt <= litAt'
  <2>1. litAt' <= sentAt /\ sentAt <= sentAt' /\ litAt <= litAt'
    BY <1>2, <1>3, <1>4
  <2>2. sentAt' <= drawnAt /\ drawnAt <= drawnAt' /\ sentAt' \in Nat /\ drawnAt' \in Nat
    BY <1>2, <1>3, <1>4
  <2>3. drawnAt' <= filledAt[clusters] /\ litAt' \in Nat
    BY <1>2, <1>3, <1>4
  <2> QED
    BY <1>3, <1>5, <2>1, <2>2, <2>3
<1>7. Places'
  BY <1>6, BufferPlacesStep DEF Places
<1> QED
  BY <1>1, <1>6, <1>7 DEF LineageInv

LEMMA LineageInitially == LineageInit => LInv /\ LineageInv
<1> SUFFICES ASSUME LineageInit PROVE LInv /\ LineageInv
  OBVIOUS
<1>1. LInv
  BY LiveInit DEF LineageInit
<1>2. /\ Content(Blank) = Now /\ Now \in Picture
      /\ snapshot = [b \in Buffers |-> Blank] /\ clusters \in Buffers /\ fresh = None
      /\ drawn = Now /\ reading = Now /\ lit = Now
      /\ \A t \in Producers : pc[t] = "idle"
  <2>1. version = 0 /\ mode = "Netherlands"
    BY DEF LineageInit, PanelInit, Init
  <2>2. Content(Blank) = Now
    BY <2>1 DEF Content, Blank, Now
  <2>3. Now \in Picture
    BY <2>1 DEF Now, Picture, MapMode
  <2> QED
    BY <2>2, <2>3 DEF LineageInit, PanelInit, Init, Frames!Init, Buffers
<1>3. past = <<Now>> /\ filledAt = [b \in Buffers |-> 1] /\ drawnAt = 1 /\ sentAt = 1 /\ litAt = 1
  BY DEF LineageInit
<1>4. /\ past \in Seq(Picture) /\ past # <<>> /\ Len(past) = 1 /\ past[1] = Now
  BY <1>2, <1>3
<1>5. Record
  BY <1>3, <1>4 DEF Record
<1>6. Origins
  BY <1>2, <1>3, <1>4 DEF Origins
<1>7. Places /\ Cleared
  BY <1>2, <1>3 DEF Places, Cleared
<1> QED
  BY <1>1, <1>5, <1>6, <1>7 DEF LineageInv

LEMMA LineageNext ==
    LInv /\ LineageInv /\ [PanelNext /\ Recorded]_lineageVars
        => LInv' /\ LineageInv' /\ [Followed!Next]_<<past, litAt>>
<1> SUFFICES ASSUME LInv, LineageInv, [PanelNext /\ Recorded]_lineageVars
             PROVE  LInv' /\ LineageInv' /\ [Followed!Next]_<<past, litAt>>
  OBVIOUS
<1>1. CASE UNCHANGED lineageVars
  <2>1. UNCHANGED panelVars /\ UNCHANGED <<past, filledAt, drawnAt, sentAt, litAt>>
    BY <1>1 DEF lineageVars, historyVars
  <2>2. LInv'
    BY <2>1, LiveStep
  <2>3. UNCHANGED <<version, mode, snapshot, clusters, fresh, held, pc, drawn, reading, lit>>
    BY <2>1 DEF panelVars, vars, core0, core1
  <2>4. LineageInv'
    BY <2>1, <2>3 DEF LineageInv, Cleared, Record, Origins, Places, Now
  <2> QED
    BY <2>1, <2>2, <2>4
<1>2. CASE PanelNext /\ Recorded
  <2>1. LInv'
    BY <1>2, LiveStep
  <2>2. LineageInv' /\ litAt <= litAt'
    BY <1>2, <2>1, LineageStep
  <2>3. CASE Now' = Now
    <3>1. past' = past
      BY <1>2, <2>3 DEF Recorded
    <3>2. litAt' \in litAt .. Len(past)
      BY <2>2, <3>1 DEF LineageInv, Record
    <3>3. Followed!CatchUp
      BY <3>1, <3>2 DEF Followed!CatchUp
    <3> QED
      BY <2>1, <2>2, <3>3 DEF Followed!Next
  <2>4. CASE Now' # Now
    <3>1. past' = Append(past, Now') /\ Now' \in Picture
      BY <1>2, <2>1, <2>4 DEF Recorded, LInv, IInv, TypeOK, Now, Picture
    <3>2. lit' = lit
      <4>1. CASE Core0Task /\ UNCHANGED <<box, reading, lit>>
        BY <4>1
      <4>2. CASE DisplayLoop
        BY <2>4, <4>2 DEF DisplayLoop, Prepare, DrawFrame
      <4>3. CASE SwapFrame \/ SendFrame
        BY <2>4, <4>3 DEF SwapFrame, SendFrame, vars, core0, Now
      <4> QED
        BY <1>2, <4>1, <4>2, <4>3 DEF PanelNext
    <3>3. litAt' = litAt
      BY <1>2, <3>2 DEF Recorded
    <3>4. Followed!Happens
      BY <3>1, <3>3 DEF Followed!Happens
    <3> QED
      BY <2>1, <2>2, <3>4 DEF Followed!Next
  <2> QED
    BY <2>3, <2>4
<1> QED
  BY <1>1, <1>2

LEMMA AlwaysLineage == LineageSpec => [](LInv /\ LineageInv)
  BY LineageInitially, LineageNext, PTL DEF LineageSpec

(* The record says what was the case, and where in it the panel is.          *)
THEOREM LightShowsThePast == LineageSpec => []ShowsThePast
<1>1. LineageInv => ShowsThePast
  BY DEF LineageInv, Record, Origins, ShowsThePast
<1> QED
  BY AlwaysLineage, <1>1, PTL

(* The panel follows the trains and the map mode: through three producers    *)
(* that skip, the cluster buffers, the frame buffers and transfers that      *)
(* fail, it shows only pictures that were true at one time, in their order,  *)
(* with those left out that were overtaken.                                  *)
THEOREM PanelFollows == LineageSpec => Follows
<1>1. LineageInit => Followed!Init
  <2> SUFFICES ASSUME LineageInit PROVE Followed!Init
    OBVIOUS
  <2>1. Now = Content(Blank)
    BY DEF LineageInit, PanelInit, Init, Now, Content, Blank
  <2> QED
    BY <2>1 DEF LineageInit, Followed!Init
<1> QED
  BY <1>1, AlwaysLineage, LineageNext, PTL DEF LineageSpec, Follows, Followed!Spec
================================================================================
