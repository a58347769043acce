--------------------------- MODULE EnrichmentProofs ----------------------------
(* What holds of the enrichment cooldown for every number of trains, every   *)
(* capacity, timer and clock resolution, and whatever the API answers.       *)
EXTENDS Enrichment, FiniteSetTheorems, SequenceTheorems, TLAPS

USE CapacityAssumption, NeverAssumption, TimeAssumption, QueueAssumption,
    BatchAssumption, TimersAssumption

(* No entry was seen in the future: pending_enrichment subtracts last_seen   *)
(* from the time with Instant::duration_since, which panics otherwise.       *)
SeenNotInFuture(r) == \A n \in DOMAIN r : r[n].seen <= now

(* A stored offset never overstates how long before last_seen the attempt's  *)
(* sighting was: seconds are only ever truncated.                            *)
Anchored(r, anc) ==
    \A n \in DOMAIN r : \A a \in Axes :
        r[n].ago[a] # Never => anc[n][a] + r[n].ago[a] * Second <= r[n].seen

IInv == TypeOK /\ SeenNotInFuture(reg) /\ Anchored(reg, anchor)

--------------------------------------------------------------------------------
(* The registry's operators.                                                 *)

LEMMA SecondsBound ==
    ASSUME NEW d \in Nat
    PROVE  Seconds(d) \in Nat /\ Seconds(d) * Second <= d
  BY DEF Seconds

LEMMA BumpBound ==
    ASSUME NEW ago \in 0 .. Never, NEW delta \in Nat
    PROVE  /\ BumpAttemptAgo(ago, delta) \in 0 .. Never
           /\ BumpAttemptAgo(ago, delta) = Never <=> ago = Never
           /\ ago # Never => BumpAttemptAgo(ago, delta) <= ago + delta
  BY DEF BumpAttemptAgo

LEMMA OffsetIsZero ==
    ASSUME NEW seen \in Nat, NEW t \in Nat, seen <= t
    PROVE  AttemptOffset(seen, t) = 0
<1>1. CASE seen = t
  BY <1>1, SecondsBound DEF AttemptOffset, Seconds
<1>2. CASE seen < t
  BY <1>2 DEF AttemptOffset
<1> QED
  BY <1>1, <1>2

LEMMA NewEntryType ==
    ASSUME NEW t \in Nat
    PROVE  /\ NewEntry(t) \in Entry
           /\ NewEntry(t).seen = t
           /\ \A a \in Axes : NewEntry(t).ago[a] = Never
  BY DEF NewEntry, Entry

(* A refreshed entry keeps its anchors: the offset grows by no more than     *)
(* last_seen advances.                                                       *)
LEMMA RefreshedEntry ==
    ASSUME NEW e \in Entry, NEW t \in Nat, e.seen <= t
    PROVE  /\ Refreshed(e, t) \in Entry
           /\ Refreshed(e, t).seen = t
           /\ \A a \in Axes : Refreshed(e, t).ago[a] = Never <=> e.ago[a] = Never
           /\ \A a \in Axes : \A x \in Nat :
                  e.ago[a] # Never /\ x + e.ago[a] * Second <= e.seen
                      => x + Refreshed(e, t).ago[a] * Second <= t
<1> DEFINE delta == Seconds(t - e.seen)
<1>1. e.seen \in Nat /\ e.ago \in [Axes -> 0 .. Never]
  BY DEF Entry
<1>2. t - e.seen \in Nat
  BY <1>1
<1>3. delta \in Nat /\ delta * Second <= t - e.seen
  BY <1>2, SecondsBound
<1> HIDE DEF delta
<1>4. Refreshed(e, t) =
          [e EXCEPT !.seen = t, !.ago = [a \in Axes |-> BumpAttemptAgo(e.ago[a], delta)]]
  BY <1>1 DEF Refreshed, delta
<1>5. ASSUME NEW a \in Axes
      PROVE  /\ BumpAttemptAgo(e.ago[a], delta) \in 0 .. Never
             /\ BumpAttemptAgo(e.ago[a], delta) = Never <=> e.ago[a] = Never
             /\ e.ago[a] # Never => BumpAttemptAgo(e.ago[a], delta) <= e.ago[a] + delta
  <2>1. e.ago[a] \in 0 .. Never
    BY <1>1
  <2> QED
    BY <2>1, <1>3, BumpBound
<1>6. Refreshed(e, t) \in Entry /\ Refreshed(e, t).seen = t
  <2> DEFINE ages == [a \in Axes |-> BumpAttemptAgo(e.ago[a], delta)]
  <2>1. ages \in [Axes -> 0 .. Never]
    BY <1>5
  <2> HIDE DEF ages
  <2>2. [e EXCEPT !.seen = t, !.ago = ages] \in Entry
    BY <2>1 DEF Entry
  <2>3. [e EXCEPT !.seen = t, !.ago = ages].seen = t
    BY DEF Entry
  <2> QED
    BY <1>4, <2>2, <2>3 DEF ages
<1>7. \A a \in Axes : Refreshed(e, t).ago[a] = BumpAttemptAgo(e.ago[a], delta)
  BY <1>4 DEF Entry
<1>8. \A a \in Axes : Refreshed(e, t).ago[a] = Never <=> e.ago[a] = Never
  BY <1>5, <1>7
<1>9. ASSUME NEW a \in Axes, NEW x \in Nat,
             e.ago[a] # Never, x + e.ago[a] * Second <= e.seen
      PROVE  x + Refreshed(e, t).ago[a] * Second <= t
  <2> DEFINE before == e.ago[a]
             after  == Refreshed(e, t).ago[a]
  <2>1. before \in Nat /\ after \in Nat /\ after <= before + delta
    BY <1>1, <1>3, <1>5, <1>7, <1>9
  <2> HIDE DEF before, after
  <2>2. after * Second <= (before + delta) * Second
    BY <1>3, <2>1
  <2>3. (before + delta) * Second = before * Second + delta * Second
    BY <1>3, <2>1
  <2>4. before * Second \in Nat /\ after * Second \in Nat /\ delta * Second \in Nat
    BY <1>3, <2>1
  <2>5. x + before * Second <= e.seen
    BY <1>9 DEF before
  <2> QED
    BY <1>1, <1>3, <2>2, <2>3, <2>4, <2>5 DEF after
<1> QED
  BY <1>6, <1>8, <1>9

LEMMA EmptyIsRegistry == IsRegistry(Empty) /\ DOMAIN Empty = {}
  BY DEF Empty, IsRegistry

LEMMA UpsertKeeps ==
    ASSUME IInv, NEW n \in Trains
    PROVE  LET r == Upserted(reg, n, now) IN
           /\ IsRegistry(r)
           /\ SeenNotInFuture(r)
           /\ Anchored(r, anchor)
           /\ \A m \in DOMAIN reg \cap DOMAIN r : \A a \in Axes :
                  r[m].ago[a] = Never <=> reg[m].ago[a] = Never
           /\ DOMAIN reg \subseteq DOMAIN r
<1> DEFINE r == Upserted(reg, n, now)
<1>1. /\ now \in Nat /\ IsRegistry(reg) /\ anchor \in [Trains -> [Axes -> Nat]]
      /\ \A m \in DOMAIN reg : reg[m] \in Entry /\ m \in Trains /\ reg[m].seen <= now
  BY DEF IInv, TypeOK, IsRegistry, SeenNotInFuture
<1>2. CASE n \in DOMAIN reg
  <2>1. r = [reg EXCEPT ![n] = Refreshed(reg[n], now)]
    BY <1>2 DEF Upserted
  <2>2. DOMAIN r = DOMAIN reg /\ r[n] = Refreshed(reg[n], now)
    BY <1>2, <2>1
  <2>3. \A m \in DOMAIN reg : m # n => r[m] = reg[m]
    BY <2>1
  <2>4. /\ r[n] \in Entry /\ r[n].seen = now
        /\ \A a \in Axes : r[n].ago[a] = Never <=> reg[n].ago[a] = Never
        /\ \A a \in Axes : \A x \in Nat :
               reg[n].ago[a] # Never /\ x + reg[n].ago[a] * Second <= reg[n].seen
                   => x + r[n].ago[a] * Second <= now
    BY <1>1, <1>2, <2>2, RefreshedEntry
  <2> HIDE DEF r
  <2>5. IsRegistry(r)
    BY <1>1, <2>1, <2>2, <2>3, <2>4 DEF IsRegistry
  <2>6. SeenNotInFuture(r)
    BY <1>1, <2>2, <2>3, <2>4 DEF SeenNotInFuture
  <2>7. ASSUME NEW m \in DOMAIN r, NEW a \in Axes, r[m].ago[a] # Never
        PROVE  anchor[m][a] + r[m].ago[a] * Second <= r[m].seen
    <3>1. CASE m = n
      <4>1. anchor[n][a] \in Nat
        BY <1>1, <1>2
      <4>2. reg[n].ago[a] # Never
        BY <2>4, <2>7, <3>1
      <4>3. anchor[n][a] + reg[n].ago[a] * Second <= reg[n].seen
        BY <1>2, <4>2 DEF IInv, Anchored
      <4> QED
        BY <2>4, <3>1, <4>1, <4>2, <4>3
    <3>2. CASE m # n
      BY <2>2, <2>3, <2>7, <3>2 DEF IInv, Anchored
    <3> QED
      BY <3>1, <3>2
  <2>8. Anchored(r, anchor)
    BY <2>7 DEF Anchored
  <2>9. \A m \in DOMAIN reg : \A a \in Axes : r[m].ago[a] = Never <=> reg[m].ago[a] = Never
    BY <2>3, <2>4
  <2> QED
    BY <2>2, <2>5, <2>6, <2>8, <2>9 DEF r
<1>3. CASE n \notin DOMAIN reg /\ Cardinality(DOMAIN reg) < Capacity
  <2>1. r = [m \in DOMAIN reg \cup {n} |-> IF m = n THEN NewEntry(now) ELSE reg[m]]
    BY <1>3 DEF Upserted, Inserted
  <2>2. NewEntry(now) \in Entry /\ NewEntry(now).seen = now
        /\ \A a \in Axes : NewEntry(now).ago[a] = Never
    BY <1>1, NewEntryType
  <2> HIDE DEF r
  <2>3. /\ DOMAIN r = DOMAIN reg \cup {n} /\ r[n] = NewEntry(now)
        /\ \A m \in DOMAIN reg : r[m] = reg[m]
    BY <1>3, <2>1
  <2>4. IsRegistry(r)
    BY <1>1, <2>1, <2>2, <2>3 DEF IsRegistry
  <2>5. SeenNotInFuture(r) /\ Anchored(r, anchor)
    BY <1>1, <2>2, <2>3 DEF IInv, SeenNotInFuture, Anchored
  <2> QED
    BY <2>3, <2>4, <2>5 DEF r
<1>4. CASE n \notin DOMAIN reg /\ ~(Cardinality(DOMAIN reg) < Capacity)
  BY <1>1, <1>4 DEF Upserted, Inserted, IInv
<1> QED
  BY <1>2, <1>3, <1>4

LEMMA StampKeeps ==
    ASSUME IInv, NEW axis \in Axes, NEW trains, NEW resolved,
           anchor' = [n \in Trains |->
               IF n \in trains \cap DOMAIN reg
               THEN [anchor[n] EXCEPT ![axis] = reg[n].seen]
               ELSE anchor[n]]
    PROVE  LET r == Stamped(reg, axis, trains, resolved, now) IN
           /\ IsRegistry(r)
           /\ SeenNotInFuture(r)
           /\ anchor' \in [Trains -> [Axes -> Nat]]
           /\ Anchored(r, anchor')
           /\ DOMAIN r = DOMAIN reg
<1> DEFINE r == Stamped(reg, axis, trains, resolved, now)
<1>1. /\ now \in Nat /\ IsRegistry(reg) /\ anchor \in [Trains -> [Axes -> Nat]]
      /\ \A m \in DOMAIN reg : reg[m] \in Entry /\ m \in Trains /\ reg[m].seen <= now
      /\ \A m \in DOMAIN reg : reg[m].seen \in Nat /\ reg[m].ago \in [Axes -> 0 .. Never]
  BY DEF IInv, TypeOK, IsRegistry, SeenNotInFuture, Entry
<1>2. \A m \in DOMAIN reg : AttemptOffset(reg[m].seen, now) = 0
  BY <1>1, OffsetIsZero
<1>3. /\ DOMAIN r = DOMAIN reg
      /\ \A m \in DOMAIN reg : m \notin trains => r[m] = reg[m]
      /\ \A m \in DOMAIN reg : m \in trains =>
             r[m] = [reg[m] EXCEPT !.known[axis] = m \in resolved, !.ago[axis] = 0]
  BY <1>2 DEF Stamped
<1>4. ASSUME NEW m \in DOMAIN reg, m \in trains
      PROVE  /\ r[m] \in Entry /\ r[m].seen = reg[m].seen
             /\ r[m].ago[axis] = 0
             /\ \A a \in Axes : a # axis => r[m].ago[a] = reg[m].ago[a]
  <2>1. r[m] = [reg[m] EXCEPT !.known[axis] = m \in resolved, !.ago[axis] = 0]
    BY <1>3, <1>4
  <2> DEFINE known == [reg[m].known EXCEPT ![axis] = m \in resolved]
             ago   == [reg[m].ago EXCEPT ![axis] = 0]
  <2>2. known \in [Axes -> BOOLEAN]
    <3>1. reg[m].known \in [Axes -> BOOLEAN]
      BY <1>1 DEF Entry
    <3>2. (m \in resolved) \in BOOLEAN
      OBVIOUS
    <3> QED
      BY <3>1, <3>2, Zenon
  <2>3. ago \in [Axes -> 0 .. Never] /\ ago[axis] = 0
        /\ \A a \in Axes : a # axis => ago[a] = reg[m].ago[a]
    BY <1>1
  <2>4. r[m] = [reg[m] EXCEPT !.known = known, !.ago = ago]
    BY <1>1, <2>1 DEF Entry
  <2> HIDE DEF known, ago
  <2>5. r[m] \in Entry /\ r[m].seen = reg[m].seen /\ r[m].ago = ago
    BY <1>1, <2>2, <2>3, <2>4 DEF Entry
  <2> QED
    BY <2>3, <2>5
<1>5. IsRegistry(r)
  <2>1. \A m \in DOMAIN r : r[m] \in Entry
    BY <1>1, <1>3, <1>4
  <2>2. r \in [DOMAIN r -> Entry]
    BY <2>1 DEF Stamped
  <2> QED
    BY <1>1, <1>3, <2>2 DEF IsRegistry
<1>6. SeenNotInFuture(r)
  BY <1>1, <1>3, <1>4 DEF SeenNotInFuture
<1>7. anchor' \in [Trains -> [Axes -> Nat]]
  BY <1>1
<1>8. ASSUME NEW m \in DOMAIN r, NEW a \in Axes, r[m].ago[a] # Never
      PROVE  anchor'[m][a] + r[m].ago[a] * Second <= r[m].seen
  <2>1. m \in Trains /\ m \in DOMAIN reg
    BY <1>1, <1>3
  <2>2. CASE m \notin trains
    BY <1>3, <1>8, <2>1, <2>2 DEF IInv, Anchored
  <2>3. CASE m \in trains /\ a = axis
    BY <1>1, <1>4, <2>1, <2>3
  <2>4. CASE m \in trains /\ a # axis
    <3>1. anchor'[m][a] = anchor[m][a]
      BY <1>1, <2>1, <2>4
    <3> QED
      BY <1>4, <1>8, <2>1, <2>4, <3>1 DEF IInv, Anchored
  <2> QED
    BY <2>2, <2>3, <2>4
<1> QED
  BY <1>3, <1>5, <1>6, <1>7, <1>8 DEF Anchored

(* Stamping never writes the sentinel.                                       *)
LEMMA StampNotNever ==
    ASSUME IInv, NEW axis \in Axes, NEW trains, NEW resolved,
           NEW m \in DOMAIN reg, NEW a \in Axes, reg[m].ago[a] # Never
    PROVE  Stamped(reg, axis, trains, resolved, now)[m].ago[a] # Never
<1>1. /\ reg[m] \in Entry /\ reg[m].seen \in Nat /\ reg[m].ago \in [Axes -> 0 .. Never]
      /\ now \in Nat /\ reg[m].seen <= now
  BY DEF IInv, TypeOK, IsRegistry, SeenNotInFuture, Entry
<1>2. CASE m \notin trains
  BY <1>2 DEF Stamped
<1>3. CASE m \in trains
  <2>1. Stamped(reg, axis, trains, resolved, now)[m] =
            [reg[m] EXCEPT !.known[axis] = m \in resolved, !.ago[axis] = 0]
    BY <1>1, <1>3, OffsetIsZero DEF Stamped
  <2>2. Stamped(reg, axis, trains, resolved, now)[m].ago = [reg[m].ago EXCEPT ![axis] = 0]
    BY <1>1, <2>1 DEF Entry
  <2> QED
    BY <1>1, <2>2
<1> QED
  BY <1>2, <1>3

LEMMA WithoutKeeps ==
    ASSUME IInv, NEW gone
    PROVE  LET r == Without(reg, gone) IN
           IsRegistry(r) /\ SeenNotInFuture(r) /\ Anchored(r, anchor)
  BY DEF Without, IInv, TypeOK, IsRegistry, SeenNotInFuture, Anchored

--------------------------------------------------------------------------------
(* The buffers.                                                              *)

LEMMA PendingFinite ==
    ASSUME IInv, NEW axis
    PROVE  /\ Pending(reg, axis, now) \in SUBSET Trains
           /\ IsFiniteSet(Pending(reg, axis, now))
  BY TrainsAssumption, FS_Subset DEF Pending, IInv, TypeOK, IsRegistry

LEMMA FillingsType ==
    ASSUME NEW S \in SUBSET Trains, IsFiniteSet(S), NEW cap \in Nat, NEW s \in Fillings(S, cap)
    PROVE  s \in Seq(Trains)
<1>1. Cardinality(S) \in Nat
  BY FS_CardinalityType
<1> DEFINE k == Smaller(cap, Cardinality(S))
<1>2. k \in Nat
  BY <1>1 DEF Smaller
<1> HIDE DEF k
<1>3. s \in [1 .. k -> S]
  BY DEF Fillings, k
<1>4. s \in Seq(S)
  BY <1>2, <1>3, IsASeq
<1> QED
  BY <1>4, SeqMonotonic

LEMMA SliceType ==
    ASSUME NEW s \in Seq(Trains), NEW m \in Nat \ {0}, NEW n \in Nat, n <= Len(s)
    PROVE  SubSeq(s, m, n) \in Seq(Trains)
<1>1. Len(s) \in Nat /\ \A i \in 1 .. Len(s) : s[i] \in Trains
  BY LenProperties, ElementOfSeq
<1>2. \A i \in m .. n : s[i] \in Trains
  BY <1>1
<1> QED
  BY <1>2, SubSeqProperties

LEMMA GiveUpType ==
    ASSUME IInv, GiveUp
    PROVE  /\ npc' = "backoff" /\ wakeAt' \in Nat
           /\ typeBatch' \in Seq(Trains) /\ serviceBatch' \in Seq(Trains)
  BY EmptySeq DEF GiveUp, IInv, TypeOK

LEMMA ProceedType ==
    ASSUME IInv, Proceed, Asking
    PROVE  /\ UNCHANGED <<npc, wakeAt>>
           /\ typeBatch' \in Seq(Trains) /\ serviceBatch' \in Seq(Trains)
<1>1. CASE Axis = "type"
  <2>1. Len(typeBatch) \in Nat
    BY LenProperties DEF IInv, TypeOK
  <2>2. ChunkLen \in Nat
    BY <1>1, <2>1 DEF ChunkLen, Smaller
  <2>3. SubSeq(typeBatch, ChunkLen + 1, Len(typeBatch)) \in Seq(Trains)
    BY <2>1, <2>2, SliceType DEF IInv, TypeOK
  <2> QED
    BY <1>1, <2>3 DEF Proceed, IInv, TypeOK
<1>2. CASE Axis # "type"
  <2>1. serviceBatch # <<>>
    BY <1>2 DEF Asking, Axis
  <2>2. Tail(serviceBatch) \in Seq(Trains)
    BY <2>1, HeadTailProperties DEF IInv, TypeOK
  <2> QED
    BY <1>2, <2>2 DEF Proceed, IInv, TypeOK
<1> QED
  BY <1>1, <1>2

LEMMA AxisType == Axis \in Axes
  BY DEF Axis, Axes

--------------------------------------------------------------------------------
(* The invariant.                                                            *)

LEMMA InitInv == Init => IInv
<1> SUFFICES ASSUME Init PROVE IInv
  OBVIOUS
<1>1. TypeOK
  BY EmptyIsRegistry, EmptySeq DEF Init, TypeOK
<1>2. SeenNotInFuture(reg) /\ Anchored(reg, anchor)
  BY EmptyIsRegistry DEF Init, SeenNotInFuture, Anchored
<1> QED
  BY <1>1, <1>2 DEF IInv

LEMMA StepInv == IInv /\ [Next]_vars => IInv'
<1> SUFFICES ASSUME IInv, [Next]_vars PROVE IInv'
  OBVIOUS
<1> USE DEF feedVars, nsVars
<1>1. CASE Tick
  <2>1. now \in Nat /\ now' = now + 1 /\ UNCHANGED <<reg, anchor>>
    BY <1>1 DEF Tick, IInv, TypeOK
  <2>2. \A n \in DOMAIN reg : reg[n].seen \in Nat /\ reg[n].seen <= now
    BY DEF IInv, TypeOK, IsRegistry, Entry, SeenNotInFuture
  <2>3. SeenNotInFuture(reg)'
    BY <2>1, <2>2 DEF SeenNotInFuture
  <2> QED
    BY <1>1, <2>1, <2>3 DEF Tick, IInv, TypeOK, Anchored
<1>2. CASE FeedEvict
  <2>1. \/ UNCHANGED reg
        \/ \E gone : reg' = Without(reg, gone)
    BY <1>2 DEF FeedEvict
  <2>2. IsRegistry(reg') /\ SeenNotInFuture(reg') /\ Anchored(reg', anchor)
    BY <2>1, WithoutKeeps DEF IInv, TypeOK
  <2> QED
    BY <1>2, <2>2 DEF FeedEvict, IInv, TypeOK, SeenNotInFuture
<1>3. ASSUME NEW n \in Trains, FeedUpsert(n) PROVE IInv'
  <2>1. IsRegistry(reg') /\ SeenNotInFuture(reg') /\ Anchored(reg', anchor)
    BY <1>3, UpsertKeeps DEF FeedUpsert
  <2>2. queue' \in Seq(Trains)
    <3>1. queue \in Seq(Trains) /\ Append(queue, n) \in Seq(Trains)
      BY AppendProperties DEF IInv, TypeOK
    <3> QED
      BY <1>3, <3>1 DEF FeedUpsert, TrySend
  <2> QED
    BY <1>3, <2>1, <2>2 DEF FeedUpsert, IInv, TypeOK, SeenNotInFuture
<1>4. CASE FeedDone
  BY <1>4 DEF FeedDone, IInv, TypeOK, SeenNotInFuture
<1>5. CASE NsNewTrains
  <2>1. Len(queue) \in Nat /\ queue \in Seq(Trains)
    BY LenProperties DEF IInv, TypeOK
  <2> DEFINE k == Smaller(TypeCap, Len(queue))
  <2>2. k \in Nat /\ k <= Len(queue) /\ Smaller(ServiceCap, k) \in Nat /\ Smaller(ServiceCap, k) <= k
    BY <2>1 DEF Smaller
  <2>3. /\ typeBatch' = SubSeq(queue, 1, k)
        /\ serviceBatch' = SubSeq(queue, 1, Smaller(ServiceCap, k))
        /\ queue' = SubSeq(queue, k + 1, Len(queue))
    BY <1>5 DEF NsNewTrains
  <2> HIDE DEF k
  <2>4. Smaller(ServiceCap, k) <= Len(queue)
    BY <2>1, <2>2
  <2>5. typeBatch' \in Seq(Trains) /\ serviceBatch' \in Seq(Trains) /\ queue' \in Seq(Trains)
    BY <2>1, <2>2, <2>3, <2>4, SliceType
  <2> QED
    BY <1>5, <2>5 DEF NsNewTrains, IInv, TypeOK, SeenNotInFuture
<1>6. CASE NsSweep
  <2>1. typeBatch' \in Seq(Trains) /\ serviceBatch' \in Seq(Trains)
    BY <1>6, PendingFinite, FillingsType DEF NsSweep
  <2>2. npc' \in {"sleep", "open"} /\ wakeAt' \in Nat
    BY <1>6 DEF NsSweep, SleepUntil, IInv, TypeOK
  <2> QED
    BY <1>6, <2>1, <2>2 DEF NsSweep, IInv, TypeOK, SeenNotInFuture
<1>7. CASE NsOpen
  BY <1>7 DEF NsOpen, IInv, TypeOK, SeenNotInFuture
<1>8. CASE NsOpenFails
  BY <1>8, GiveUpType DEF NsOpenFails, IInv, TypeOK, SeenNotInFuture
<1>9. CASE NsAnswer
  <2>1. PICK trains, resolved : Stamp(trains, resolved)
    BY <1>9 DEF NsAnswer
  <2>2. /\ IsRegistry(reg') /\ SeenNotInFuture(reg')
        /\ anchor' \in [Trains -> [Axes -> Nat]] /\ Anchored(reg', anchor')
    BY <2>1, AxisType, StampKeeps DEF Stamp
  <2>3. /\ UNCHANGED <<npc, wakeAt>>
        /\ typeBatch' \in Seq(Trains) /\ serviceBatch' \in Seq(Trains)
    BY <1>9, ProceedType DEF NsAnswer
  <2> QED
    BY <1>9, <2>2, <2>3 DEF NsAnswer, IInv, TypeOK, SeenNotInFuture
<1>10. CASE NsRefusal
  <2>1. /\ IsRegistry(reg') /\ SeenNotInFuture(reg')
        /\ anchor' \in [Trains -> [Axes -> Nat]] /\ Anchored(reg', anchor')
    BY <1>10, AxisType, StampKeeps DEF NsRefusal, Stamp
  <2>2. /\ npc' = "backoff" /\ wakeAt' \in Nat
        /\ typeBatch' \in Seq(Trains) /\ serviceBatch' \in Seq(Trains)
    BY <1>10, GiveUpType DEF NsRefusal
  <2> QED
    BY <1>10, <2>1, <2>2 DEF NsRefusal, IInv, TypeOK, SeenNotInFuture
<1>11. CASE NsUnreadable
  BY <1>11, GiveUpType DEF NsUnreadable, IInv, TypeOK, SeenNotInFuture
<1>12. CASE NsDone
  BY <1>12 DEF NsDone, SleepUntil, IInv, TypeOK, SeenNotInFuture
<1>13. CASE NsBackoffOver
  BY <1>13 DEF NsBackoffOver, SleepUntil, IInv, TypeOK, SeenNotInFuture
<1>14. CASE UNCHANGED vars
  BY <1>14 DEF vars, IInv, TypeOK, SeenNotInFuture
<1> QED
  BY <1>1, <1>2, <1>3, <1>4, <1>5, <1>6, <1>7, <1>8, <1>9, <1>10, <1>11, <1>12, <1>13,
     <1>14 DEF Next, FeedTask, NsTask

LEMMA InductiveInvariant == Spec => []IInv
  BY InitInv, StepInv, PTL DEF Spec

--------------------------------------------------------------------------------
(* Every variable keeps its type: in particular no attempt offset leaves the *)
(* range of a u16, however long a train is sighted.                          *)
THEOREM TypeCorrect == Spec => []TypeOK
<1>1. IInv => TypeOK
  BY DEF IInv
<1> QED
  BY InductiveInvariant, <1>1, PTL

(* pending_enrichment never subtracts a later time from an earlier one.      *)
THEOREM NeverSeenInFuture == Spec => [](\A n \in DOMAIN reg : reg[n].seen <= now)
<1>1. IInv => \A n \in DOMAIN reg : reg[n].seen <= now
  BY DEF IInv, SeenNotInFuture
<1> QED
  BY InductiveInvariant, <1>1, PTL

(* A stamped train is never asked for again before the cooldown has passed   *)
(* since the sighting that preceded its stamp (registry.rs, upsert, ready).  *)
THEOREM CooldownHolds == Spec => []CooldownFromSighting
<1>1. IInv => CooldownFromSighting
  <2> SUFFICES ASSUME IInv, NEW n \in DOMAIN reg, NEW a \in Axes,
                      reg[n].ago[a] # Never, Ready(reg[n], a, now)
               PROVE  now - anchor[n][a] >= Cooldown * Second
    BY DEF CooldownFromSighting
  <2> DEFINE ago == reg[n].ago[a]
             since == Seconds(now - reg[n].seen)
             from  == anchor[n][a]
             seen  == reg[n].seen
  <2>1. n \in Trains /\ reg[n] \in Entry /\ now \in Nat /\ seen <= now /\ from \in Nat
    BY DEF IInv, TypeOK, IsRegistry, SeenNotInFuture
  <2>2. seen \in Nat /\ ago \in Nat
    BY <2>1 DEF Entry
  <2>3. now - seen \in Nat
    BY <2>1, <2>2
  <2>4. since \in Nat /\ since * Second <= now - seen
    BY <2>3, SecondsBound
  <2>5. from + ago * Second <= seen
    BY DEF IInv, Anchored
  <2>6. since + ago >= Cooldown
    BY DEF Ready
  <2> HIDE DEF ago, since, from, seen
  <2>7. (since + ago) * Second >= Cooldown * Second
    BY <2>2, <2>4, <2>6
  <2>8. (since + ago) * Second = since * Second + ago * Second
    BY <2>2, <2>4
  <2>9. since * Second \in Nat /\ ago * Second \in Nat /\ Cooldown * Second \in Nat
    BY <2>2, <2>4
  <2>10. now - from >= Cooldown * Second
    BY <2>1, <2>2, <2>4, <2>5, <2>7, <2>8, <2>9
  <2> QED
    BY <2>10 DEF from
<1> QED
  BY InductiveInvariant, <1>1, PTL

(* A stamp is only lost with its entry: counting never reaches the sentinel. *)
THEOREM StampsKept == Spec => StampKept
<1> DEFINE Kept == \A n \in DOMAIN reg \cap DOMAIN reg' : \A a \in Axes :
                       reg[n].ago[a] # Never => reg'[n].ago[a] # Never
<1>1. IInv /\ [Next]_vars => [Kept]_vars
  <2> SUFFICES ASSUME IInv, Next PROVE Kept
    BY DEF vars
  <2>1. ASSUME NEW n \in Trains, FeedUpsert(n) PROVE Kept
    BY <2>1, UpsertKeeps DEF FeedUpsert
  <2>2. CASE FeedEvict
    BY <2>2 DEF FeedEvict, Without
  <2>3. ASSUME NEW trains, NEW resolved, Stamp(trains, resolved) PROVE Kept
    <3>1. reg' = Stamped(reg, Axis, trains, resolved, now)
      BY <2>3 DEF Stamp
    <3>2. ASSUME NEW m \in DOMAIN reg, NEW a \in Axes, reg[m].ago[a] # Never
          PROVE  reg'[m].ago[a] # Never
      BY <3>1, <3>2, AxisType, StampNotNever
    <3> QED
      BY <3>2
  <2>4. CASE UNCHANGED reg
    BY <2>4
  <2> QED
    BY <2>1, <2>2, <2>3, <2>4 DEF Next, FeedTask, NsTask, Tick, FeedDone, NsNewTrains, NsSweep,
       NsOpen, NsOpenFails, NsAnswer, NsRefusal, NsUnreadable, NsDone, NsBackoffOver
<1> QED
  BY InductiveInvariant, <1>1, PTL DEF Spec, StampKept

(* A train leaves the registry only after STALE_AFTER without a sighting,    *)
(* also while the clock is younger than that (feed.rs, cutoff).              *)
THEOREM OnlyStaleEvicted == Spec => EvictOnlyStale
<1> DEFINE OnlyStale == \A n \in DOMAIN reg \ DOMAIN reg' : now - reg[n].seen > StaleAfter * Second
<1>1. IInv /\ [Next]_vars => [OnlyStale]_vars
  <2> SUFFICES ASSUME IInv, Next PROVE OnlyStale
    BY DEF vars
  <2>1. ASSUME NEW n \in Trains, FeedUpsert(n) PROVE OnlyStale
    BY <2>1, UpsertKeeps DEF FeedUpsert
  <2>2. CASE FeedEvict
    <3>1. CASE Cutoff # now
      <4>1. PICK gone \in Evictions(reg, Cutoff) : reg' = Without(reg, gone)
        BY <2>2, <3>1 DEF FeedEvict
      <4>2. \A n \in DOMAIN reg \ DOMAIN reg' : reg[n].seen < Cutoff
        BY <4>1 DEF Without, Evictions, Older
      <4>3. Cutoff = now - StaleAfter * Second /\ StaleAfter * Second \in Nat /\ now \in Nat
        BY <3>1 DEF Cutoff, IInv, TypeOK
      <4>4. \A n \in DOMAIN reg : reg[n].seen \in Nat
        BY DEF IInv, TypeOK, IsRegistry, Entry
      <4> QED
        BY <4>2, <4>3, <4>4
    <3>2. CASE Cutoff = now
      BY <2>2, <3>2 DEF FeedEvict
    <3> QED
      BY <3>1, <3>2
  <2>3. ASSUME NEW trains, NEW resolved, Stamp(trains, resolved) PROVE OnlyStale
    BY <2>3, AxisType, StampKeeps DEF Stamp
  <2>4. CASE UNCHANGED reg
    BY <2>4
  <2> QED
    BY <2>1, <2>2, <2>3, <2>4 DEF Next, FeedTask, NsTask, Tick, FeedDone, NsNewTrains, NsSweep,
       NsOpen, NsOpenFails, NsAnswer, NsRefusal, NsUnreadable, NsDone, NsBackoffOver
<1> QED
  BY InductiveInvariant, <1>1, PTL DEF Spec, EvictOnlyStale

--------------------------------------------------------------------------------
(* The capacities.                                                           *)

(* What the fixed-size map, channel and buffers of the code can take.        *)
Fits ==
    /\ Cardinality(DOMAIN reg) <= Capacity
    /\ Len(queue) <= QueueCap
    /\ Len(typeBatch) <= TypeCap
    /\ Len(serviceBatch) <= ServiceCap

LEMMA DomainFinite ==
    ASSUME IInv
    PROVE  IsFiniteSet(DOMAIN reg) /\ Cardinality(DOMAIN reg) \in Nat
<1>1. IsFiniteSet(DOMAIN reg)  BY TrainsAssumption, FS_Subset DEF IInv, TypeOK, IsRegistry
<1> QED  BY <1>1, FS_CardinalityType

LEMMA UpsertFits ==
    ASSUME IInv, Cardinality(DOMAIN reg) <= Capacity, NEW n \in Trains
    PROVE  Cardinality(DOMAIN Upserted(reg, n, now)) <= Capacity
<1>1. IsFiniteSet(DOMAIN reg) /\ Cardinality(DOMAIN reg) \in Nat  BY DomainFinite
<1>2. CASE n \in DOMAIN reg
  <2>1. DOMAIN Upserted(reg, n, now) = DOMAIN reg  BY <1>2 DEF Upserted
  <2> QED  BY <2>1
<1>3. CASE n \notin DOMAIN reg /\ Cardinality(DOMAIN reg) < Capacity
  <2>1. DOMAIN Upserted(reg, n, now) = DOMAIN reg \cup {n}  BY <1>3 DEF Upserted, Inserted
  <2>2. Cardinality(DOMAIN reg \cup {n}) = Cardinality(DOMAIN reg) + 1
      BY <1>1, <1>3, FS_AddElement
  <2> QED  BY <1>1, <1>3, <2>1, <2>2
<1>4. CASE n \notin DOMAIN reg /\ ~(Cardinality(DOMAIN reg) < Capacity)
  BY <1>4 DEF Upserted, Inserted
<1> QED  BY <1>2, <1>3, <1>4

LEMMA WithoutFits ==
    ASSUME IInv, Cardinality(DOMAIN reg) <= Capacity, NEW gone
    PROVE  Cardinality(DOMAIN Without(reg, gone)) <= Capacity
<1>1. IsFiniteSet(DOMAIN reg) /\ Cardinality(DOMAIN reg) \in Nat  BY DomainFinite
<1>2. DOMAIN Without(reg, gone) = DOMAIN reg \ gone  BY DEF Without
<1>3. DOMAIN reg \ gone \in SUBSET DOMAIN reg  OBVIOUS
<1>4. /\ IsFiniteSet(DOMAIN reg \ gone)
      /\ Cardinality(DOMAIN reg \ gone) <= Cardinality(DOMAIN reg)
    BY <1>1, <1>3, FS_Subset
<1>5. Cardinality(DOMAIN reg \ gone) \in Nat  BY <1>4, FS_CardinalityType
<1> QED  BY <1>1, <1>2, <1>4, <1>5

LEMMA FillingsFit ==
    ASSUME NEW S, IsFiniteSet(S), NEW cap \in Nat, NEW s \in Fillings(S, cap)
    PROVE  Len(s) <= cap
<1> DEFINE k == Smaller(cap, Cardinality(S))
<1>1. k \in Nat /\ k <= cap  BY FS_CardinalityType DEF Smaller
<1> HIDE DEF k
<1>2. s \in [1 .. k -> S]  BY DEF Fillings, k
<1>3. s \in Seq(S) /\ Len(s) = k
  <2>1. s \in Seq(S)  BY <1>1, <1>2, IsASeq
  <2>2. DOMAIN s = 1 .. Len(s) /\ Len(s) \in Nat  BY <2>1, LenProperties
  <2> QED  BY <1>1, <1>2, <2>1, <2>2
<1> QED  BY <1>1, <1>3

LEMMA RestFits ==
    ASSUME NEW s \in Seq(Trains), NEW m \in Nat \ {0}, NEW t, t = SubSeq(s, m, Len(s))
    PROVE  Len(t) \in Nat /\ Len(t) <= Len(s)
<1>1. Len(s) \in Nat /\ \A i \in m .. Len(s) : s[i] \in Trains  BY LenProperties, ElementOfSeq
<1>2. Len(t) = IF m <= Len(s) THEN Len(s) - m + 1 ELSE 0  BY <1>1, SubSeqProperties
<1>3. Len(t) = IF m <= Len(s) THEN (Len(s) - m) + 1 ELSE 0  BY <1>1, <1>2
<1> QED  BY <1>1, <1>3

LEMMA ProceedFits ==
    ASSUME IInv, Proceed, Asking
    PROVE  Len(typeBatch') <= Len(typeBatch) /\ Len(serviceBatch') <= Len(serviceBatch)
<1>1. /\ typeBatch \in Seq(Trains) /\ serviceBatch \in Seq(Trains)
      /\ Len(typeBatch) \in Nat /\ Len(serviceBatch) \in Nat
    BY LenProperties DEF IInv, TypeOK
<1>2. CASE Axis = "type"
  <2>1. ChunkLen \in Nat  BY <1>1, <1>2 DEF ChunkLen, Smaller
  <2>2. typeBatch' = SubSeq(typeBatch, ChunkLen + 1, Len(typeBatch)) /\ serviceBatch' = serviceBatch
      BY <1>2 DEF Proceed
  <2>3. ChunkLen + 1 \in Nat \ {0}  BY <2>1
  <2>4. Len(typeBatch') <= Len(typeBatch)  BY <1>1, <2>2, <2>3, RestFits
  <2>5. Len(serviceBatch') <= Len(serviceBatch)  BY <1>1, <2>2
  <2> QED  BY <2>4, <2>5
<1>3. CASE Axis # "type"
  <2>1. serviceBatch # <<>>  BY <1>3 DEF Asking, Axis
  <2>2. serviceBatch' = Tail(serviceBatch) /\ typeBatch' = typeBatch  BY <1>3 DEF Proceed
  <2>3. Len(Tail(serviceBatch)) = Len(serviceBatch) - 1  BY <1>1, <2>1, HeadTailProperties
  <2> QED  BY <1>1, <2>2, <2>3
<1> QED  BY <1>2, <1>3

LEMMA GiveUpFits ==
    ASSUME GiveUp
    PROVE  Len(typeBatch') <= TypeCap /\ Len(serviceBatch') <= ServiceCap
<1>1. Len(<<>>) = 0  OBVIOUS
<1> QED  BY <1>1 DEF GiveUp

LEMMA StepFits == IInv /\ Fits /\ [Next]_vars => Fits'
<1> SUFFICES ASSUME IInv, Fits, [Next]_vars PROVE Fits'
  OBVIOUS
<1> USE DEF feedVars, nsVars, Fits
<1>1. CASE Tick \/ FeedDone \/ NsOpen \/ NsDone \/ NsBackoffOver
  BY <1>1 DEF Tick, FeedDone, NsOpen, NsDone, NsBackoffOver
<1>2. CASE FeedEvict
  <2>1. UNCHANGED reg \/ \E gone : reg' = Without(reg, gone)  BY <1>2 DEF FeedEvict
  <2>2. Cardinality(DOMAIN reg') <= Capacity  BY <2>1, WithoutFits
  <2> QED  BY <1>2, <2>2 DEF FeedEvict
<1>3. ASSUME NEW n \in Trains, FeedUpsert(n) PROVE Fits'
  <2>1. Cardinality(DOMAIN reg') <= Capacity  BY <1>3, UpsertFits DEF FeedUpsert
  <2>2. Len(queue') <= QueueCap
    <3>1. queue \in Seq(Trains) /\ Len(queue) \in Nat  BY LenProperties DEF IInv, TypeOK
    <3>2. Len(Append(queue, n)) = Len(queue) + 1  BY <3>1, AppendProperties
    <3> QED  BY <1>3, <3>1, <3>2 DEF FeedUpsert, TrySend
  <2> QED  BY <1>3, <2>1, <2>2 DEF FeedUpsert
<1>4. CASE NsNewTrains
  <2> DEFINE k == Smaller(TypeCap, Len(queue))
             j == Smaller(ServiceCap, k)
  <2>1. queue \in Seq(Trains) /\ Len(queue) \in Nat  BY LenProperties DEF IInv, TypeOK
  <2>2. k \in Nat /\ k <= Len(queue) /\ k <= TypeCap  BY <2>1 DEF Smaller
  <2>3. j \in Nat /\ j <= k /\ j <= ServiceCap  BY <2>2 DEF Smaller
  <2>4. /\ typeBatch' = SubSeq(queue, 1, k) /\ serviceBatch' = SubSeq(queue, 1, j)
        /\ queue' = SubSeq(queue, k + 1, Len(queue))
      BY <1>4 DEF NsNewTrains
  <2> HIDE DEF k, j
  <2>5. Len(SubSeq(queue, 1, k)) = k /\ Len(SubSeq(queue, 1, j)) = j  BY <2>1, <2>2, <2>3
  <2>6. k + 1 \in Nat \ {0}  BY <2>2
  <2>7. Len(queue') <= QueueCap
    <3>1. Len(queue') \in Nat /\ Len(queue') <= Len(queue)  BY <2>1, <2>4, <2>6, RestFits
    <3> QED  BY <2>1, <3>1
  <2> QED  BY <1>4, <2>2, <2>3, <2>4, <2>5, <2>7 DEF NsNewTrains
<1>5. CASE NsSweep
  <2>1. Len(typeBatch') <= TypeCap /\ Len(serviceBatch') <= ServiceCap
      BY <1>5, PendingFinite, FillingsFit DEF NsSweep
  <2> QED  BY <1>5, <2>1 DEF NsSweep
<1>6. CASE NsOpenFails \/ NsUnreadable
  BY <1>6, GiveUpFits DEF NsOpenFails, NsUnreadable
<1>7. CASE NsAnswer
  <2>1. DOMAIN reg' = DOMAIN reg  BY <1>7 DEF NsAnswer, Stamp, Stamped
  <2>2. Len(typeBatch') <= TypeCap /\ Len(serviceBatch') <= ServiceCap
    <3>1. Len(typeBatch') <= Len(typeBatch) /\ Len(serviceBatch') <= Len(serviceBatch)
        BY <1>7, ProceedFits DEF NsAnswer
    <3>2. Len(typeBatch) \in Nat /\ Len(serviceBatch) \in Nat  BY LenProperties DEF IInv, TypeOK
    <3>3. typeBatch' \in Seq(Trains) /\ serviceBatch' \in Seq(Trains)
        BY <1>7, ProceedType DEF NsAnswer
    <3>4. Len(typeBatch') \in Nat /\ Len(serviceBatch') \in Nat  BY <3>3, LenProperties
    <3> QED  BY <3>1, <3>2, <3>4
  <2> QED  BY <1>7, <2>1, <2>2 DEF NsAnswer
<1>8. CASE NsRefusal
  <2>1. DOMAIN reg' = DOMAIN reg  BY <1>8 DEF NsRefusal, Stamp, Stamped
  <2> QED  BY <1>8, <2>1, GiveUpFits DEF NsRefusal
<1>9. CASE UNCHANGED vars
  BY <1>9 DEF vars
<1> QED
  BY <1>1, <1>2, <1>3, <1>4, <1>5, <1>6, <1>7, <1>8, <1>9 DEF Next, FeedTask, NsTask

(* The map of trains, the channel and the buffers of a batch never hold more *)
(* than they have room for, whatever the feed sends: nothing is pushed or    *)
(* inserted where it does not fit, and "at most MAX_TRAINS entries in the    *)
(* map" (registry.rs), on which the pushes of a rebuild rely, is true.       *)
THEOREM AllFits == Spec => []Fits
<1>1. Init => Fits
  <2>1. Len(<<>>) = 0 /\ Cardinality({}) = 0  BY FS_EmptySet
  <2> QED  BY <2>1, EmptyIsRegistry DEF Init, Fits
<1> QED  BY <1>1, StepFits, InductiveInvariant, PTL DEF Spec
================================================================================
