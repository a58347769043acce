--------------------------- MODULE SweepOrderProofs ----------------------------
(* Proofs about SweepOrder, for any number of trains, any capacity of the    *)
(* map and any lengths of the channel and the buffers.                       *)
EXTENDS SweepOrder, TLAPS

--------------------------------------------------------------------------------
(* The two parts of a sequence.                                              *)

(* What is in a sequence is of its kind.                                     *)
LEMMA SeqElement ==
    ASSUME NEW S, NEW s \in Seq(S)
    PROVE  \A i \in 1 .. Len(s) : s[i] \in S
  OBVIOUS

(* Taking the first k elements of a buffer yields its beginning.             *)
LEMMA FrontProperties ==
    ASSUME NEW S, NEW s \in Seq(S), NEW k \in Nat
    PROVE  /\ Front(s, k) \in Seq(S)
           /\ Len(Front(s, k)) = Smaller(k, Len(s))
           /\ Smaller(k, Len(s)) \in 0 .. Len(s)
           /\ Smaller(k, Len(s)) <= k
           /\ \A i \in 1 .. Smaller(k, Len(s)) : Front(s, k)[i] = s[i]
<1>1. Smaller(k, Len(s)) \in 0 .. Len(s) /\ Smaller(k, Len(s)) <= k
  BY DEF Smaller
<1>2. Front(s, k) = [i \in 1 .. Smaller(k, Len(s)) |-> s[i]]
  BY <1>1 DEF Front
<1>3. \A i \in 1 .. Smaller(k, Len(s)) : s[i] \in S
  BY <1>1
<1> QED BY <1>1, <1>2, <1>3

(* Removing the first k elements leaves the others in their order.           *)
LEMMA RestProperties ==
    ASSUME NEW S, NEW s \in Seq(S), NEW k \in Nat
    PROVE  /\ Rest(s, k) \in Seq(S)
           /\ Len(Rest(s, k)) = Len(s) - Smaller(k, Len(s))
           /\ \A i \in 1 .. Len(s) - Smaller(k, Len(s)) :
                  Rest(s, k)[i] = s[i + Smaller(k, Len(s))]
<1> DEFINE j == Smaller(k, Len(s))
<1>1. j \in 0 .. Len(s)
  BY DEF Smaller
<1> HIDE DEF j
<1>2. Rest(s, k) = SubSeq(s, j + 1, Len(s))
  BY DEF Rest, j
<1>3. Rest(s, k) = [i \in 1 .. Len(s) - j |-> s[i + j]]
  BY <1>1, <1>2
<1>4. \A i \in 1 .. Len(s) - j : s[i + j] \in S
  BY <1>1
<1> QED BY <1>1, <1>3, <1>4 DEF j

(* t is what is left of s, without its first c elements.                     *)
Part(t, s, c) == Len(t) + c <= Len(s) /\ \A i \in 1 .. Len(t) : t[i] = s[i + c]

LEMMA FrontIsPart ==
    ASSUME NEW S, NEW s \in Seq(S), NEW k \in Nat
    PROVE  Part(Front(s, k), s, 0)
<1> DEFINE f == Front(s, k)
           j == Smaller(k, Len(s))
<1>1. Len(f) = j /\ j \in 0 .. Len(s) /\ \A i \in 1 .. j : f[i] = s[i]
  BY FrontProperties
<1> HIDE DEF f, j
<1>2. Len(f) + 0 <= Len(s) /\ \A i \in 1 .. Len(f) : f[i] = s[i + 0]
  BY <1>1
<1> QED BY <1>2 DEF Part, f

LEMMA RestIsPart ==
    ASSUME NEW S, NEW s \in Seq(S), NEW k \in Nat
    PROVE  Part(Rest(s, k), s, Smaller(k, Len(s)))
<1> DEFINE r == Rest(s, k)
           j == Smaller(k, Len(s))
<1>1. Len(r) = Len(s) - j /\ \A i \in 1 .. Len(s) - j : r[i] = s[i + j]
  BY RestProperties
<1>2. j \in 0 .. Len(s)
  BY FrontProperties
<1> HIDE DEF r, j
<1>3. Len(r) + j <= Len(s) /\ \A i \in 1 .. Len(r) : r[i] = s[i + j]
  BY <1>1, <1>2
<1> QED BY <1>3 DEF Part, r, j

LEMMA SamePart ==
    ASSUME NEW S, NEW s \in Seq(S)
    PROVE  Part(s, s, 0) /\ Part(<<>>, s, 0)
<1>1. Len(s) \in Nat /\ Len(<<>>) = 0
  OBVIOUS
<1>2. \A i \in 1 .. Len(s) : i + 0 = i
  BY <1>1
<1> QED BY <1>1, <1>2 DEF Part

(* Removing an entry of the map leaves the others, in another order.         *)
Injective(s) == \A i, j \in 1 .. Len(s) : s[i] = s[j] => i = j

LEMMA SwapRemoveProperties ==
    ASSUME NEW S, NEW s \in Seq(S), NEW i \in 1 .. Len(s), Injective(s)
    PROVE  /\ SwapRemove(s, i) \in Seq(S)
           /\ Len(SwapRemove(s, i)) = Len(s) - 1
           /\ Injective(SwapRemove(s, i))
           /\ Elements(SwapRemove(s, i)) = Elements(s) \ {s[i]}
<1> DEFINE t == SwapRemove(s, i)
           l == Len(s)
<1>1. l \in Nat /\ l > 0 /\ \A j \in 1 .. l : s[j] \in S
  OBVIOUS
<1>2. t = [j \in 1 .. l - 1 |-> IF j = i THEN s[l] ELSE s[j]]
  BY DEF SwapRemove
<1> HIDE DEF t
<1>3. t \in Seq(S) /\ Len(t) = l - 1
  <2>1. \A j \in 1 .. l - 1 : (IF j = i THEN s[l] ELSE s[j]) \in S
    BY <1>1
  <2>2. t \in [1 .. l - 1 -> S]
    BY <1>2, <2>1
  <2> QED BY <1>1, <2>2
<1>4. \A j \in 1 .. l - 1 : t[j] = IF j = i THEN s[l] ELSE s[j]
  BY <1>2
<1>5. \A j, k \in 1 .. l : s[j] = s[k] => j = k
  BY DEF Injective
<1> HIDE DEF l
<1>6. Injective(t)
  <2> SUFFICES ASSUME NEW j \in 1 .. l - 1, NEW k \in 1 .. l - 1, t[j] = t[k]
               PROVE  j = k
    BY <1>3 DEF Injective
  <2>1. j \in 1 .. l /\ k \in 1 .. l /\ l \in 1 .. l /\ j # l /\ k # l
    BY <1>1
  <2> QED BY <1>4, <1>5, <2>1
<1>7. \A n : n \in Elements(t) <=> n \in Elements(s) /\ n # s[i]
  <2>1. ASSUME NEW j \in 1 .. l - 1
        PROVE  \E k \in 1 .. l : t[j] = s[k] /\ k # i
    <3>1. j \in 1 .. l /\ l \in 1 .. l /\ j # l
      BY <1>1
    <3> QED BY <1>4, <3>1
  <2>2. ASSUME NEW k \in 1 .. l, k # i
        PROVE  \E j \in 1 .. l - 1 : t[j] = s[k]
    <3>1. CASE k = l
      <4>1. i \in 1 .. l - 1
        BY <1>1, <2>2, <3>1 DEF l
      <4> QED BY <1>4, <3>1, <4>1
    <3>2. CASE k # l
      <4>1. k \in 1 .. l - 1
        BY <1>1, <3>2
      <4> QED BY <1>4, <2>2, <4>1
    <3> QED BY <3>1, <3>2
  <2>3. \A n : n \in Elements(s) <=> \E k \in 1 .. l : n = s[k]
    BY DEF Elements, l
  <2>4. \A n : n \in Elements(t) <=> \E j \in 1 .. l - 1 : n = t[j]
    BY <1>3 DEF Elements
  <2>5. i \in 1 .. l
    BY DEF l
  <2> QED BY <1>5, <2>1, <2>2, <2>3, <2>4, <2>5
<1>8. Elements(t) = Elements(s) \ {s[i]}
  BY <1>7
<1> QED BY <1>3, <1>6, <1>8 DEF t, l

--------------------------------------------------------------------------------
(* The inductive invariant: the map holds a train once and what is known is  *)
(* known of its trains; no train is in two places; what is to be asked for   *)
(* is unknown.  The last two leave out the trains that were queued again.    *)

Registered ==
    /\ Injective(map)
    /\ \A n \in Trains, a \in Axes : n \notin Elements(map) => ~known[n][a]

Unresolved ==
    /\ \A i \in 1 .. Len(queue), a \in Axes : queue[i] \in renewed \/ ~known[queue[i]][a]
    /\ \A i \in 1 .. Len(typeBatch) :
           typeBatch[i] \in renewed \/ ~known[typeBatch[i]]["type"]
    /\ \A i \in 1 .. Len(serviceBatch) :
           serviceBatch[i] \in renewed \/ ~known[serviceBatch[i]]["service"]

IInv == SweepTypeOK /\ Registered /\ NoTrainTwice /\ Unresolved

(* Who waits on is marked if he was; who is marked waits.                    *)
LEMMA HistoryKeeps ==
    ASSUME SweepTypeOK, History
    PROVE  /\ \A i \in 1 .. Len(queue') : queue'[i] \in renewed => queue'[i] \in renewed'
           /\ \A i \in 1 .. Len(typeBatch') :
                  typeBatch'[i] \in renewed => typeBatch'[i] \in renewed'
           /\ \A i \in 1 .. Len(serviceBatch') :
                  serviceBatch'[i] \in renewed => serviceBatch'[i] \in renewed'
           /\ renewed' \subseteq Waiting'
  BY DEF History, Waiting, Elements

LEMMA HistoryType ==
    ASSUME History, queue' \in Seq(Trains), typeBatch' \in Seq(Trains),
           serviceBatch' \in Seq(Trains)
    PROVE  renewed' \subseteq Trains
<1>1. /\ \A i \in 1 .. Len(queue') : queue'[i] \in Trains
      /\ \A i \in 1 .. Len(typeBatch') : typeBatch'[i] \in Trains
      /\ \A i \in 1 .. Len(serviceBatch') : serviceBatch'[i] \in Trains
  OBVIOUS
<1> QED BY <1>1 DEF History, Waiting, Elements

(* What is left of the channel and of the batches is in order, if nothing    *)
(* that is still to be asked for was resolved.                               *)
LEMMA PartsKeep ==
    ASSUME IInv, SweepTypeOK', History,
           NEW c \in Nat, NEW d \in Nat, NEW e \in Nat,
           Part(queue', queue, c), Part(typeBatch', typeBatch, d),
           Part(serviceBatch', serviceBatch, e),
           \A i \in 1 .. Len(queue'), a \in Axes :
               queue'[i] \notin renewed /\ known'[queue'[i]][a] => known[queue'[i]][a],
           \A i \in 1 .. Len(typeBatch') :
               typeBatch'[i] \notin renewed /\ known'[typeBatch'[i]]["type"]
                   => known[typeBatch'[i]]["type"],
           \A i \in 1 .. Len(serviceBatch') :
               serviceBatch'[i] \notin renewed /\ known'[serviceBatch'[i]]["service"]
                   => known[serviceBatch'[i]]["service"]
    PROVE  NoTrainTwice' /\ Unresolved'
<1>1. /\ Len(queue) \in Nat /\ Len(typeBatch) \in Nat /\ Len(serviceBatch) \in Nat
      /\ Len(queue') \in Nat /\ Len(typeBatch') \in Nat /\ Len(serviceBatch') \in Nat
  BY DEF IInv, SweepTypeOK
<1>2. \A i \in 1 .. Len(queue') : i + c \in 1 .. Len(queue) /\ queue'[i] = queue[i + c]
  BY <1>1 DEF Part
<1>3. \A i \in 1 .. Len(typeBatch') :
          i + d \in 1 .. Len(typeBatch) /\ typeBatch'[i] = typeBatch[i + d]
  BY <1>1 DEF Part
<1>4. \A i \in 1 .. Len(serviceBatch') :
          i + e \in 1 .. Len(serviceBatch) /\ serviceBatch'[i] = serviceBatch[i + e]
  BY <1>1 DEF Part
<1>5. /\ \A i \in 1 .. Len(queue') : queue'[i] \in renewed => queue'[i] \in renewed'
      /\ \A i \in 1 .. Len(typeBatch') :
             typeBatch'[i] \in renewed => typeBatch'[i] \in renewed'
      /\ \A i \in 1 .. Len(serviceBatch') :
             serviceBatch'[i] \in renewed => serviceBatch'[i] \in renewed'
  BY HistoryKeeps DEF IInv
<1>6. \A i, j \in Nat : i # j => i + c # j + c /\ i + d # j + d /\ i + e # j + e
  OBVIOUS
<1>7. Once(queue)' /\ Once(typeBatch)' /\ Once(serviceBatch)'
  <2>1. Once(queue)'
    BY <1>2, <1>5, <1>6 DEF IInv, NoTrainTwice, Once
  <2>2. Once(typeBatch)'
    BY <1>3, <1>5, <1>6 DEF IInv, NoTrainTwice, Once
  <2>3. Once(serviceBatch)'
    BY <1>4, <1>5, <1>6 DEF IInv, NoTrainTwice, Once
  <2> QED BY <2>1, <2>2, <2>3
<1>8. Apart(queue, typeBatch)' /\ Apart(queue, serviceBatch)'
  BY <1>2, <1>3, <1>4, <1>5 DEF IInv, NoTrainTwice, Apart
<1>9. Unresolved'
  BY <1>2, <1>3, <1>4, <1>5 DEF IInv, Unresolved
<1> QED BY <1>7, <1>8, <1>9 DEF NoTrainTwice

(* In particular if nothing at all was resolved.                             *)
LEMMA MonotoneKeeps ==
    ASSUME IInv, SweepTypeOK', History,
           NEW c \in Nat, NEW d \in Nat, NEW e \in Nat,
           Part(queue', queue, c), Part(typeBatch', typeBatch, d),
           Part(serviceBatch', serviceBatch, e),
           \A n \in Trains, a \in Axes : known'[n][a] => known[n][a]
    PROVE  NoTrainTwice' /\ Unresolved'
<1>1. /\ \A i \in 1 .. Len(queue') : queue'[i] \in Trains
      /\ \A i \in 1 .. Len(typeBatch') : typeBatch'[i] \in Trains
      /\ \A i \in 1 .. Len(serviceBatch') : serviceBatch'[i] \in Trains
  BY DEF SweepTypeOK
<1>2. "type" \in Axes /\ "service" \in Axes
  BY DEF Axes
<1> QED BY <1>1, <1>2, PartsKeep

--------------------------------------------------------------------------------
(* The types.                                                                *)

(* A cooldown only gets shorter while the task sleeps.                       *)
LEMMA SleepType ==
    ASSUME SweepTypeOK, Sleep
    PROVE  npc' = "sleep" /\ cooling' \in [Trains -> [Axes -> 0 .. CooldownWakes]]
<1>1. \A n \in Trains, a \in Axes : cooling[n][a] \in 0 .. CooldownWakes
  BY DEF SweepTypeOK
<1>2. \A x \in 0 .. CooldownWakes : (IF x > 0 THEN x - 1 ELSE 0) \in 0 .. CooldownWakes
  BY SweepAssumption
<1>3. \A n \in Trains, a \in Axes :
          (IF cooling[n][a] > 0 THEN cooling[n][a] - 1 ELSE 0) \in 0 .. CooldownWakes
  BY <1>1, <1>2
<1> QED BY <1>3 DEF Sleep

(* An answer or a refusal keeps the types of what it stamps, and stamps only *)
(* trains in the map.                                                        *)
LEMMA StampType ==
    ASSUME SweepTypeOK, NEW trains, NEW resolved, Stamp(trains, resolved)
    PROVE  /\ known' \in [Trains -> [Axes -> BOOLEAN]]
           /\ cooling' \in [Trains -> [Axes -> 0 .. CooldownWakes]]
           /\ \A n \in Trains, a \in Axes :
                  (n \notin trains \/ n \notin Elements(map) \/ a # Axis)
                      => known'[n][a] = known[n][a]
           /\ \A n \in Trains : n \in trains \cap Elements(map)
                                   => known'[n][Axis] = (n \in resolved)
<1> DEFINE T == trains \cap Elements(map)
<1>1. Axis \in Axes
  BY DEF Axis, Axes
<1>2. /\ known' = [n \in Trains |->
             IF n \in T THEN [known[n] EXCEPT ![Axis] = n \in resolved] ELSE known[n]]
      /\ cooling' = [n \in Trains |->
             IF n \in T THEN [cooling[n] EXCEPT ![Axis] = CooldownWakes] ELSE cooling[n]]
  BY DEF Stamp
<1> HIDE DEF T
<1>3. \A n \in Trains : known[n] \in [Axes -> BOOLEAN]
  BY DEF SweepTypeOK
<1>4. \A f \in [Axes -> BOOLEAN], b \in BOOLEAN : [f EXCEPT ![Axis] = b] \in [Axes -> BOOLEAN]
  OBVIOUS
<1>5. \A n \in Trains : (n \in resolved) \in BOOLEAN
  OBVIOUS
<1>6. known' \in [Trains -> [Axes -> BOOLEAN]]
  <2>1. ASSUME NEW n \in Trains
        PROVE  [known[n] EXCEPT ![Axis] = n \in resolved] \in [Axes -> BOOLEAN]
    BY <1>3, <1>4, <1>5
  <2> QED BY <1>2, <1>3, <2>1
<1>7. cooling' \in [Trains -> [Axes -> 0 .. CooldownWakes]]
  <2>1. \A n \in Trains : cooling[n] \in [Axes -> 0 .. CooldownWakes]
    BY DEF SweepTypeOK
  <2>2. CooldownWakes \in 0 .. CooldownWakes
    BY SweepAssumption
  <2>3. \A n \in Trains : [cooling[n] EXCEPT ![Axis] = CooldownWakes] \in [Axes -> 0 .. CooldownWakes]
    BY <2>1, <2>2
  <2> QED BY <1>2, <2>1, <2>3
<1>8. ASSUME NEW n \in Trains, NEW a \in Axes, n \notin T \/ a # Axis
      PROVE  known'[n][a] = known[n][a]
  <2>1. known[n] \in [Axes -> BOOLEAN]
    BY <1>3
  <2> QED BY <1>1, <1>2, <1>8, <2>1
<1>9. ASSUME NEW n \in Trains, n \in T
      PROVE  known'[n][Axis] = (n \in resolved)
  <2>1. known'[n] = [known[n] EXCEPT ![Axis] = n \in resolved]
    BY <1>2, <1>9
  <2>2. known[n] \in [Axes -> BOOLEAN]
    BY <1>3
  <2> QED BY <1>1, <2>1, <2>2
<1> QED BY <1>6, <1>7, <1>8, <1>9 DEF T

(* What a sweep finds is registered and unknown, and each train once.        *)
LEMMA PendingBatch ==
    ASSUME map \in Seq(Trains), Injective(map), NEW a, NEW cap \in Nat,
           NEW s \in PendingEnrichment(a, cap)
    PROVE  /\ s \in Seq(Trains) /\ Len(s) <= cap
           /\ Injective(s)
           /\ \A i \in 1 .. Len(s) : ~known[s[i]][a]
<1>1. PICK f \in FirstOf(Pending(a), cap) : s = [i \in DOMAIN f |-> map[f[i]]]
  BY DEF PendingEnrichment
<1>2. PICK k \in 0 .. cap : f \in [1 .. k -> DOMAIN map]
  BY DEF FirstOf
<1>3. k \in Nat /\ Len(f) = k /\ DOMAIN f = 1 .. k
  BY <1>2
<1>4. Ascending(f) /\ Elements(f) \subseteq Pending(a)
  BY DEF FirstOf
<1>5. \A i \in 1 .. k : f[i] \in 1 .. Len(map) /\ ~known[map[f[i]]][a]
  BY <1>2, <1>3, <1>4 DEF Elements, Pending
<1>6. s = [i \in 1 .. k |-> map[f[i]]]
  BY <1>1, <1>3
<1>7. s \in Seq(Trains) /\ Len(s) = k
  <2>1. \A i \in 1 .. k : map[f[i]] \in Trains
    BY <1>5, SeqElement
  <2> QED BY <1>3, <1>6, <2>1
<1>8. \A i, j \in 1 .. k : i < j => f[i] # f[j]
  <2>1. \A i, j \in 1 .. k : i < j => f[i] < f[j]
    BY <1>3, <1>4 DEF Ascending
  <2>2. \A i \in 1 .. k : f[i] \in Int
    BY <1>5
  <2> QED BY <2>1, <2>2
<1>9. Injective(s)
  <2> SUFFICES ASSUME NEW i \in 1 .. k, NEW j \in 1 .. k, s[i] = s[j]
               PROVE  i = j
    BY <1>7 DEF Injective
  <2>1. map[f[i]] = map[f[j]]
    BY <1>6
  <2>2. f[i] = f[j]
    BY <1>5, <2>1 DEF Injective
  <2>3. ~(i < j) /\ ~(j < i)
    BY <1>8, <2>2
  <2> QED BY <1>3, <2>3
<1> QED BY <1>3, <1>5, <1>6, <1>7, <1>9

(* What is asked for is the beginning of a batch.                            *)
LEMMA AskedPlaces ==
    ASSUME SweepTypeOK, Asking
    PROVE  \/ /\ Axis = "type"
              /\ \E k \in 0 .. Len(typeBatch) :
                     /\ k = Smaller(BatchMax, Len(typeBatch))
                     /\ \A n \in AskedSet : \E i \in 1 .. k : n = typeBatch[i]
           \/ /\ Axis = "service" /\ typeBatch = <<>>
              /\ Len(serviceBatch) \in Nat \ {0}
              /\ AskedSet = {serviceBatch[1]}
<1>1. CASE Axis = "type"
  <2> DEFINE k == Smaller(BatchMax, Len(typeBatch))
             f == Front(typeBatch, BatchMax)
  <2>1. AskedSet = Elements(f)
    BY <1>1 DEF AskedSet, Asked
  <2>2. /\ k \in 0 .. Len(typeBatch) /\ Len(f) = k
        /\ \A i \in 1 .. k : f[i] = typeBatch[i]
    BY SweepAssumption, FrontProperties DEF SweepTypeOK
  <2>3. \A n \in AskedSet : \E i \in 1 .. k : n = typeBatch[i]
    <3> HIDE DEF f, k
    <3> QED BY <2>1, <2>2 DEF Elements
  <2> QED BY <1>1, <2>2, <2>3
<1>2. CASE Axis # "type"
  <2>1. Axis = "service" /\ typeBatch = <<>>
    BY <1>2 DEF Axis
  <2>2. Len(serviceBatch) \in Nat \ {0}
    BY <2>1 DEF Asking, SweepTypeOK
  <2>3. AskedSet = {serviceBatch[1]}
    BY <1>2 DEF AskedSet, Asked, Elements
  <2> QED BY <2>1, <2>2, <2>3
<1> QED BY <1>1, <1>2

(* Nothing is asked for that is known, but for trains queued again.          *)
LEMMA AskedIsUnknown ==
    ASSUME IInv, Asking
    PROVE  \A n \in AskedSet : n \in Trains /\ (n \in renewed \/ ~known[n][Axis])
<1>1. SweepTypeOK
  BY DEF IInv
<1>2. CASE Axis = "type" /\ \E k \in 0 .. Len(typeBatch) :
               \A n \in AskedSet : \E i \in 1 .. k : n = typeBatch[i]
  <2>1. PICK k \in 0 .. Len(typeBatch) : \A n \in AskedSet : \E i \in 1 .. k : n = typeBatch[i]
    BY <1>2
  <2>2. Len(typeBatch) \in Nat
    BY <1>1 DEF SweepTypeOK
  <2>3. \A i \in 1 .. k : i \in 1 .. Len(typeBatch) /\ typeBatch[i] \in Trains
    BY <1>1, <2>2 DEF SweepTypeOK
  <2> QED BY <1>2, <2>1, <2>3 DEF IInv, Unresolved
<1>3. CASE /\ Axis = "service" /\ typeBatch = <<>> /\ Len(serviceBatch) \in Nat \ {0}
           /\ AskedSet = {serviceBatch[1]}
  <2>1. 1 \in 1 .. Len(serviceBatch) /\ serviceBatch[1] \in Trains
    BY <1>1, <1>3 DEF SweepTypeOK
  <2> QED BY <1>3, <2>1 DEF IInv, Unresolved
<1> QED BY <1>1, <1>2, <1>3, AskedPlaces

--------------------------------------------------------------------------------
(* The steps.                                                                *)

(* A new train goes behind those in the map and those in the channel, where  *)
(* there is room.                                                            *)
LEMMA FeedNewKeeps ==
    ASSUME IInv, NEW n \in Trains, FeedNew(n)
    PROVE  IInv' /\ known' = known
<1>1. n \notin Elements(map) /\ Insert(n) /\ History
      /\ UNCHANGED <<known, cooling, npc, typeBatch, serviceBatch>>
  BY DEF FeedNew
<1>2. /\ map' \in Seq(Trains) /\ Len(map') <= Capacity
      /\ Registered'
  <2>1. CASE Len(map) < Capacity
    <3>1. map' = Append(map, n)
      BY <1>1, <2>1 DEF Insert
    <3>2. map \in Seq(Trains) /\ Capacity \in Nat
      BY SweepAssumption DEF IInv, SweepTypeOK
    <3>3. /\ map' \in Seq(Trains) /\ Len(map') = Len(map) + 1 /\ Len(map) \in Nat
          /\ \A i \in 1 .. Len(map) : map'[i] = map[i]
          /\ map'[Len(map) + 1] = n
      BY <3>1, <3>2
    <3>4. \A i \in 1 .. Len(map') : i \in 1 .. Len(map) \/ i = Len(map) + 1
      BY <3>3
    <3>5. \A i \in 1 .. Len(map) : map[i] # n
      BY <1>1 DEF Elements
    <3>6. Injective(map)'
      BY <3>3, <3>4, <3>5 DEF IInv, Registered, Injective
    <3>7. Elements(map) \subseteq Elements(map')
      BY <3>3 DEF Elements
    <3>8. \A m \in Trains, a \in Axes : m \notin Elements(map') => ~known'[m][a]
      BY <1>1, <3>7 DEF IInv, Registered
    <3> QED BY <2>1, <3>2, <3>3, <3>6, <3>8 DEF Registered
  <2>2. CASE ~(Len(map) < Capacity)
    <3>1. map' = map
      BY <2>2, <1>1 DEF Insert
    <3> QED BY <1>1, <3>1 DEF IInv, SweepTypeOK, Registered
  <2> QED BY <2>1, <2>2
<1>3. CASE Len(queue) < QueueCap
  <2>1. queue' = Append(queue, n)
    BY <1>3 DEF FeedNew
  <2>2. queue \in Seq(Trains) /\ QueueCap \in Nat
    BY SweepAssumption DEF IInv, SweepTypeOK
  <2>3. /\ queue' \in Seq(Trains) /\ Len(queue') = Len(queue) + 1 /\ Len(queue) \in Nat
        /\ \A i \in 1 .. Len(queue) : queue'[i] = queue[i]
        /\ queue'[Len(queue) + 1] = n
    BY <2>1, <2>2
  <2>4. \A i \in 1 .. Len(queue') : i \in 1 .. Len(queue) \/ i = Len(queue) + 1
    BY <2>3
  <2>5. typeBatch' \in Seq(Trains) /\ serviceBatch' \in Seq(Trains)
    BY <1>1 DEF IInv, SweepTypeOK
  <2>6. renewed' \subseteq Trains
    BY <1>1, <2>3, <2>5, HistoryType
  <2>7. SweepTypeOK'
    BY <1>1, <1>2, <1>3, <2>2, <2>3, <2>6 DEF IInv, SweepTypeOK
  <2>8. /\ \A i \in 1 .. Len(queue) : queue[i] \in renewed => queue[i] \in renewed'
        /\ \A i \in 1 .. Len(typeBatch) : typeBatch[i] \in renewed => typeBatch[i] \in renewed'
        /\ \A i \in 1 .. Len(serviceBatch) :
               serviceBatch[i] \in renewed => serviceBatch[i] \in renewed'
    <3>1. \A i \in 1 .. Len(queue) : i \in 1 .. Len(queue')
      BY <2>3
    <3> QED BY <1>1, <2>3, <3>1, HistoryKeeps DEF IInv
  <2>9. n \in Waiting => n \in renewed'
    <3>1. n \in Waiting'
      BY <2>3 DEF Waiting, Elements
    <3> QED BY <1>1, <2>1, <3>1 DEF History
  <2>10. /\ \A i \in 1 .. Len(queue) : queue[i] = n => n \in renewed'
         /\ \A i \in 1 .. Len(typeBatch) : typeBatch[i] = n => n \in renewed'
         /\ \A i \in 1 .. Len(serviceBatch) : serviceBatch[i] = n => n \in renewed'
    BY <2>9 DEF Waiting, Elements
  <2>11. NoTrainTwice'
    <3>1. Once(queue)'
      BY <2>3, <2>4, <2>8, <2>10 DEF IInv, NoTrainTwice, Once
    <3>2. Once(typeBatch)' /\ Once(serviceBatch)'
      BY <1>1, <2>8 DEF IInv, NoTrainTwice, Once
    <3>3. Apart(queue, typeBatch)' /\ Apart(queue, serviceBatch)'
      BY <1>1, <2>3, <2>4, <2>8, <2>10 DEF IInv, NoTrainTwice, Apart
    <3> QED BY <3>1, <3>2, <3>3 DEF NoTrainTwice
  <2>12. \A a \in Axes : ~known[n][a]
    BY <1>1 DEF IInv, Registered
  <2>13. Unresolved'
    BY <1>1, <2>3, <2>4, <2>8, <2>12 DEF IInv, Unresolved
  <2> QED BY <1>1, <1>2, <2>7, <2>11, <2>13 DEF IInv
<1>4. CASE ~(Len(queue) < QueueCap)
  <2>1. queue' = queue
    BY <1>4 DEF FeedNew
  <2>2. renewed' \subseteq Trains
    BY <1>1, <2>1, HistoryType DEF IInv, SweepTypeOK
  <2>3. SweepTypeOK'
    BY <1>1, <1>2, <2>1, <2>2 DEF IInv, SweepTypeOK
  <2>4. Part(queue', queue, 0) /\ Part(typeBatch', typeBatch, 0)
        /\ Part(serviceBatch', serviceBatch, 0)
    BY <1>1, <2>1, SamePart DEF IInv, SweepTypeOK
  <2>5. NoTrainTwice' /\ Unresolved'
    BY <1>1, <2>3, <2>4, PartsKeep
  <2> QED BY <1>1, <1>2, <2>3, <2>5 DEF IInv
<1> QED BY <1>3, <1>4

(* An evicted train may still be waiting, but nothing is known of it.        *)
LEMMA FeedEvictKeeps ==
    ASSUME IInv, NEW i \in DOMAIN map, FeedEvict(i)
    PROVE  /\ IInv'
           /\ \A n \in Elements(map) \cap Elements(map'), a \in Axes :
                  known[n][a] => known'[n][a]
<1>1. map \in Seq(Trains) /\ i \in 1 .. Len(map) /\ Injective(map) /\ map[i] \in Trains
  BY DEF IInv, SweepTypeOK, Registered
<1>2. /\ map' = SwapRemove(map, i) /\ History
      /\ known' = [known EXCEPT ![map[i]] = [a \in Axes |-> FALSE]]
      /\ cooling' = [cooling EXCEPT ![map[i]] = [a \in Axes |-> 0]]
      /\ UNCHANGED <<queue, npc, typeBatch, serviceBatch>>
  BY DEF FeedEvict
<1>3. /\ map' \in Seq(Trains) /\ Len(map') = Len(map) - 1
      /\ Injective(map') /\ Elements(map') = Elements(map) \ {map[i]}
  BY <1>1, <1>2, SwapRemoveProperties
<1>4. known' \in [Trains -> [Axes -> BOOLEAN]]
  <2>1. [a \in Axes |-> FALSE] \in [Axes -> BOOLEAN]
    OBVIOUS
  <2> QED BY <1>1, <1>2, <2>1 DEF IInv, SweepTypeOK
<1>5. cooling' \in [Trains -> [Axes -> 0 .. CooldownWakes]]
  <2>1. [a \in Axes |-> 0] \in [Axes -> 0 .. CooldownWakes]
    BY SweepAssumption
  <2> QED BY <1>1, <1>2, <2>1 DEF IInv, SweepTypeOK
<1>6. renewed' \subseteq Trains
  BY <1>2, HistoryType DEF IInv, SweepTypeOK
<1>7. SweepTypeOK'
  <2>1. Len(map') <= Capacity
    BY <1>1, <1>3, SweepAssumption DEF IInv, SweepTypeOK
  <2> QED BY <1>2, <1>3, <1>4, <1>5, <1>6, <2>1 DEF IInv, SweepTypeOK
<1>8. /\ \A n \in Trains, a \in Axes : n # map[i] => known'[n][a] = known[n][a]
      /\ \A a \in Axes : ~known'[map[i]][a]
  <2>1. known \in [Trains -> [Axes -> BOOLEAN]]
    BY DEF IInv, SweepTypeOK
  <2>2. \A n \in Trains : n # map[i] => known'[n] = known[n]
    BY <1>2, <2>1
  <2>3. known'[map[i]] = [a \in Axes |-> FALSE]
    BY <1>1, <1>2, <2>1
  <2> QED BY <2>2, <2>3
<1>9. Registered'
  <2>1. \A n \in Trains, a \in Axes : n \notin Elements(map') => ~known'[n][a]
    BY <1>3, <1>8 DEF IInv, Registered
  <2> QED BY <1>3, <2>1 DEF Registered, Injective
<1>10. \A n \in Trains, a \in Axes : known'[n][a] => known[n][a]
  BY <1>8
<1>11. Part(queue', queue, 0) /\ Part(typeBatch', typeBatch, 0)
       /\ Part(serviceBatch', serviceBatch, 0)
  BY <1>2, SamePart DEF IInv, SweepTypeOK
<1>12. NoTrainTwice' /\ Unresolved'
  BY <1>2, <1>7, <1>10, <1>11, MonotoneKeeps
<1>13. \A n \in Elements(map) \cap Elements(map') : n \in Trains /\ n # map[i]
  <2>1. \A j \in 1 .. Len(map) : map[j] \in Trains
    BY <1>1
  <2>2. \A n \in Elements(map) : n \in Trains
    BY <2>1 DEF Elements
  <2> QED BY <1>3, <2>2
<1> QED BY <1>7, <1>8, <1>9, <1>12, <1>13 DEF IInv

(* New trains leave the channel for the batches from its front.              *)
LEMMA TakeNewKeeps ==
    ASSUME IInv, TakeNew
    PROVE  IInv'
<1> DEFINE k == Smaller(TypeCap, Len(queue))
           f == Front(queue, TypeCap)
           r == Rest(queue, TypeCap)
           v == Front(f, ServiceCap)
           l == Smaller(ServiceCap, Len(f))
<1>1. queue \in Seq(Trains) /\ Len(queue) \in Nat
  BY DEF IInv, SweepTypeOK
<1>2. /\ f \in Seq(Trains) /\ Len(f) = k /\ k \in 0 .. Len(queue) /\ k <= TypeCap
      /\ \A i \in 1 .. k : f[i] = queue[i]
  BY <1>1, FrontProperties, SweepAssumption
<1>3. /\ r \in Seq(Trains) /\ Len(r) = Len(queue) - k
      /\ \A i \in 1 .. Len(queue) - k : r[i] = queue[i + k]
  BY <1>1, RestProperties, SweepAssumption
<1>4. /\ v \in Seq(Trains) /\ Len(v) = l /\ l \in 0 .. k /\ l <= ServiceCap
      /\ \A i \in 1 .. l : v[i] = queue[i]
  <2>1. /\ v \in Seq(Trains) /\ Len(v) = l /\ l \in 0 .. Len(f) /\ l <= ServiceCap
        /\ \A i \in 1 .. l : v[i] = f[i]
    BY <1>2, FrontProperties, SweepAssumption
  <2> QED BY <1>2, <2>1
<1>5. /\ typeBatch' = f /\ serviceBatch' = v /\ queue' = r /\ npc' = "open" /\ History
      /\ UNCHANGED <<map, known, cooling>>
  BY DEF TakeNew
<1> HIDE DEF k, f, r, v, l
<1>6. renewed' \subseteq Trains
  BY <1>2, <1>3, <1>4, <1>5, HistoryType
<1>7. SweepTypeOK'
  <2>1. Len(r) <= QueueCap
    BY <1>1, <1>2, <1>3, SweepAssumption DEF IInv, SweepTypeOK
  <2> QED BY <1>2, <1>3, <1>4, <1>5, <1>6, <2>1 DEF IInv, SweepTypeOK
<1>8. /\ \A i \in 1 .. k : i \in 1 .. Len(queue)
      /\ \A i \in 1 .. l : i \in 1 .. k
      /\ \A i \in 1 .. Len(queue) - k : i + k \in 1 .. Len(queue) /\ i + k > k
  BY <1>1, <1>2, <1>4
<1>9. /\ \A i \in 1 .. Len(queue) - k : r[i] \in renewed => r[i] \in renewed'
      /\ \A i \in 1 .. k : f[i] \in renewed => f[i] \in renewed'
      /\ \A i \in 1 .. l : v[i] \in renewed => v[i] \in renewed'
  BY <1>2, <1>3, <1>4, <1>5, HistoryKeeps DEF IInv
<1>10. \A i, j \in 1 .. Len(queue) : i # j /\ queue[i] = queue[j] => queue[i] \in renewed
  BY DEF IInv, NoTrainTwice, Once
<1>11. NoTrainTwice'
  <2>1. Once(typeBatch)'
    BY <1>2, <1>5, <1>8, <1>9, <1>10 DEF Once
  <2>2. Once(serviceBatch)'
    BY <1>2, <1>4, <1>5, <1>8, <1>9, <1>10 DEF Once
  <2>3. Once(queue)'
    <3> SUFFICES ASSUME NEW i \in 1 .. Len(queue) - k, NEW j \in 1 .. Len(queue) - k,
                        i # j, r[i] = r[j]
                 PROVE  r[i] \in renewed'
      BY <1>3, <1>5 DEF Once
    <3>1. i + k # j + k
      BY <1>1, <1>2
    <3> QED BY <1>3, <1>8, <1>9, <1>10, <3>1
  <2>4. \A i \in 1 .. Len(queue) - k, j \in 1 .. k : r[i] = queue[j] => r[i] \in renewed'
    <3> SUFFICES ASSUME NEW i \in 1 .. Len(queue) - k, NEW j \in 1 .. k, r[i] = queue[j]
                 PROVE  r[i] \in renewed'
      OBVIOUS
    <3>1. i + k # j /\ i + k \in 1 .. Len(queue) /\ j \in 1 .. Len(queue)
      BY <1>1, <1>2, <1>8
    <3> QED BY <1>3, <1>9, <1>10, <3>1
  <2>5. Apart(queue, typeBatch)' /\ Apart(queue, serviceBatch)'
    <3>1. \A i \in 1 .. Len(r), j \in 1 .. Len(f) : r[i] = f[j] => r[i] \in renewed'
      BY <1>2, <1>3, <2>4
    <3>2. \A i \in 1 .. Len(r), j \in 1 .. Len(v) : r[i] = v[j] => r[i] \in renewed'
      BY <1>3, <1>4, <1>8, <2>4
    <3> QED BY <1>5, <3>1, <3>2 DEF Apart
  <2> QED BY <2>1, <2>2, <2>3, <2>5 DEF NoTrainTwice
<1>12. Unresolved'
  <2>1. \A i \in 1 .. Len(queue), a \in Axes : queue[i] \in renewed \/ ~known[queue[i]][a]
    BY DEF IInv, Unresolved
  <2>2. \A i \in 1 .. Len(r), a \in Axes : r[i] \in renewed' \/ ~known[r[i]][a]
    BY <1>3, <1>8, <1>9, <2>1
  <2>3. \A i \in 1 .. Len(f) : f[i] \in renewed' \/ ~known[f[i]]["type"]
    BY <1>2, <1>8, <1>9, <2>1 DEF Axes
  <2>4. \A i \in 1 .. Len(v) : v[i] \in renewed' \/ ~known[v[i]]["service"]
    BY <1>4, <1>8, <1>9, <2>1 DEF Axes
  <2> QED BY <1>5, <2>2, <2>3, <2>4 DEF Unresolved
<1>13. Registered'
  BY <1>5 DEF IInv, Registered
<1> QED BY <1>7, <1>11, <1>12, <1>13 DEF IInv

(* A sweep asks for what is unknown, when the channel is empty.              *)
LEMMA SweepRegistryKeeps ==
    ASSUME IInv, SweepRegistry
    PROVE  IInv'
<1>1. map \in Seq(Trains) /\ Injective(map)
  BY DEF IInv, SweepTypeOK, Registered
<1>2. /\ typeBatch' \in Seq(Trains) /\ Len(typeBatch') <= TypeCap
      /\ Injective(typeBatch')
      /\ \A i \in 1 .. Len(typeBatch') : ~known[typeBatch'[i]]["type"]
  <2>1. typeBatch' \in PendingEnrichment("type", TypeCap) /\ TypeCap \in Nat
    BY SweepAssumption DEF SweepRegistry
  <2> QED BY <1>1, <2>1, PendingBatch
<1>3. /\ serviceBatch' \in Seq(Trains) /\ Len(serviceBatch') <= ServiceCap
      /\ Injective(serviceBatch')
      /\ \A i \in 1 .. Len(serviceBatch') : ~known[serviceBatch'[i]]["service"]
  <2>1. serviceBatch' \in PendingEnrichment("service", ServiceCap) /\ ServiceCap \in Nat
    BY SweepAssumption DEF SweepRegistry
  <2> QED BY <1>1, <2>1, PendingBatch
<1>4. queue' = <<>> /\ queue = <<>> /\ map' = map /\ known' = known /\ History
  BY DEF SweepRegistry
<1>5. npc' \in {"sleep", "open"} /\ cooling' \in [Trains -> [Axes -> 0 .. CooldownWakes]]
  BY SleepType DEF IInv, SweepRegistry, SweepTypeOK
<1>6. renewed' \subseteq Trains
  BY <1>2, <1>3, <1>4, HistoryType DEF IInv, SweepTypeOK
<1>7. SweepTypeOK'
  BY <1>2, <1>3, <1>4, <1>5, <1>6 DEF IInv, SweepTypeOK
<1>8. NoTrainTwice'
  BY <1>2, <1>3, <1>4 DEF NoTrainTwice, Once, Apart, Injective
<1>9. Unresolved' /\ Registered'
  BY <1>2, <1>3, <1>4 DEF IInv, Unresolved, Registered
<1> QED BY <1>7, <1>8, <1>9 DEF IInv

(* A chunk that is answered leaves its batch.  Who is asked for a second     *)
(* time, and may lose what was known, was queued again.                      *)
LEMMA AnswerKeeps ==
    ASSUME IInv, Answer
    PROVE  /\ IInv'
           /\ \A n \in Elements(map), a \in Axes :
                  known[n][a] /\ n \notin renewed => known'[n][a]
<1>1. SweepTypeOK /\ Asking /\ Registered /\ NoTrainTwice
  BY DEF IInv, Answer
<1>2. PICK trains \in SUBSET AskedSet : \E resolved \in SUBSET trains : Stamp(trains, resolved)
  BY DEF Answer
<1>3. /\ known' \in [Trains -> [Axes -> BOOLEAN]]
      /\ cooling' \in [Trains -> [Axes -> 0 .. CooldownWakes]]
      /\ \A n \in Trains, a \in Axes :
             (n \notin AskedSet \/ n \notin Elements(map) \/ a # Axis)
                 => known'[n][a] = known[n][a]
  BY <1>1, <1>2, StampType
<1>4. map' = map /\ queue' = queue /\ npc' = npc /\ History
  BY DEF Answer
<1>5. /\ queue \in Seq(Trains) /\ typeBatch \in Seq(Trains) /\ serviceBatch \in Seq(Trains)
      /\ Len(queue) \in Nat /\ Len(typeBatch) \in Nat /\ Len(serviceBatch) \in Nat
  BY <1>1 DEF SweepTypeOK
<1>6. /\ \A i \in 1 .. Len(map) : map[i] \in Trains
      /\ \A i \in 1 .. Len(queue) : queue[i] \in Trains
      /\ \A i \in 1 .. Len(typeBatch) : typeBatch[i] \in Trains
      /\ \A i \in 1 .. Len(serviceBatch) : serviceBatch[i] \in Trains
  BY <1>1 DEF SweepTypeOK
<1>7. "type" \in Axes /\ "service" \in Axes
  BY DEF Axes
<1>8. \A n \in Elements(map), a \in Axes : known[n][a] /\ n \notin renewed => known'[n][a]
  <2> SUFFICES ASSUME NEW n \in Elements(map), NEW a \in Axes, known[n][a], n \notin renewed
               PROVE  known'[n][a]
    OBVIOUS
  <2>1. n \in Trains
    BY <1>6 DEF Elements
  <2>2. n \notin AskedSet \/ a # Axis
    BY <1>1, AskedIsUnknown
  <2> QED BY <1>3, <2>1, <2>2
<1>9. Registered'
  <2>1. \A n \in Trains, a \in Axes : n \notin Elements(map) => ~known'[n][a]
    BY <1>1, <1>3 DEF Registered
  <2> QED BY <1>1, <1>4, <2>1 DEF Registered
<1>10. CASE Axis = "type"
  <2>1. PICK k \in 0 .. Len(typeBatch) :
            /\ k = Smaller(BatchMax, Len(typeBatch))
            /\ \A n \in AskedSet : \E i \in 1 .. k : n = typeBatch[i]
    BY <1>1, <1>10, AskedPlaces
  <2>2. typeBatch' = Rest(typeBatch, BatchMax) /\ serviceBatch' = serviceBatch
    BY <1>10 DEF Answer
  <2>3. /\ typeBatch' \in Seq(Trains) /\ Len(typeBatch') = Len(typeBatch) - k
        /\ \A i \in 1 .. Len(typeBatch') : typeBatch'[i] = typeBatch[i + k]
        /\ Part(typeBatch', typeBatch, k)
    BY <1>5, <2>1, <2>2, RestProperties, RestIsPart, SweepAssumption
  <2>4. Part(queue', queue, 0) /\ Part(serviceBatch', serviceBatch, 0)
    BY <1>4, <1>5, <2>2, SamePart
  <2>5. renewed' \subseteq Trains
    BY <1>4, <1>5, <2>2, <2>3, HistoryType
  <2>6. SweepTypeOK'
    <3>1. Len(typeBatch') <= TypeCap
      BY <1>1, <1>5, <2>3, SweepAssumption DEF SweepTypeOK
    <3> QED BY <1>1, <1>3, <1>4, <2>2, <2>3, <2>5, <3>1 DEF SweepTypeOK
  <2>7. /\ \A i \in 1 .. k : i \in 1 .. Len(typeBatch)
        /\ \A i \in 1 .. Len(typeBatch') : i + k \in 1 .. Len(typeBatch) /\ i + k > k
    BY <1>5, <2>3
  <2>8. \A i \in 1 .. Len(typeBatch') : typeBatch'[i] \in AskedSet => typeBatch'[i] \in renewed
    <3> SUFFICES ASSUME NEW i \in 1 .. Len(typeBatch'), NEW j \in 1 .. k,
                        typeBatch'[i] = typeBatch[j]
                 PROVE  typeBatch'[i] \in renewed
      BY <2>1
    <3>1. i + k # j /\ i + k \in 1 .. Len(typeBatch) /\ j \in 1 .. Len(typeBatch)
      BY <1>5, <2>7
    <3> QED BY <1>1, <2>3, <3>1 DEF NoTrainTwice, Once
  <2>9. \A i \in 1 .. Len(queue) : queue[i] \in AskedSet => queue[i] \in renewed
    BY <1>1, <2>1, <2>7 DEF NoTrainTwice, Apart
  <2>10. \A i \in 1 .. Len(queue'), a \in Axes :
             queue'[i] \notin renewed /\ known'[queue'[i]][a] => known[queue'[i]][a]
    BY <1>3, <1>4, <1>6, <2>9
  <2>11. \A i \in 1 .. Len(typeBatch') :
             typeBatch'[i] \notin renewed /\ known'[typeBatch'[i]]["type"]
                 => known[typeBatch'[i]]["type"]
    BY <1>3, <1>6, <1>7, <2>3, <2>7, <2>8
  <2>12. \A i \in 1 .. Len(serviceBatch') :
             serviceBatch'[i] \notin renewed /\ known'[serviceBatch'[i]]["service"]
                 => known[serviceBatch'[i]]["service"]
    BY <1>3, <1>6, <1>7, <1>10, <2>2
  <2>13. NoTrainTwice' /\ Unresolved'
    <3>1. 0 \in Nat /\ k \in Nat
      BY <1>5
    <3> QED BY <1>4, <2>3, <2>4, <2>6, <2>10, <2>11, <2>12, <3>1, PartsKeep
  <2> QED BY <1>8, <1>9, <2>6, <2>13 DEF IInv
<1>11. CASE Axis # "type"
  <2>1. /\ Axis = "service" /\ typeBatch = <<>>
        /\ Len(serviceBatch) \in Nat \ {0}
        /\ AskedSet = {serviceBatch[1]}
    BY <1>1, <1>11, AskedPlaces
  <2>2. typeBatch' = typeBatch /\ serviceBatch' = Tail(serviceBatch)
    BY <1>11 DEF Answer
  <2>3. /\ serviceBatch' \in Seq(Trains) /\ Len(serviceBatch') = Len(serviceBatch) - 1
        /\ \A i \in 1 .. Len(serviceBatch') : serviceBatch'[i] = serviceBatch[i + 1]
    <3>1. serviceBatch # <<>>
      BY <2>1
    <3> QED BY <1>5, <2>1, <2>2, <3>1
  <2>4. /\ 1 \in 1 .. Len(serviceBatch)
        /\ \A i \in 1 .. Len(serviceBatch') : i + 1 \in 1 .. Len(serviceBatch) /\ i + 1 # 1
    BY <2>1, <2>3
  <2>5. Part(queue', queue, 0) /\ Part(typeBatch', typeBatch, 0)
        /\ Part(serviceBatch', serviceBatch, 1)
    <3>1. Part(serviceBatch', serviceBatch, 1)
      BY <2>1, <2>3 DEF Part
    <3> QED BY <1>4, <1>5, <2>2, <3>1, SamePart
  <2>6. renewed' \subseteq Trains
    BY <1>4, <1>5, <2>2, <2>3, HistoryType
  <2>7. SweepTypeOK'
    <3>1. Len(serviceBatch') <= ServiceCap
      BY <1>1, <2>1, <2>3, SweepAssumption DEF SweepTypeOK
    <3> QED BY <1>1, <1>3, <1>4, <2>2, <2>3, <2>6, <3>1 DEF SweepTypeOK
  <2>8. \A i \in 1 .. Len(serviceBatch') :
            serviceBatch'[i] \in AskedSet => serviceBatch'[i] \in renewed
    BY <1>1, <2>1, <2>3, <2>4 DEF NoTrainTwice, Once
  <2>9. \A i \in 1 .. Len(queue) : queue[i] \in AskedSet => queue[i] \in renewed
    BY <1>1, <2>1, <2>4 DEF NoTrainTwice, Apart
  <2>10. \A i \in 1 .. Len(queue'), a \in Axes :
             queue'[i] \notin renewed /\ known'[queue'[i]][a] => known[queue'[i]][a]
    BY <1>3, <1>4, <1>6, <2>9
  <2>11. \A i \in 1 .. Len(typeBatch') :
             typeBatch'[i] \notin renewed /\ known'[typeBatch'[i]]["type"]
                 => known[typeBatch'[i]]["type"]
    BY <2>1, <2>2
  <2>12. \A i \in 1 .. Len(serviceBatch') :
             serviceBatch'[i] \notin renewed /\ known'[serviceBatch'[i]]["service"]
                 => known[serviceBatch'[i]]["service"]
    BY <1>3, <1>6, <1>7, <2>3, <2>4, <2>8
  <2>13. NoTrainTwice' /\ Unresolved'
    BY <1>4, <2>5, <2>7, <2>10, <2>11, <2>12, PartsKeep
  <2> QED BY <1>8, <1>9, <2>7, <2>13 DEF IInv
<1> QED BY <1>10, <1>11

(* A batch that is given up leaves nothing to ask for.                       *)
LEMMA GiveUpKeeps ==
    ASSUME IInv, GiveUp,
           known' \in [Trains -> [Axes -> BOOLEAN]],
           cooling' \in [Trains -> [Axes -> 0 .. CooldownWakes]],
           \A n \in Trains, a \in Axes : known'[n][a] => known[n][a]
    PROVE  IInv'
<1>1. /\ npc' = "backoff" /\ typeBatch' = <<>> /\ serviceBatch' = <<>> /\ History
      /\ map' = map /\ queue' = queue
  BY DEF GiveUp
<1>2. <<>> \in Seq(Trains) /\ Len(<<>>) = 0
  OBVIOUS
<1>3. renewed' \subseteq Trains
  BY <1>1, <1>2, HistoryType DEF IInv, SweepTypeOK
<1>4. SweepTypeOK'
  BY <1>1, <1>2, <1>3, SweepAssumption DEF IInv, SweepTypeOK
<1>5. Part(queue', queue, 0) /\ Part(typeBatch', typeBatch, 0)
      /\ Part(serviceBatch', serviceBatch, 0)
  BY <1>1, SamePart DEF IInv, SweepTypeOK
<1>6. NoTrainTwice' /\ Unresolved'
  BY <1>1, <1>4, <1>5, MonotoneKeeps
<1>7. Registered'
  BY <1>1 DEF IInv, Registered
<1> QED BY <1>4, <1>6, <1>7 DEF IInv

(* A refused chunk is stamped as Unknown, which it was, but for trains that  *)
(* were queued again.                                                        *)
LEMMA RefusalKeeps ==
    ASSUME IInv, Refusal
    PROVE  /\ IInv'
           /\ \A n \in Elements(map), a \in Axes :
                  known[n][a] /\ n \notin renewed => known'[n][a]
<1>1. Stamp(AskedSet, {}) /\ GiveUp /\ Asking /\ SweepTypeOK
  BY DEF Refusal, IInv
<1>2. /\ known' \in [Trains -> [Axes -> BOOLEAN]]
      /\ cooling' \in [Trains -> [Axes -> 0 .. CooldownWakes]]
      /\ \A n \in Trains, a \in Axes :
             (n \notin AskedSet \/ n \notin Elements(map) \/ a # Axis)
                 => known'[n][a] = known[n][a]
      /\ \A n \in Trains : n \in AskedSet \cap Elements(map) => known'[n][Axis] = (n \in {})
  BY <1>1, StampType
<1>3. \A n \in Trains, a \in Axes : known'[n][a] => known[n][a]
  BY <1>2
<1>4. IInv'
  BY <1>1, <1>2, <1>3, GiveUpKeeps
<1>5. \A n \in Elements(map) : n \in Trains
  <2>1. \A i \in 1 .. Len(map) : map[i] \in Trains
    BY <1>1 DEF SweepTypeOK
  <2> QED BY <2>1 DEF Elements
<1> QED BY <1>1, <1>2, <1>4, <1>5, AskedIsUnknown

(* Waiting, opening a connection and giving up ask for nothing new.          *)
LEMMA OtherStepsKeep ==
    ASSUME IInv, Open \/ OpenFails \/ Unreadable \/ AgainToSleep \/ UNCHANGED sweepVars
    PROVE  IInv' /\ known' = known
<1>1. CASE Open
  BY <1>1 DEF IInv, Open, SweepTypeOK, Registered, NoTrainTwice, Once, Apart, Unresolved
<1>2. CASE OpenFails \/ Unreadable
  <2>1. GiveUp /\ known' = known /\ cooling' = cooling
    BY <1>2 DEF OpenFails, Unreadable
  <2> QED BY <2>1, GiveUpKeeps DEF IInv, SweepTypeOK
<1>3. CASE AgainToSleep
  <2>1. npc' = "sleep" /\ cooling' \in [Trains -> [Axes -> 0 .. CooldownWakes]]
        /\ UNCHANGED <<map, known, queue, typeBatch, serviceBatch, renewed>>
    BY <1>3, SleepType DEF IInv, AgainToSleep
  <2> QED BY <2>1 DEF IInv, SweepTypeOK, Registered, NoTrainTwice, Once, Apart, Unresolved
<1>4. CASE UNCHANGED sweepVars
  BY <1>4 DEF IInv, sweepVars, SweepTypeOK, Registered, NoTrainTwice, Once, Apart, Unresolved
<1> QED BY <1>1, <1>2, <1>3, <1>4

(* Initially nobody is known, and nobody waits.                              *)
LEMMA InitIInv == SweepInit => IInv
<1> SUFFICES ASSUME SweepInit PROVE IInv
  OBVIOUS
<1>1. <<>> \in Seq(Trains) /\ Len(<<>>) = 0
  OBVIOUS
<1>2. SweepTypeOK
  BY <1>1, SweepAssumption DEF SweepInit, SweepTypeOK
<1>3. Registered /\ NoTrainTwice /\ Unresolved
  BY <1>1 DEF SweepInit, Registered, Injective, NoTrainTwice, Once, Apart, Unresolved
<1> QED BY <1>2, <1>3 DEF IInv

(* Every step keeps the invariant, and what is known.                        *)
LEMMA StepIInv ==
    ASSUME IInv, [SweepNext]_sweepVars
    PROVE  /\ IInv'
           /\ \A n \in Elements(map) \cap Elements(map'), a \in Axes :
                  known[n][a] /\ n \notin renewed => known'[n][a]
<1>1. CASE \E n \in Trains : FeedNew(n)
  BY <1>1, FeedNewKeeps
<1>2. CASE \E i \in DOMAIN map : FeedEvict(i)
  BY <1>2, FeedEvictKeeps
<1>3. CASE TakeNew
  BY <1>3, TakeNewKeeps DEF TakeNew
<1>4. CASE SweepRegistry
  BY <1>4, SweepRegistryKeeps DEF SweepRegistry
<1>5. CASE Answer
  BY <1>5, AnswerKeeps
<1>6. CASE Refusal
  BY <1>6, RefusalKeeps
<1>7. CASE Open \/ OpenFails \/ Unreadable \/ AgainToSleep \/ UNCHANGED sweepVars
  BY <1>7, OtherStepsKeep
<1> QED BY <1>1, <1>2, <1>3, <1>4, <1>5, <1>6, <1>7 DEF SweepNext, FeedTask, NsTask

--------------------------------------------------------------------------------
(* The theorems.                                                             *)

LEMMA AlwaysIInv == SweepSpec => []IInv
<1>1. IInv /\ [SweepNext]_sweepVars => IInv'
  BY StepIInv
<1> QED BY <1>1, InitIInv, PTL DEF SweepSpec

(* Channel, batches and registry keep their types and lengths.               *)
THEOREM TypeCorrect == SweepSpec => []SweepTypeOK
<1>1. IInv => SweepTypeOK
  BY DEF IInv
<1> QED BY <1>1, AlwaysIInv, PTL

(* ns_api::run never asks for a train twice at a time, although it gets them *)
(* from a channel and from the registry, unless the feed task queues a train *)
(* a second time: a train that was evicted, or not inserted into a full map, *)
(* before it was asked for.                                                  *)
THEOREM NoneAskedTwice == SweepSpec => []NoTrainTwice
<1>1. IInv => NoTrainTwice
  BY DEF IInv
<1> QED BY <1>1, AlwaysIInv, PTL

(* Whatever the API answers or refuses, in whatever chunks and whichever     *)
(* trains come and go, a resolved type or service stays resolved, unless the *)
(* train is asked for a second time because it was queued again.             *)
THEOREM ResolvedStays == SweepSpec => KnownKept
<1>1. IInv /\ [SweepNext]_sweepVars
          => [\A n \in Elements(map) \cap Elements(map'), a \in Axes :
                 known[n][a] /\ n \notin renewed => known'[n][a]]_sweepVars
  BY StepIInv
<1> QED BY <1>1, AlwaysIInv, PTL DEF SweepSpec, KnownKept
================================================================================
