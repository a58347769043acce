------------------------------ MODULE Enrichment -------------------------------
(* The feed task and the NS API task around the registry: trains are seen,   *)
(* evicted, queued for enrichment, asked for in batches, and stamped with    *)
(* the moment they were asked for so that they are not asked for again at    *)
(* once.                                                                     *)
(*                                                                           *)
(* Both tasks run on core 0's cooperative executor.  What a task does        *)
(* between two awaits that can wait is not interrupted by the other; a       *)
(* message of the feed is handled in several steps here, during which        *)
(* nothing else happens.  Publishing the result is ClusterExchange's part.   *)
EXTENDS Registry

CONSTANTS
    QueueCap,     \* QUEUE_CAPACITY
    TypeCap,      \* TYPE_BUFFER_CAP
    ServiceCap,   \* SERVICE_BUFFER_CAP
    BatchMax,     \* BATCH_MAX
    Sweep,        \* SWEEP_INTERVAL, in ticks
    Backoff,      \* FAILURE_BACKOFF, in ticks
    Faults,       \* what the NS API may do wrong
    MaxTime       \* bound on the clock, in ticks

ASSUME QueueAssumption == QueueCap \in Nat /\ TypeCap \in Nat \ {0} /\ ServiceCap \in Nat
ASSUME BatchAssumption == BatchMax \in Nat \ {0}
ASSUME TimersAssumption == Sweep \in Nat \ {0} /\ Backoff \in Nat \ {0} /\ MaxTime \in Nat
ASSUME FaultsAssumption == Faults \subseteq {"open", "status", "unreadable", "partial"}

VARIABLES
    now,           \* the time since boot
    reg,           \* the shared registry
    queue,         \* the new-train channel
    fpc,           \* where the feed task stands
    npc,           \* where the NS API task stands
    wakeAt,        \* when the NS API task's timer expires
    typeBatch,     \* type_batch, what is left of it
    serviceBatch,  \* service_batch, what is left of it
    anchor         \* history: last_seen of a train when it was last stamped

feedVars == <<fpc>>
nsVars   == <<npc, wakeAt, typeBatch, serviceBatch>>
vars     == <<now, reg, queue, anchor, feedVars, nsVars>>

TypeOK ==
    /\ now \in Nat
    /\ IsRegistry(reg)
    /\ queue \in Seq(Trains)
    /\ fpc \in {"recv", "upsert"}
    /\ npc \in {"sleep", "open", "fetch", "backoff"}
    /\ wakeAt \in Nat
    /\ typeBatch \in Seq(Trains)
    /\ serviceBatch \in Seq(Trains)
    /\ anchor \in [Trains -> [Axes -> Nat]]

Init ==
    /\ now = 0
    /\ reg = Empty
    /\ queue = <<>>
    /\ fpc = "recv"
    /\ npc = "sleep"
    /\ wakeAt = Sweep
    /\ typeBatch = <<>>
    /\ serviceBatch = <<>>
    /\ anchor = [n \in Trains |-> [a \in Axes |-> 0]]

(* Time passes while every task waits.                                       *)
Tick ==
    /\ fpc = "recv"
    /\ now < MaxTime
    /\ now' = now + 1
    /\ UNCHANGED <<reg, queue, anchor, feedVars, nsVars>>

--------------------------------------------------------------------------------
(* feed::run.                                                                *)

(* now.checked_sub(STALE_AFTER).unwrap_or(now): a clock younger than that    *)
(* yields now itself, which means no eviction.                               *)
Cutoff == IF now >= StaleAfter * Second THEN now - StaleAfter * Second ELSE now

(* Mutation: the cutoff is used although the clock is younger than it.       *)
EvictAlways ==
    /\ fpc = "recv"
    /\ \E gone \in Evictions(reg, Cutoff) : reg' = Without(reg, gone)
    /\ fpc' = "upsert"
    /\ UNCHANGED <<now, queue, anchor, nsVars>>

(* A message: stale trains are dropped first ...                             *)
FeedEvict ==
    /\ fpc = "recv"
    /\ IF Cutoff # now
       THEN \E gone \in Evictions(reg, Cutoff) : reg' = Without(reg, gone)
       ELSE UNCHANGED reg
    /\ fpc' = "upsert"
    /\ UNCHANGED <<now, queue, anchor, nsVars>>

(* queue.try_send: a full channel drops the number.                          *)
TrySend(n) == queue' = IF Len(queue) < QueueCap THEN Append(queue, n) ELSE queue

(* ... then every train of the message is inserted or refreshed, and sent to *)
(* the NS API task if `upsert` says it is new.                               *)
FeedUpsert(n) ==
    /\ fpc = "upsert"
    /\ reg' = Upserted(reg, n, now)
    /\ IF n \in DOMAIN reg THEN UNCHANGED queue ELSE TrySend(n)
    /\ UNCHANGED <<now, anchor, feedVars, nsVars>>

FeedDone ==
    /\ fpc = "upsert"
    /\ fpc' = "recv"
    /\ UNCHANGED <<now, reg, queue, anchor, nsVars>>

--------------------------------------------------------------------------------
(* ns_api::run.                                                              *)

Smaller(i, j) == IF i < j THEN i ELSE j

(* The ways to fill a buffer of capacity cap from a set of candidates.       *)
Fillings(candidates, cap) ==
    LET k == Smaller(cap, Cardinality(candidates)) IN
    {s \in [1 .. k -> candidates] : \A i, j \in 1 .. k : s[i] = s[j] => i = j}

SleepUntil(time) == npc' = "sleep" /\ wakeAt' = time

(* New trains are waiting: they fill the buffers, in order.                  *)
NsNewTrains ==
    /\ fpc = "recv"
    /\ npc = "sleep"
    /\ queue # <<>>
    /\ LET k == Smaller(TypeCap, Len(queue)) IN
       /\ typeBatch' = SubSeq(queue, 1, k)
       /\ serviceBatch' = SubSeq(queue, 1, Smaller(ServiceCap, k))
       /\ queue' = SubSeq(queue, k + 1, Len(queue))
    /\ npc' = "open"
    /\ UNCHANGED <<now, reg, anchor, feedVars, wakeAt>>

(* None is, and the sweep timer expired: the buffers are filled with the     *)
(* trains that are still unknown and not on cooldown, if there are any.      *)
NsSweep ==
    /\ fpc = "recv"
    /\ npc = "sleep"
    /\ queue = <<>>
    /\ now >= wakeAt
    /\ typeBatch' \in Fillings(Pending(reg, "type", now), TypeCap)
    /\ serviceBatch' \in Fillings(Pending(reg, "service", now), ServiceCap)
    /\ IF typeBatch' = <<>> /\ serviceBatch' = <<>>
       THEN SleepUntil(now + Sweep)
       ELSE npc' = "open" /\ UNCHANGED wakeAt
    /\ UNCHANGED <<now, reg, queue, anchor, feedVars>>

(* The batch is given up, and nothing is tried before the back-off is over.  *)
GiveUp ==
    /\ npc' = "backoff"
    /\ wakeAt' = now + Backoff
    /\ typeBatch' = <<>>
    /\ serviceBatch' = <<>>

NsOpen ==
    /\ fpc = "recv"
    /\ npc = "open"
    /\ npc' = "fetch"
    /\ UNCHANGED <<now, reg, queue, anchor, feedVars, wakeAt, typeBatch, serviceBatch>>

NsOpenFails ==
    /\ "open" \in Faults
    /\ fpc = "recv"
    /\ npc = "open"
    /\ GiveUp
    /\ UNCHANGED <<now, reg, queue, anchor, feedVars>>

(* The request in flight: the next chunk of types, then service by service.  *)
Asking == npc = "fetch" /\ (typeBatch # <<>> \/ serviceBatch # <<>>)
Axis   == IF typeBatch # <<>> THEN "type" ELSE "service"
ChunkLen == IF Axis = "type" THEN Smaller(BatchMax, Len(typeBatch)) ELSE 1
Asked    == IF Axis = "type" THEN {typeBatch[i] : i \in 1 .. ChunkLen} ELSE {serviceBatch[1]}

Proceed ==
    /\ IF Axis = "type"
       THEN typeBatch' = SubSeq(typeBatch, ChunkLen + 1, Len(typeBatch)) /\ UNCHANGED serviceBatch
       ELSE serviceBatch' = Tail(serviceBatch) /\ UNCHANGED typeBatch
    /\ UNCHANGED <<npc, wakeAt>>

(* set_type or set_service for these trains, some with a concrete result.    *)
Stamp(trains, resolved) ==
    /\ reg' = Stamped(reg, Axis, trains, resolved, now)
    /\ anchor' = [n \in Trains |->
           IF n \in trains \cap DOMAIN reg
           THEN [anchor[n] EXCEPT ![Axis] = reg[n].seen]
           ELSE anchor[n]]

(* A well-formed answer.  A type answer has a record for the trains NS knows *)
(* of, and only they are stamped; a journey answer is for one train.         *)
NsAnswer ==
    /\ fpc = "recv"
    /\ Asking
    /\ \E trains \in SUBSET Asked :
        /\ trains = Asked \/ (Axis = "type" /\ "partial" \in Faults)
        /\ \E resolved \in SUBSET trains : Stamp(trains, resolved)
    /\ Proceed
    /\ UNCHANGED <<now, queue, feedVars>>

(* A refusal (any status but 2xx) stamps all that was asked for as Unknown.  *)
NsRefusal ==
    /\ "status" \in Faults
    /\ fpc = "recv"
    /\ Asking
    /\ Stamp(Asked, {})
    /\ GiveUp
    /\ UNCHANGED <<now, queue, feedVars>>

(* A broken connection, a body that is not UTF-8 or not the expected JSON.   *)
NsUnreadable ==
    /\ "unreadable" \in Faults
    /\ fpc = "recv"
    /\ Asking
    /\ GiveUp
    /\ UNCHANGED <<now, reg, queue, anchor, feedVars>>

NsDone ==
    /\ fpc = "recv"
    /\ npc = "fetch"
    /\ ~Asking
    /\ SleepUntil(now + Sweep)
    /\ UNCHANGED <<now, reg, queue, anchor, feedVars, typeBatch, serviceBatch>>

NsBackoffOver ==
    /\ fpc = "recv"
    /\ npc = "backoff"
    /\ now >= wakeAt
    /\ SleepUntil(now + Sweep)
    /\ UNCHANGED <<now, reg, queue, anchor, feedVars, typeBatch, serviceBatch>>

--------------------------------------------------------------------------------
FeedTask == FeedEvict \/ (\E n \in Trains : FeedUpsert(n)) \/ FeedDone
NsTask   == \/ NsNewTrains \/ NsSweep \/ NsOpen \/ NsOpenFails
            \/ NsAnswer \/ NsRefusal \/ NsUnreadable \/ NsDone \/ NsBackoffOver

Next == Tick \/ FeedTask \/ NsTask

Spec == Init /\ [][Next]_vars

--------------------------------------------------------------------------------
(* Properties.                                                               *)

(* However often a train is sighted in between, and however the seconds are  *)
(* truncated, a stamped train is not asked for again before the cooldown has *)
(* passed since the sighting that preceded its stamp.                        *)
CooldownFromSighting ==
    \A n \in DOMAIN reg : \A a \in Axes :
        (reg[n].ago[a] # Never /\ Ready(reg[n], a, now))
            => now - anchor[n][a] >= Cooldown * Second

(* A stamp is only lost with its entry: the sentinel for "no attempt yet" is *)
(* never reached by counting.                                                *)
StampKept ==
    [][\A n \in DOMAIN reg \cap DOMAIN reg' : \A a \in Axes :
           reg[n].ago[a] # Never => reg'[n].ago[a] # Never]_vars

(* Only a train that was not seen for STALE_AFTER leaves the registry, also  *)
(* in the first minutes after boot.                                          *)
EvictOnlyStale ==
    [][\A n \in DOMAIN reg \ DOMAIN reg' : now - reg[n].seen > StaleAfter * Second]_vars

(* "Trains whose info the API never returns sit on this cooldown instead of  *)
(* being re-requested every sweep" (ns_api.rs): a train that was just        *)
(* stamped is not ready to be asked for again.                               *)
StampedSitsOnCooldown ==
    [][\A n \in DOMAIN reg \cap DOMAIN reg' : \A a \in Axes :
           (reg[n].ago[a] = Never /\ reg'[n].ago[a] # Never)
               => ~Ready(reg'[n], a, now)]_vars
================================================================================
