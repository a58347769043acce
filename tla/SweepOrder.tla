------------------------------ MODULE SweepOrder ------------------------------
(* Who is asked for when: the NS API task takes new trains from the channel  *)
(* and, when there are none, goes through the registry in the order of its   *)
(* map, from the front each time, until its buffers are full.                *)
(*                                                                           *)
(* Of the feed task the model has what matters to that order: which train a  *)
(* message makes new and which it evicts, one a step.  Of time it has the    *)
(* cooldown only, which is counted in wake-ups of the task; any train may    *)
(* have been unseen long enough to be evicted.                               *)
EXTENDS Integers, Sequences, FiniteSets

CONSTANTS
    Trains,         \* train numbers
    Capacity,       \* of the registry's map
    QueueCap,       \* QUEUE_CAPACITY
    TypeCap,        \* TYPE_BUFFER_CAP
    ServiceCap,     \* SERVICE_BUFFER_CAP
    BatchMax,       \* BATCH_MAX
    CooldownWakes,  \* wake-ups of the task within RETRY_COOLDOWN
    Faults,         \* what the NS API may do wrong
    Stragglers      \* trains whose type the NS API may never know

ASSUME SweepAssumption ==
    /\ Capacity \in Nat /\ QueueCap \in Nat
    /\ TypeCap \in Nat \ {0} /\ ServiceCap \in Nat \ {0} /\ BatchMax \in Nat \ {0}
    /\ CooldownWakes \in Nat
    /\ Faults \subseteq {"open", "status", "partial", "unreadable"}
    /\ Stragglers \subseteq Trains

Axes == {"type", "service"}

VARIABLES
    map,            \* registry: its trains, in the order of the map
    known,          \* registry: what is not Unknown
    cooling,        \* registry: wake-ups until the cooldown is over
    queue,          \* the new-train channel
    npc,            \* where the NS API task stands
    typeBatch,      \* what is left of type_batch
    serviceBatch,   \* what is left of service_batch
    renewed         \* history: the waiting trains that were queued again

sweepVars == <<map, known, cooling, queue, npc, typeBatch, serviceBatch, renewed>>

SweepInit ==
    /\ map = <<>>
    /\ known = [n \in Trains |-> [a \in Axes |-> FALSE]]
    /\ cooling = [n \in Trains |-> [a \in Axes |-> 0]]
    /\ queue = <<>>
    /\ npc = "sleep"
    /\ typeBatch = <<>> /\ serviceBatch = <<>>
    /\ renewed = {}

Smaller(i, j) == IF i < j THEN i ELSE j
Front(s, k)   == SubSeq(s, 1, Smaller(k, Len(s)))
Rest(s, k)    == SubSeq(s, Smaller(k, Len(s)) + 1, Len(s))
Elements(s)   == {s[i] : i \in 1 .. Len(s)}
Ascending(s)  == \A i, j \in 1 .. Len(s) : i < j => s[i] < s[j]

(* The trains in the channel or in a batch.                                  *)
Waiting == Elements(queue) \cup Elements(typeBatch) \cup Elements(serviceBatch)

(* A train that becomes new again while it waits is marked, until it waits   *)
(* no more: it may have left the registry, or not have got into it.          *)
History ==
    renewed' = {n \in Waiting' :
                    n \in renewed \/ (n \in Waiting /\ queue' = Append(queue, n))}

--------------------------------------------------------------------------------
(* feed::run.  What a message does to several trains is several steps here,  *)
(* with nothing of the NS API task in between; that the task may also come   *)
(* in between is what two messages would allow.                              *)

(* upsert of a train that is not in the map: a full map drops it silently,   *)
(* and it is new all the same.                                               *)
Insert(n) == map' = IF Len(map) < Capacity THEN Append(map, n) ELSE map

(* Mutation: the channel has room for everyone.                              *)
FeedNewUnbounded(n) ==
    /\ n \notin Elements(map)
    /\ Insert(n)
    /\ queue' = Append(queue, n)
    /\ UNCHANGED <<known, cooling, npc, typeBatch, serviceBatch>>
    /\ History

(* A new train is sent to the channel, or dropped if that is full.           *)
FeedNew(n) ==
    /\ n \notin Elements(map)
    /\ Insert(n)
    /\ queue' = IF Len(queue) < QueueCap THEN Append(queue, n) ELSE queue
    /\ UNCHANGED <<known, cooling, npc, typeBatch, serviceBatch>>
    /\ History

(* remove: the last entry takes the place of the one that is removed.        *)
SwapRemove(s, i) ==
    [j \in 1 .. Len(s) - 1 |-> IF j = i THEN s[Len(s)] ELSE s[j]]

(* evict_older_than: with its entry, what was known of a train is gone.      *)
FeedEvict(i) ==
    /\ map' = SwapRemove(map, i)
    /\ known' = [known EXCEPT ![map[i]] = [a \in Axes |-> FALSE]]
    /\ cooling' = [cooling EXCEPT ![map[i]] = [a \in Axes |-> 0]]
    /\ UNCHANGED <<queue, npc, typeBatch, serviceBatch>>
    /\ History

FeedTask == (\E n \in Trains : FeedNew(n)) \/ (\E i \in DOMAIN map : FeedEvict(i))

--------------------------------------------------------------------------------
(* ns_api::run.                                                              *)

(* Mutation: what is resolved already is asked for as well.                  *)
PendingResolvedToo(a) == {i \in DOMAIN map : cooling[map[i]][a] = 0}

(* The places in the map of the trains whose type or service may be asked    *)
(* for (again).                                                              *)
Pending(a) == {i \in DOMAIN map : ~known[map[i]][a] /\ cooling[map[i]][a] = 0}

(* The smallest of the places, as many as there is room for, in order.       *)
FirstOf(places, cap) ==
    {f \in UNION {[1 .. k -> DOMAIN map] : k \in 0 .. cap} :
        /\ Ascending(f)
        /\ Elements(f) \subseteq places
        /\ \/ Elements(f) = places
           \/ /\ Len(f) = cap
              /\ \A i \in Elements(f), j \in places \ Elements(f) : i < j}

(* Mutation: the iteration ends at the first train that is resolved.         *)
PendingUpToResolved(a, cap) ==
    {[i \in DOMAIN f |-> map[f[i]]] :
        f \in FirstOf({i \in Pending(a) : \A j \in 1 .. i : ~known[map[j]][a]}, cap)}

(* pending_enrichment: what it leaves in a buffer of length cap, the pending *)
(* trains in the order of the map until the buffer is full.                  *)
PendingEnrichment(a, cap) ==
    {[i \in DOMAIN f |-> map[f[i]]] : f \in FirstOf(Pending(a), cap)}

(* Every wake-up brings the end of the cooldowns nearer.                     *)
Sleep ==
    /\ npc' = "sleep"
    /\ cooling' = [n \in Trains |-> [a \in Axes |->
                      IF cooling[n][a] > 0 THEN cooling[n][a] - 1 ELSE 0]]

(* Mutation: the sweep tops the buffers up although there are new trains.    *)
TakeNewAndSweep ==
    /\ npc = "sleep" /\ queue # <<>>
    /\ \E s \in PendingEnrichment("type", TypeCap) :
          typeBatch' = Front(Front(queue, TypeCap) \o s, TypeCap)
    /\ serviceBatch' = Front(Front(queue, TypeCap), ServiceCap)
    /\ queue' = Rest(queue, TypeCap)
    /\ npc' = "open"
    /\ UNCHANGED <<map, known, cooling>>
    /\ History

(* New trains fill the buffers; what does not fit in service_batch is left   *)
(* to the sweep.                                                             *)
TakeNew ==
    /\ npc = "sleep" /\ queue # <<>>
    /\ typeBatch' = Front(queue, TypeCap)
    /\ serviceBatch' = Front(Front(queue, TypeCap), ServiceCap)
    /\ queue' = Rest(queue, TypeCap)
    /\ npc' = "open"
    /\ UNCHANGED <<map, known, cooling>>
    /\ History

SweepRegistry ==
    /\ npc = "sleep" /\ queue = <<>>
    /\ typeBatch' \in PendingEnrichment("type", TypeCap)
    /\ serviceBatch' \in PendingEnrichment("service", ServiceCap)
    /\ IF typeBatch' = <<>> /\ serviceBatch' = <<>>
       THEN Sleep
       ELSE npc' = "open" /\ UNCHANGED cooling
    /\ UNCHANGED <<map, known, queue>>
    /\ History

Open ==
    /\ npc = "open" /\ npc' = "fetch"
    /\ UNCHANGED <<map, known, cooling, queue, typeBatch, serviceBatch, renewed>>

GiveUp ==
    /\ npc' = "backoff" /\ typeBatch' = <<>> /\ serviceBatch' = <<>>
    /\ UNCHANGED <<map, queue>>
    /\ History

OpenFails ==
    /\ "open" \in Faults
    /\ npc = "open"
    /\ GiveUp
    /\ UNCHANGED <<known, cooling>>

(* The request in flight: a chunk of types, or else one service.             *)
Asking   == npc = "fetch" /\ (typeBatch # <<>> \/ serviceBatch # <<>>)
Axis     == IF typeBatch # <<>> THEN "type" ELSE "service"
Asked    == IF Axis = "type" THEN Front(typeBatch, BatchMax) ELSE <<serviceBatch[1]>>
AskedSet == Elements(Asked)

(* set_type, set_service: the result replaces what was known of a train,     *)
(* if the train is in the map.                                               *)
Stamp(trains, resolved) ==
    /\ known' = [n \in Trains |->
           IF n \in trains \cap Elements(map)
           THEN [known[n] EXCEPT ![Axis] = n \in resolved] ELSE known[n]]
    /\ cooling' = [n \in Trains |->
           IF n \in trains \cap Elements(map)
           THEN [cooling[n] EXCEPT ![Axis] = CooldownWakes] ELSE cooling[n]]

(* An answer has a record for all that was asked for, or for some.           *)
Answer ==
    /\ Asking
    /\ \E trains \in SUBSET AskedSet :
          /\ trains = AskedSet \/ (Axis = "type" /\ "partial" \in Faults)
          /\ \E resolved \in SUBSET trains : Stamp(trains, resolved)
    /\ IF Axis = "type"
       THEN typeBatch' = Rest(typeBatch, BatchMax) /\ UNCHANGED serviceBatch
       ELSE serviceBatch' = Tail(serviceBatch) /\ UNCHANGED typeBatch
    /\ UNCHANGED <<map, queue, npc>>
    /\ History

(* Any status but 2xx: all that was asked for is stamped.                    *)
Refusal ==
    /\ "status" \in Faults
    /\ Asking
    /\ Stamp(AskedSet, {})
    /\ GiveUp

(* The connection is lost in the middle, or the answer is not UTF-8 or not   *)
(* what serde expects: nothing is stamped.                                   *)
Unreadable ==
    /\ "unreadable" \in Faults
    /\ Asking
    /\ GiveUp
    /\ UNCHANGED <<known, cooling>>

(* The batch is done, or FAILURE_BACKOFF is over.                            *)
AgainToSleep ==
    /\ npc = "backoff" \/ (npc = "fetch" /\ ~Asking)
    /\ Sleep
    /\ UNCHANGED <<map, known, queue, typeBatch, serviceBatch, renewed>>

NsTask == \/ TakeNew \/ SweepRegistry \/ Open \/ OpenFails
          \/ Answer \/ Refusal \/ Unreadable \/ AgainToSleep

SweepNext == FeedTask \/ NsTask

(* Nothing goes wrong, no train leaves the map, and the API knows all about  *)
(* the trains but the types of the stragglers.                               *)
AllWell ==
    /\ ~(OpenFails \/ Refusal \/ Unreadable)
    /\ ~\E i \in DOMAIN map : FeedEvict(i)
    /\ Answer => \A n \in AskedSet \cap Elements(map) :
                     known'[n][Axis] \/ (Axis = "type" /\ n \in Stragglers)

(* The task goes on whenever it can: its timers expire and the API answers   *)
(* or refuses.  It wakes up more often than messages bring new trains, so    *)
(* that the channel is empty again and again when it does.  However long     *)
(* that takes, from some time on all is well.                                *)
SweepSpec ==
    /\ SweepInit /\ [][SweepNext]_sweepVars
    /\ WF_sweepVars(NsTask)
    /\ SF_sweepVars(SweepRegistry)
    /\ []<>(npc = "sleep" /\ queue = <<>>)
    /\ <>[][AllWell]_sweepVars

--------------------------------------------------------------------------------
(* Properties.                                                               *)

SweepTypeOK ==
    /\ map \in Seq(Trains) /\ Len(map) <= Capacity
    /\ known \in [Trains -> [Axes -> BOOLEAN]]
    /\ cooling \in [Trains -> [Axes -> 0 .. CooldownWakes]]
    /\ npc \in {"sleep", "open", "fetch", "backoff"}
    /\ queue \in Seq(Trains) /\ Len(queue) <= QueueCap
    /\ typeBatch \in Seq(Trains) /\ Len(typeBatch) <= TypeCap
    /\ serviceBatch \in Seq(Trains) /\ Len(serviceBatch) <= ServiceCap
    /\ renewed \subseteq Trains

Once(s)     == \A i, j \in 1 .. Len(s) : i # j /\ s[i] = s[j] => s[i] \in renewed
Apart(s, t) == \A i \in 1 .. Len(s), j \in 1 .. Len(t) : s[i] = t[j] => s[i] \in renewed

(* No train is requested twice: "only check for pending enrichment if there  *)
(* were no new trains.  Otherwise, some trains may be requested twice"       *)
(* (ns_api.rs).  Each train is in the channel or in a batch once, and those  *)
(* in the channel are in no batch; but for one that became new again while   *)
(* it waited, for which the feed task alone is to blame.                     *)
NoTrainTwice ==
    /\ Once(queue) /\ Once(typeBatch) /\ Once(serviceBatch)
    /\ Apart(queue, typeBatch) /\ Apart(queue, serviceBatch)

(* What is resolved about a train stays so while the train is in the         *)
(* registry: no refused or repeated request turns it back to Unknown, unless *)
(* the train became new again while it waited to be asked for.               *)
KnownKept ==
    [][\A n \in Elements(map) \cap Elements(map'), a \in Axes :
           known[n][a] /\ n \notin renewed => known'[n][a]]_sweepVars

(* The sweep "picks up trains dropped from the queue under load and retries  *)
(* failed/missing entries" (ns_api.rs): once the API can be read again, each *)
(* train in the registry whose type or service is Unknown is asked for,      *)
(* wherever in the map it stands and whatever went wrong before.             *)
EveryoneAsked ==
    \A n \in Trains, a \in Axes :
        (n \in Elements(map) /\ ~known[n][a])
            ~> (n \notin Elements(map) \/ (Asking /\ Axis = a /\ n \in AskedSet))
================================================================================
