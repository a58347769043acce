------------------------------- MODULE Registry --------------------------------
(* The live registry of trains: what one call on it returns and leaves       *)
(* behind, as operators on a partial function from train numbers to entries. *)
(*                                                                           *)
(* An entry's pixel is left out (Snapshot is about pixels); whether a type   *)
(* or a service category is still Unknown is one flag per axis.              *)
(* Instants are numbers of ticks since boot, Second of them per second: the  *)
(* code keeps its attempt offsets in whole seconds and truncates.  The order *)
(* in which the map iterates is not fixed here.                              *)
EXTENDS Integers, FiniteSets, Sequences

CONSTANTS
    Trains,       \* train numbers
    Capacity,     \* MAX_TRAINS
    EvictBatch,   \* EVICT_BATCH
    Never,        \* ATTEMPT_NEVER
    Second,       \* ticks per second
    Cooldown,     \* RETRY_COOLDOWN, in seconds
    StaleAfter    \* STALE_AFTER, in seconds

ASSUME TrainsAssumption == IsFiniteSet(Trains)
ASSUME CapacityAssumption == Capacity \in Nat \ {0} /\ EvictBatch \in Nat \ {0}
ASSUME NeverAssumption == Never \in Nat \ {0}
ASSUME TimeAssumption == Second \in Nat \ {0} /\ Cooldown \in Nat /\ StaleAfter \in Nat \ {0}

Axes  == {"type", "service"}
Entry == [seen : Nat, known : [Axes -> BOOLEAN], ago : [Axes -> 0 .. Never]]

(* The registries that can exist: partial functions on the train numbers.    *)
IsRegistry(reg) ==
    /\ DOMAIN reg \subseteq Trains
    /\ reg \in [DOMAIN reg -> Entry]

Empty == [n \in {} |-> [seen |-> 0]]

(* Duration::as_secs *)
Seconds(ticks) == ticks \div Second

(* Mutation: the offset saturates one too late, at the sentinel.             *)
BumpToSentinel(ago, delta) ==
    IF ago = Never THEN Never
    ELSE IF ago + delta < Never THEN ago + delta ELSE Never

(* bump_attempt_ago: saturates below the sentinel and preserves it.          *)
BumpAttemptAgo(ago, delta) ==
    IF ago = Never THEN Never
    ELSE IF ago + delta < Never THEN ago + delta ELSE Never - 1

(* TrainState::new *)
NewEntry(now) ==
    [seen |-> now, known |-> [a \in Axes |-> FALSE], ago |-> [a \in Axes |-> Never]]

(* Mutation: a started second counts as a whole one.                         *)
RefreshedRoundingUp(e, now) ==
    [e EXCEPT !.seen = now,
              !.ago  = [a \in Axes |->
                           BumpAttemptAgo(e.ago[a], Seconds(now - e.seen + Second - 1))]]

(* upsert of a registered train: the offsets grow by what last_seen advances *)
(* by, in whole seconds; a clock that went back counts as no advance.        *)
Refreshed(e, now) ==
    LET delta == IF now >= e.seen THEN Seconds(now - e.seen) ELSE 0 IN
    [e EXCEPT !.seen = now,
              !.ago  = [a \in Axes |-> BumpAttemptAgo(e.ago[a], delta)]]

(* upsert of an unregistered train: a full map drops it silently, and true   *)
(* (a new train) is returned all the same.                                   *)
Inserted(reg, n, now) ==
    IF Cardinality(DOMAIN reg) < Capacity
    THEN [m \in DOMAIN reg \cup {n} |-> IF m = n THEN NewEntry(now) ELSE reg[m]]
    ELSE reg

Upserted(reg, n, now) ==
    IF n \in DOMAIN reg
    THEN [reg EXCEPT ![n] = Refreshed(@, now)]
    ELSE Inserted(reg, n, now)

(* Mutation: the difference is taken without looking which moment is later.  *)
AttemptOffsetSigned(seen, now) == Seconds(seen - now)

(* attempt_offset_s: how far before last_seen an attempt made now was; only  *)
(* a last_seen in the future makes it positive.                              *)
AttemptOffset(seen, now) ==
    IF seen >= now
    THEN IF Seconds(seen - now) < Never THEN Seconds(seen - now) ELSE Never - 1
    ELSE 0

(* set_type, set_service, for every train of `stamped`: the result replaces  *)
(* whatever was known; a train that is not registered is skipped.            *)
Stamped(reg, axis, stamped, resolved, now) ==
    [n \in DOMAIN reg |->
        IF n \in stamped
        THEN [reg[n] EXCEPT !.known[axis] = n \in resolved,
                            !.ago[axis]   = AttemptOffset(reg[n].seen, now)]
        ELSE reg[n]]

(* evict_older_than: which sets of trains a call may drop.                   *)
Older(reg, cutoff) == {n \in DOMAIN reg : reg[n].seen < cutoff}
Evictions(reg, cutoff) ==
    {gone \in SUBSET Older(reg, cutoff) :
        \/ gone = Older(reg, cutoff) /\ Cardinality(gone) <= EvictBatch
        \/ Cardinality(gone) = EvictBatch}

Without(reg, gone) == [n \in DOMAIN reg \ gone |-> reg[n]]

(* ready: the cooldown counts from the last attempt, or there was none.      *)
Ready(e, axis, now) ==
    \/ e.ago[axis] = Never
    \/ Seconds(now - e.seen) + e.ago[axis] >= Cooldown

(* pending_enrichment: the trains that may be asked for again.               *)
Pending(reg, axis, now) ==
    {n \in DOMAIN reg : ~reg[n].known[axis] /\ Ready(reg[n], axis, now)}
================================================================================
