\* The API answers, and resolves nothing about a train that is gone.
SPECIFICATION Spec
CONSTANTS
    Trains = {t1, t2}
    Capacity = 1
    EvictBatch = 1
    Never = 4
    Second = 2
    Cooldown = 2
    StaleAfter = 3
    QueueCap = 2
    TypeCap = 2
    ServiceCap = 1
    BatchMax = 1
    Sweep = 1
    Backoff = 2
    Faults = {}
    MaxTime = 9
PROPERTIES
    StampedSitsOnCooldown
