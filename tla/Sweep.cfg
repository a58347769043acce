\* Three trains for a map of two, a channel for two, a buffer for two types and
\* one for one service, requests for one, and one train whose type the API never
\* knows.
SPECIFICATION SweepSpec
CONSTANTS
    Trains = {1, 2, 3}
    Capacity = 2
    QueueCap = 2
    TypeCap = 2
    ServiceCap = 1
    BatchMax = 1
    CooldownWakes = 2
    Faults = {"open", "status", "partial", "unreadable"}
    Stragglers = {1}
INVARIANTS
    SweepTypeOK
    NoTrainTwice
PROPERTIES
    KnownKept
    EveryoneAsked
