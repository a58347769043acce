\* The API answers, but has no record for the type of one of the trains, which
\* fills the buffer.
SPECIFICATION SweepSpec
CONSTANTS
    Trains = {1, 2}
    Capacity = 2
    QueueCap = 1
    TypeCap = 1
    ServiceCap = 1
    BatchMax = 1
    CooldownWakes = 4
    Faults = {"partial"}
    Stragglers = {1}
PROPERTIES
    EveryoneAsked
