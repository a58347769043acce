\* A manual map change against the auto-cycle timer.
SPECIFICATION Spec
CONSTANTS
    clusters0 = clusters0
    clusters1 = clusters1
    None = None
    Readings <- Upright
    MaxVersion = 1
PROPERTIES
    ManualChangeKept
