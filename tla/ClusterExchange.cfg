\* Safety of the cluster exchange: three producers, two buffers, every tilt.
SPECIFICATION Spec
CONSTANTS
    clusters0 = clusters0
    clusters1 = clusters1
    None = None
    Readings <- AnyTilt
    MaxVersion = 2
INVARIANTS
    OneOwner
    DrawsWhole
    DrawsUpright
PROPERTIES
    NeverGoesBack
    HandsOver
