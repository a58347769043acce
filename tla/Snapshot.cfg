\* Three trains at three positions, two types and two services.
SPECIFICATION Spec
CONSTANTS
    Trains = {t1, t2, t3}
    Positions <- SomePositions
    Types = {SNG, SLT}
    Services = {Sprinter, Intercity}
    Tilts <- AnyTilt
SYMMETRY TrainSymmetry
INVARIANTS
    TypeOK
    PushesFit
    DrawsRegistry
