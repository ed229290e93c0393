SPECIFICATION Spec
CONSTANTS
    QUARTER <- MC_QUARTER
    Pool <- MC_Pool2
    Handles = {h1, h2, h3}
    Sizes <- MC_Sizes
    Arrays <- MC_Arrays
CHECK_DEADLOCK FALSE
SYMMETRY HandleSymmetry
INVARIANTS
    TypeOK
    BlocksDisjoint
    BlocksBacked
    FramesConserved
    NoIdleBucket
