SPECIFICATION Spec
CONSTANTS
    ENTRIES = 32
    LowFrames = 24
    VgaFrame = 25
    KernelPd = 26
    KernelLast = 29
    InitrdFrame = 33
    LastFrame = 35
    StackPage <- MC_StackPage
    Archives <- MC_Archives
CHECK_DEADLOCK FALSE
INVARIANTS
    TypeOK
    UserFramesOwned
    KernelHalfKept
    ProgramIntact
    FaultsOnlyIllLaid
    InitrdListed
